----------------------------- MODULE OrderedFeed -----------------------------
(***************************************************************************)
(* What a change feed promises a program that processes its changes, saves *)
(* a cursor and is started again from there: the changes come one by one,  *)
(* in the order of the feed, from the place where the reader began; a      *)
(* cursor is past exactly what was handed out, by whole transactions; and  *)
(* a reader begins at the cursor that was saved, at no other.              *)
(***************************************************************************)
EXTENDS Integers, Sequences

CONSTANT None   \* no place

VARIABLES
  feed,       \* the transactions: where each is, and how many changes it has
  from,       \* where the reader began; None before it did
  last,       \* the change handed out last
  holds,      \* whether the program still works on it
  processed,  \* the changes the program is done with
  origin,     \* where the first reader began
  saved       \* the cursor the program saved

vars == <<feed, from, last, holds, processed, origin, saved>>

Nothing == <<0, 0>>

Init ==
  /\ feed = <<>> /\ processed = {}
  /\ from = None /\ last = Nothing /\ ~holds
  /\ origin = None /\ saved = None

Before(e, f) == e[1] < f[1] \/ (e[1] = f[1] /\ e[2] < f[2])

(* The changes of the feed from where the reader began.                    *)
Wanted == UNION {{i} \X (1 .. feed[i].changes) : i \in {j \in DOMAIN feed : from <= feed[j].at}}

(* p is past the transactions that were handed out to the last change, and *)
(* past no other.                                                          *)
Exact(p) ==
  \A i \in DOMAIN feed :
    feed[i].changes > 0 /\ from <= feed[i].at =>
      (feed[i].at < p <=> ~Before(last, <<i, feed[i].changes>>))

(* A transaction comes after all others, and where no cursor that has      *)
(* moved on is past it.                                                    *)
Grow ==
  /\ Len(feed') = Len(feed) + 1
  /\ \A i \in DOMAIN feed : feed'[i] = feed[i] /\ feed[i].at < feed'[Len(feed) + 1].at
  /\ saved = None \/ saved <= origin \/ saved <= feed'[Len(feed) + 1].at
  /\ UNCHANGED <<from, last, holds, processed, origin, saved>>

Begin ==
  /\ from = None /\ from' \in Nat
  /\ IF saved = None THEN origin' = from' ELSE from' = saved /\ UNCHANGED origin
  /\ UNCHANGED <<feed, last, holds, processed, saved>>

HandOut ==
  /\ from # None /\ ~holds
  /\ last' \in Wanted /\ Before(last, last')
  /\ \A e \in Wanted : Before(last, e) => ~Before(e, last')
  /\ holds'
  /\ UNCHANGED <<feed, from, processed, origin, saved>>

Process ==
  /\ holds /\ ~holds'
  /\ processed' = processed \cup {last}
  /\ UNCHANGED <<feed, from, last, origin, saved>>

Save ==
  /\ from # None /\ ~holds
  /\ saved' \in Nat /\ from <= saved' /\ Exact(saved')
  /\ UNCHANGED <<feed, from, last, holds, processed, origin>>

(* The reader is gone, with what the program held.                         *)
Restart ==
  /\ from' = None /\ last' = Nothing /\ ~holds'
  /\ UNCHANGED <<feed, processed, origin, saved>>

Next == Grow \/ Begin \/ HandOut \/ Process \/ Save \/ Restart

Spec == Init /\ [][Next]_vars
=============================================================================
