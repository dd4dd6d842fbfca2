---------------------------- MODULE MCQueryCache ----------------------------
(***************************************************************************)
(* Instances of QueryCache for TLC: a users table, an edge table between   *)
(* users, and the three kinds of read (plain, of an edge, through links).  *)
(***************************************************************************)
EXTENDS QueryCache, TLC

CONSTANTS user, likes,                 \* tables; likes is an edge
          qUser, qLikes, qPath         \* SELECT FROM user; FROM likes; user.friend.name

MCPlain   == (qUser :> {user})
MCLinked  == (qLikes :> {likes} @@ qPath :> {user})

\* A delete of an edge, a delete of a user (edges go with it).
MCDeletes == {{likes}, {user, EDGES}}

TaskSym   == Permutations(Readers) \cup Permutations(Writers)
IdentSym  == Permutations(Readers) \cup Permutations(Idents) \cup Permutations(Loops)
=============================================================================
