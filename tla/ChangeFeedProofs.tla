-------------------------- MODULE ChangeFeedProofs --------------------------
(***************************************************************************)
(* A reader of a change feed loses nothing and repeats nothing, for every  *)
(* value of the constants: the invariant behind the properties of          *)
(* ChangeFeed.tla, and its proof.                                          *)
(***************************************************************************)
EXTENDS ChangeFeed, SequenceTheorems, WellFoundedInduction, TLAPS

-----------------------------------------------------------------------------
(***************************************************************************)
(* Numbers.                                                                *)
(***************************************************************************)
LEMMA NatMinimum ==
  ASSUME NEW T \in SUBSET Nat, T # {}
  PROVE  \E x \in T : \A y \in T : x <= y
<1>1. \E x \in T : \A y \in T : <<y, x>> \notin OpToRel(<, Nat)
  BY NatLessThanWellFounded, WFMin, Zenon
<1>2. PICK x \in T : \A y \in T : <<y, x>> \notin OpToRel(<, Nat)
  BY <1>1
<1>3. \A y \in T : ~(y < x)
  BY <1>2 DEF OpToRel
<1> QED
  BY <1>3

LEMMA NatMaximum ==
  ASSUME NEW T \in SUBSET Nat, T # {}, NEW b \in Nat, \A y \in T : y <= b
  PROVE  \E x \in T : \A y \in T : y <= x
<1> DEFINE U == {b - y : y \in T}
<1>1. U \in SUBSET Nat
  <2>1. \A y \in T : y \in Nat /\ b - y \in Nat
    OBVIOUS
  <2> QED
    BY <2>1
<1>0. U # {}
  <2>1. PICK y \in T : TRUE
    OBVIOUS
  <2>2. b - y \in U
    BY <2>1
  <2> QED
    BY <2>2
<1>2. PICK u \in U : \A v \in U : u <= v
  BY <1>0, <1>1, NatMinimum
<1>3. PICK x \in T : u = b - x
  BY <1>2
<1>4. \A y \in T : b - x <= b - y
  BY <1>2, <1>3
<1> QED
  BY <1>3, <1>4

LEMMA DivIsNat == ASSUME NEW n \in Nat PROVE n \div Unit \in Nat
BY FeedAssumption

LEMMA Multiples ==
  ASSUME NEW c \in Nat
  PROVE  c * Unit \in Nat /\ (c * Unit) \div Unit = c
<1> Unit \in Nat \ {0}
  BY FeedAssumption
<1> QED
  OBVIOUS

LEMMA MultiplesGrow ==
  ASSUME NEW c \in Nat, NEW d \in Nat
  PROVE  c <= d <=> c * Unit <= d * Unit
<1>1. Unit \in Nat \ {0}
  BY FeedAssumption
<1>2. c <= d => c * Unit <= d * Unit
  BY <1>1
<1>3. d < c => d * Unit < c * Unit
  BY <1>1
<1> QED
  BY <1>1, <1>2, <1>3, Multiples

-----------------------------------------------------------------------------
(***************************************************************************)
(* Types.                                                                  *)
(***************************************************************************)
Marks     == Nat \cup {None}
EntryType == [stamp : Nat, changes : Nat]
EventType == [entry : Nat, change : Nat, after : Marks]
StreamType ==
  [bound : Marks, started : BOOLEAN, stopped : BOOLEAN,
   since : Since, cursor : Marks, pending : Seq(EventType)]
Phases == {"version", "check", "clock", "scan", "first", "double", "bisect", "poll"}
ReadType ==
  [pc : {"outside", "ended", "failed", "opening", "sent", "backoff", "pausing"},
   mode : {"read", "start"}, phase : Phases, attempt : Nat, client : Marks,
   at : Nat, low : Nat, high : Nat, answered : BOOLEAN, page : Seq(Nat), now : Nat]
SeenType == [last : Nat \X Nat, from : Marks, called : Nat, fixed : Nat]
ProgramType ==
  [since : Since, hand : BOOLEAN, saved : Marks, origin : Marks,
   processed : SUBSET (Nat \X Nat), streams : Nat]

TypeInv ==
  /\ major \in Nat /\ log \in Seq(EntryType) /\ clock \in Nat /\ generation \in Nat
  /\ stream \in StreamType /\ read \in ReadType
  /\ seen \in SeenType /\ program \in ProgramType

-----------------------------------------------------------------------------
(* Where the server finds the entry at an index.                           *)
Pos(i) == Position(log[i])

(* The positions of the feed grow, no further than the clock.              *)
LogInv ==
  /\ \A i, j \in DOMAIN log : i < j => Pos(i) < Pos(j)
  /\ \A i \in DOMAIN log :
       IF major < 3 THEN log[i].stamp = Pos(i) * Unit /\ Pos(i) <= clock
                    ELSE Pos(i) < clock * Unit + Unit
  /\ seen.called <= Len(log) /\ seen.fixed <= Len(log)

(* No entry to come is below p.                                            *)
Later(p) ==
  \/ p = 0
  \/ \E i \in DOMAIN log : p <= Pos(i) + 1
  \/ major >= 3 /\ p <= clock * Unit

-----------------------------------------------------------------------------
(* Where the next page of a stream begins.                                 *)
Place(s) == IF s.cursor # None THEN s.cursor ELSE 0

Carries(i) == log[i].changes > 0 /\ seen.from <= Pos(i)

(* p is past the entries handed out up to event l, and past no other.      *)
Splits(p, l) ==
  \A i \in DOMAIN log :
    Carries(i) => (Pos(i) < p <=> i < l[1] \/ l = <<i, log[i].changes>>)

Whole(l) == l[1] # 0 => l[2] = log[l[1]].changes

EventOK(l) == l[1] \in DOMAIN log /\ l[2] \in 1 .. log[l[1]].changes /\ seen.from <= Pos(l[1])

Event(e) == <<e.entry, e.change>>

(* The cursor an event brings is past its entry, and past no later change. *)
AfterOK(e) ==
  IF e.after = None THEN ~Whole(Event(e))
  ELSE /\ Whole(Event(e)) /\ Pos(e.entry) < e.after /\ Later(e.after)
       /\ \A i \in DOMAIN log : i > e.entry /\ log[i].changes > 0 => e.after <= Pos(i)

(* f is the next change after e that a stream from its place hands out.    *)
Follows(e, f) ==
  IF e[1] # 0 /\ e[2] < log[e[1]].changes
    THEN f = <<e[1], e[2] + 1>>
    ELSE /\ f[2] = 1 /\ f[1] > e[1]
         /\ \A j \in e[1] + 1 .. f[1] - 1 :
              log[j].changes = 0 \/ Position(log[j]) < seen.from

(* What waits to be handed out goes on from event l.                       *)
PendingOK(P, l) ==
  /\ \A m \in 1 .. Len(P) : EventOK(Event(P[m])) /\ AfterOK(P[m])
  /\ \A m \in 1 .. Len(P) - 1 : Follows(Event(P[m]), Event(P[m + 1]))
  /\ P # <<>> => Follows(l, Event(P[1])) /\ Whole(Event(P[Len(P)]))
  /\ P = <<>> => Whole(l)

StreamOK(s) ==
  IF s.started
    THEN /\ s.bound # None
         /\ seen.from # None /\ seen.from <= Place(s)
         /\ Place(s) = seen.from \/ Later(Place(s))
         /\ seen.last = <<0, 0>> \/ EventOK(seen.last)
         /\ Splits(Place(s), seen.last)
         /\ PendingOK(s.pending, seen.last)
    ELSE s.pending = <<>> /\ s.cursor = None /\ seen.last = <<0, 0>>

-----------------------------------------------------------------------------
Asking(r) == r.pc \in {"opening", "sent", "backoff"}

(* The page answered is of the feed, from `at' on.                         *)
PageOK(p, at, limit) ==
  /\ Len(p) <= limit
  /\ \A k \in 1 .. Len(p) : p[k] \in DOMAIN log /\ p[k] = p[1] + k - 1 /\ at <= Pos(p[k])
  /\ p # <<>> => \A j \in 1 .. p[1] - 1 : Pos(j) < at
  /\ Len(p) < limit => \A j \in 1 .. seen.called : Pos(j) < at \/ (p # <<>> /\ j <= p[Len(p)])

Limit(phase) == IF phase \in {"scan", "poll"} THEN BatchSize ELSE 1

ReadOK(s, r) ==
  /\ Asking(r) => /\ s.bound # None
                  /\ IF r.phase = "poll" THEN s.started /\ s.pending = <<>> /\ r.at = Place(s)
                                         ELSE ~s.started
  /\ Asking(r) /\ r.phase \notin {"version", "check", "poll"} => s.since.kind = "now"
  /\ r.pc = "pausing" => s.started /\ s.pending = <<>>
  /\ r.pc = "opening" => ~r.answered
  /\ program.hand => r.pc = "outside"
  /\ r.pc = "sent" => r.client = s.bound
  /\ r.pc = "sent" /\ r.answered /\ r.phase \in {"scan", "first", "double", "bisect", "poll"} =>
       PageOK(r.page, r.at, Limit(r.phase))

-----------------------------------------------------------------------------
Handed(i, k) == i < seen.last[1] \/ (i = seen.last[1] /\ k <= seen.last[2])

Changes(i) == {i} \X (1 .. log[i].changes)

Done(from, to) ==
  \A i \in DOMAIN log : from <= Pos(i) /\ Pos(i) < to => Changes(i) \subseteq program.processed

Settles(p) == p <= program.origin \/ Later(p)

ProgramOK ==
  /\ program.saved # None =>
       /\ program.origin # None /\ Settles(program.saved)
       /\ Done(program.origin, program.saved)
       /\ ~stream.started => stream.since.kind = "cursor" /\ stream.since.at = program.saved
  /\ stream.started =>
       /\ program.origin # None /\ Settles(seen.from)
       /\ Done(program.origin, seen.from)
       /\ \A i \in DOMAIN log : \A k \in 1 .. log[i].changes :
            seen.from <= Pos(i) /\ Handed(i, k) =>
              <<i, k>> \in program.processed \/ (program.hand /\ <<i, k>> = seen.last)

FeedInv == TypeInv /\ LogInv /\ StreamOK(stream) /\ ReadOK(stream, read) /\ ProgramOK

-----------------------------------------------------------------------------
(* Every entry there when the stream was asked to start is below p.        *)
Older(p) == \A i \in 1 .. seen.called : Pos(i) < p

(* What the search for the end of the feed has narrowed it down to.        *)
SearchOK(r) ==
  /\ r.phase \in {"clock", "scan"} => major >= 3
  /\ r.phase \in {"first", "double", "bisect"} => major < 3
  /\ r.phase = "clock" /\ r.answered => r.now <= clock /\ Older(r.now * Unit + Unit)
  /\ r.phase = "scan" => Older(r.high) /\ Later(r.at)
  /\ r.phase = "first" => r.at = 0
  /\ r.phase = "double" => r.at = r.high /\ r.low < r.high /\ \E i \in DOMAIN log : r.low <= Pos(i)
  /\ r.phase = "bisect" => /\ r.low < r.at /\ r.at < r.high
                           /\ Older(r.high) /\ \E i \in DOMAIN log : r.low <= Pos(i)

Begun ==
  stream.started /\ stream.since.kind = "now" =>
    /\ Older(seen.from) /\ Later(seen.from)
    /\ \A i \in DOMAIN log : i > seen.fixed => seen.from <= Pos(i)

NowInv == clock <= MaxClock /\ (Asking(read) => SearchOK(read)) /\ Begun

-----------------------------------------------------------------------------
(***************************************************************************)
(* The feed: its positions, and the page a request returns.                *)
(***************************************************************************)
LEMMA PosType ==
  ASSUME TypeInv, NEW i \in DOMAIN log
  PROVE  /\ log[i] \in EntryType /\ Pos(i) \in Nat /\ i \in Nat
         /\ NextCursor(log[i].stamp) = Pos(i) + 1
<1>0. log \in Seq(EntryType)
  BY DEF TypeInv
<1>1. log[i] \in EntryType /\ i \in Nat /\ log[i].stamp \in Nat
  <2>1. log[i] \in EntryType /\ i \in Nat
    BY <1>0
  <2> QED
    BY <2>1 DEF EntryType
<1>2. log[i].stamp \div Unit \in Nat
  BY <1>1, DivIsNat
<1> QED
  BY <1>1, <1>2 DEF Pos, Position, NextCursor

LEMMA FeedIndexes ==
  ASSUME TypeInv
  PROVE  Len(log) \in Nat /\ DOMAIN log = 1 .. Len(log)
BY DEF TypeInv

(* Where a page starts is well-defined.                                    *)
LEMMA FirstOf ==
  ASSUME TypeInv, LogInv, NEW at \in Nat
  PROVE  \E i \in 1 .. Len(log) + 1 :
           /\ \A j \in 1 .. i - 1 : Position(log[j]) < at
           /\ \A j \in i .. Len(log) : Position(log[j]) >= at
<1> DEFINE n == Len(log)
           T == {i \in 1 .. n + 1 : \A j \in i .. n : Pos(j) >= at}
<1>1. n \in Nat /\ DOMAIN log = 1 .. n /\ \A j \in 1 .. n : Pos(j) \in Nat
  BY FeedIndexes, PosType
<1> HIDE DEF n
<1>2. T \in SUBSET Nat /\ n + 1 \in T
  BY <1>1
<1>3. PICK i \in T : \A k \in T : i <= k
  BY <1>2, NatMinimum
<1>4. ASSUME NEW j \in 1 .. i - 1 PROVE Pos(j) < at
  <2>1. j \in 1 .. n + 1 /\ j \notin T /\ j \in 1 .. n
    BY <1>1, <1>3
  <2>2. PICK k \in j .. n : ~(Pos(k) >= at)
    BY <2>1
  <2>3. j = k \/ Pos(j) < Pos(k)
    <3>1. \A u, v \in 1 .. n : u < v => Pos(u) < Pos(v)
      BY <1>1 DEF LogInv
    <3> QED
      BY <1>1, <2>1, <3>1
  <2> QED
    BY <1>1, <2>1, <2>2, <2>3
<1> QED
  BY <1>3, <1>4 DEF n, Pos

LEMMA ShowIs ==
  ASSUME TypeInv, LogInv, NEW at \in Nat, NEW limit \in Nat \ {0}
  PROVE  LET p == Show(log, at, limit) IN p \in Seq(Nat) /\ PageOK(p, at, limit)
<1> DEFINE n == Len(log)
           Starts(i) == /\ \A j \in 1 .. i - 1 : Position(log[j]) < at
                        /\ \A j \in i .. n : Position(log[j]) >= at
           first == CHOOSE i \in 1 .. n + 1 : Starts(i)
           last  == IF first + limit - 1 < n THEN first + limit - 1 ELSE n
           p     == [k \in 1 .. last - first + 1 |-> first + k - 1]
<1>1. n \in Nat /\ DOMAIN log = 1 .. n
  BY FeedIndexes
<1>2. first \in 1 .. n + 1 /\ Starts(first)
  BY FirstOf
<1>3. p = Show(log, at, limit)
  BY DEF Show
<1> HIDE DEF first, n
<1>4. last \in Nat /\ last - first + 1 \in Nat /\ last <= n
  BY <1>1, <1>2
<1> HIDE DEF last
<1>5. p \in Seq(Nat) /\ Len(p) = last - first + 1 /\ \A k \in 1 .. last - first + 1 : p[k] = first + k - 1
  BY <1>1, <1>2, <1>4
<1> HIDE DEF p
<1>6. Len(p) <= limit
  BY <1>1, <1>2, <1>4, <1>5 DEF last
<1>7. ASSUME NEW k \in 1 .. Len(p)
      PROVE  p[k] \in DOMAIN log /\ p[k] = p[1] + k - 1 /\ at <= Pos(p[k])
  <2>1. p[k] = first + k - 1 /\ p[1] = first /\ p[k] \in first .. n
    BY <1>1, <1>2, <1>4, <1>5
  <2>2. p[k] \in DOMAIN log
    BY <1>1, <1>2, <2>1
  <2> QED
    BY <1>2, <2>1, <2>2, PosType DEF Pos
<1>8. p # <<>> => \A j \in 1 .. p[1] - 1 : Pos(j) < at
  BY <1>2, <1>4, <1>5 DEF Pos
<1>9. ASSUME Len(p) < limit, NEW j \in 1 .. seen.called
      PROVE  Pos(j) < at \/ (p # <<>> /\ j <= p[Len(p)])
  <2>1. last = n
    BY <1>1, <1>2, <1>5, <1>9 DEF last
  <2>2. j \in 1 .. n
    BY <1>1 DEF LogInv, TypeInv, SeenType, n
  <2>3. CASE j < first
    BY <1>2, <2>2, <2>3 DEF Pos
  <2>4. CASE j >= first
    <3>1. p[Len(p)] = n /\ p # <<>>
      BY <1>1, <1>2, <1>5, <2>1, <2>2, <2>4
    <3> QED
      BY <2>2, <3>1
  <2> QED
    BY <1>1, <1>2, <2>2, <2>3, <2>4
<1> QED
  BY <1>3, <1>5, <1>6, <1>7, <1>8, <1>9 DEF PageOK
-----------------------------------------------------------------------------
(***************************************************************************)
(* A page is accepted entry by entry.                                      *)
(***************************************************************************)
LEMMA PosGrows ==
  ASSUME TypeInv, LogInv, NEW i \in DOMAIN log, NEW j \in DOMAIN log
  PROVE  /\ i < j => Pos(i) + 1 <= Pos(j)
         /\ i < j <=> Pos(i) < Pos(j)
<1>1. \A u, v \in DOMAIN log : u < v => Pos(u) < Pos(v)
  BY DEF LogInv
<1>2. Pos(i) \in Nat /\ Pos(j) \in Nat /\ i \in Nat /\ j \in Nat
  BY PosType
<1> QED
  BY <1>1, <1>2

Brings(i, k) ==
  [entry |-> i, change |-> k, after |-> IF k = log[i].changes THEN Pos(i) + 1 ELSE None]

LEMMA AcceptIs ==
  ASSUME TypeInv, NEW s \in StreamType, NEW i \in DOMAIN log
  PROVE  LET u == Accept(s, i)
             n == Len(s.pending)
             c == log[i].changes IN
         /\ u \in StreamType
         /\ u = [s EXCEPT !.pending = u.pending, !.cursor = u.cursor]
         /\ c = 0 /\ s.pending = <<>> => u.pending = <<>> /\ u.cursor = Pos(i) + 1
         /\ c = 0 /\ s.pending # <<>> =>
              /\ u.cursor = s.cursor /\ Len(u.pending) = n
              /\ \A m \in 1 .. n - 1 : u.pending[m] = s.pending[m]
              /\ u.pending[n] = [s.pending[n] EXCEPT !.after = Pos(i) + 1]
         /\ c > 0 =>
              /\ u.cursor = s.cursor /\ Len(u.pending) = n + c
              /\ \A m \in 1 .. n : u.pending[m] = s.pending[m]
              /\ \A k \in 1 .. c : u.pending[n + k] = Brings(i, k)
<1> DEFINE u == Accept(s, i)
           n == Len(s.pending)
           c == log[i].changes
           a == NextCursor(log[i].stamp)
           new == [k \in 1 .. c |-> [entry |-> i, change |-> k, after |-> IF k = c THEN a ELSE None]]
<1>1. log[i] \in EntryType /\ Pos(i) \in Nat /\ i \in Nat /\ a = Pos(i) + 1
  BY PosType
<1>2. c \in Nat /\ a \in Nat /\ a \in Marks
  BY <1>1 DEF EntryType, Marks
<1>3. s.pending \in Seq(EventType) /\ n \in Nat
  BY DEF StreamType
<1>4. u = IF c > 0 THEN [s EXCEPT !.pending = @ \o new]
          ELSE IF s.pending # <<>> THEN [s EXCEPT !.pending[n].after = a]
          ELSE [s EXCEPT !.cursor = a]
  BY DEF Accept
<1>5. \A k \in 1 .. c : new[k] = Brings(i, k) /\ new[k] \in EventType
  <2>1. \A k \in 1 .. c : k \in Nat /\ (IF k = c THEN a ELSE None) \in Marks
    BY <1>2 DEF Marks
  <2> QED
    BY <1>1, <1>2, <2>1 DEF Brings, EventType
<1>6. new \in Seq(EventType) /\ Len(new) = c
  <2>1. new \in [1 .. c -> EventType]
    BY <1>5
  <2> HIDE DEF new
  <2> QED
    BY <1>2, <2>1
<1> HIDE DEF a, new, u
<1>7. CASE c > 0
  <2> DEFINE both == s.pending \o new
  <2>1. u = [s EXCEPT !.pending = both]
    BY <1>4, <1>7
  <2>2. both \in Seq(EventType) /\ Len(both) = n + c
    BY <1>3, <1>6
  <2>6. \A m \in 1 .. n + c : both[m] = IF m <= n THEN s.pending[m] ELSE new[m - n]
    BY <1>3, <1>6, ConcatProperties
  <2> HIDE DEF both
  <2>3. u.pending = both /\ u.cursor = s.cursor /\ u \in StreamType
        /\ u = [s EXCEPT !.pending = u.pending, !.cursor = u.cursor]
    BY <2>1, <2>2 DEF StreamType
  <2>4. \A m \in 1 .. n : both[m] = s.pending[m]
    BY <1>2, <1>3, <2>6
  <2>5. \A k \in 1 .. c : both[n + k] = Brings(i, k)
    <3> TAKE k \in 1 .. c
    <3>1. n + k \in 1 .. n + c /\ ~(n + k <= n) /\ n + k - n = k
      BY <1>2, <1>3
    <3> QED
      BY <1>5, <2>6, <3>1
  <2> HIDE DEF n, c
  <2>7. ~(c = 0)
    BY <1>7
  <2> QED
    BY <1>7, <2>2, <2>3, <2>4, <2>5, <2>7 DEF u, n, c
<1>8. CASE ~(c > 0) /\ s.pending # <<>>
  <2> DEFINE e == [s.pending[n] EXCEPT !.after = a]
             p == [s.pending EXCEPT ![n] = e]
  <2>1. u = [s EXCEPT !.pending = p]
    BY <1>4, <1>8
  <2>2. n \in 1 .. n /\ s.pending[n] \in EventType
    BY <1>3, <1>8
  <2>3. e \in EventType
    BY <1>2, <2>2 DEF EventType
  <2> HIDE DEF e
  <2>4. p \in Seq(EventType) /\ Len(p) = n /\ p[n] = e /\ \A m \in 1 .. n - 1 : p[m] = s.pending[m]
    BY <1>3, <2>2, <2>3
  <2> HIDE DEF p
  <2>5. u.pending = p /\ u.cursor = s.cursor /\ u \in StreamType
        /\ u = [s EXCEPT !.pending = u.pending, !.cursor = u.cursor]
    BY <2>1, <2>4 DEF StreamType
  <2> QED
    BY <1>1, <1>2, <1>8, <2>4, <2>5 DEF u, e
<1>9. CASE ~(c > 0) /\ s.pending = <<>>
  <2>1. u = [s EXCEPT !.cursor = a]
    BY <1>4, <1>9
  <2>2. u.pending = s.pending /\ u.cursor = a /\ u \in StreamType
        /\ u = [s EXCEPT !.pending = u.pending, !.cursor = u.cursor]
    BY <1>2, <2>1 DEF StreamType
  <2> QED
    BY <1>1, <1>2, <1>9, <2>2 DEF u
<1> QED
  BY <1>7, <1>8, <1>9

(* Only what waits and the cursor may differ.                              *)
Moves(s, u) == u = [s EXCEPT !.pending = u.pending, !.cursor = u.cursor]

(* What the stream has become once it took the entries first .. q of a     *)
(* page: it hands out the changes of these, and goes on after q.           *)
Took(s, u, first, q) ==
  /\ u \in StreamType /\ Moves(s, u) /\ StreamOK(u)
  /\ IF u.pending = <<>>
       THEN \A i \in first .. q : log[i].changes = 0
       ELSE LET e == u.pending[Len(u.pending)] IN
            /\ e.entry \in first .. q
            /\ \A i \in first .. q : i > e.entry => log[i].changes = 0

(* A page begins after every entry handed out.                             *)
PageOf(s, first) ==
  /\ s.started /\ s.pending = <<>> /\ first \in DOMAIN log
  /\ Place(s) <= Pos(first) /\ \A j \in 1 .. first - 1 : Pos(j) < Place(s)

LEMMA StreamTypes ==
  ASSUME TypeInv, NEW s \in StreamType
  PROVE  /\ s.pending \in Seq(EventType) /\ Len(s.pending) \in Nat
         /\ Place(s) \in Nat /\ s.cursor \in Marks
         /\ seen.last[1] \in Nat /\ seen.last[2] \in Nat /\ seen.last = <<seen.last[1], seen.last[2]>>
         /\ seen.from \in Marks
         /\ \A m \in 1 .. Len(s.pending) : s.pending[m].entry \in Nat /\ s.pending[m].change \in Nat
                                           /\ s.pending[m].after \in Marks
<1>1. s.pending \in Seq(EventType) /\ s.cursor \in Marks
  BY DEF StreamType
<1>2. seen.last \in Nat \X Nat /\ seen.from \in Marks
  BY DEF TypeInv, SeenType
<1>3. \A m \in 1 .. Len(s.pending) : s.pending[m] \in EventType
  BY <1>1
<1> QED
  BY <1>1, <1>2, <1>3 DEF Place, Marks, None, EventType

LEMMA PageBeyond ==
  ASSUME TypeInv, LogInv, NEW s \in StreamType, StreamOK(s), NEW first, PageOf(s, first)
  PROVE  /\ seen.last[1] < first /\ Whole(seen.last)
         /\ \A j \in DOMAIN log : j < first /\ Carries(j) => j <= seen.last[1]
         /\ \A j \in DOMAIN log : first <= j => Place(s) <= Pos(j) /\ seen.from <= Pos(j)
<1> DEFINE l == seen.last
           x == Place(s)
<1>1. /\ x \in Nat /\ seen.from \in Nat /\ seen.from <= x
      /\ l[1] \in Nat /\ l[2] \in Nat /\ l = <<l[1], l[2]>>
      /\ first \in Nat /\ first \in DOMAIN log /\ first >= 1
      /\ \A j \in DOMAIN log : j \in Nat /\ j >= 1 /\ Pos(j) \in Nat /\ log[j].changes \in Nat
  <2>1. /\ x \in Nat /\ seen.from \in Marks /\ l[1] \in Nat /\ l[2] \in Nat /\ l = <<l[1], l[2]>>
    BY StreamTypes
  <2>2. seen.from # None /\ seen.from <= x /\ first \in DOMAIN log
    BY DEF StreamOK, PageOf
  <2>3. \A j \in DOMAIN log : j \in Nat /\ j >= 1 /\ Pos(j) \in Nat /\ log[j].changes \in Nat
    BY PosType, FeedIndexes DEF EntryType
  <2> QED
    BY <2>1, <2>2, <2>3 DEF Marks
<1>2. /\ x <= Pos(first) /\ \A j \in DOMAIN log : j < first => Pos(j) < x
      /\ Splits(x, l) /\ (l = <<0, 0>> \/ EventOK(l)) /\ Whole(l)
  <2>1. \A j \in DOMAIN log : j < first => j \in 1 .. first - 1
    BY <1>1
  <2> QED
    BY <2>1 DEF PageOf, StreamOK, PendingOK
<1> HIDE DEF x
<1>3. \A j \in DOMAIN log : first <= j => x <= Pos(j) /\ seen.from <= Pos(j)
  <2> TAKE j \in DOMAIN log
  <2>1. first < j => Pos(first) < Pos(j)
    BY <1>1, PosGrows
  <2> QED
    BY <1>1, <1>2, <2>1
<1>4. \A j \in DOMAIN log : j < first /\ Carries(j) => j <= l[1]
  BY <1>1, <1>2 DEF Splits
<1>5. l[1] < first
  <2>1. CASE l = <<0, 0>>
    BY <1>1, <2>1
  <2>2. CASE EventOK(l)
    <3>1. l[1] \in DOMAIN log /\ Carries(l[1])
      BY <1>1, <2>2 DEF EventOK, Carries
    <3>2. l = <<l[1], log[l[1]].changes>>
      BY <1>1, <1>2, <3>1 DEF Whole
    <3>3. Pos(l[1]) < x
      BY <1>2, <3>1, <3>2 DEF Splits
    <3> QED
      BY <1>1, <1>3, <3>1, <3>3
  <2> QED
    BY <1>2, <2>1, <2>2
<1> QED
  BY <1>2, <1>3, <1>4, <1>5 DEF x

LEMMA TakesNothing ==
  ASSUME TypeInv, LogInv, NEW s \in StreamType, StreamOK(s), NEW first, PageOf(s, first)
  PROVE  Took(s, s, first, first - 1)
<1>1. s.pending = <<>> /\ first \in Nat
  BY PosType DEF PageOf
<1>2. Moves(s, s)
  BY DEF StreamType, Moves
<1> QED
  BY <1>1, <1>2 DEF Took

(* Where the next entry comes from: past what waits, or past what was      *)
(* handed out.                                                             *)
LEMMA NextFollows ==
  ASSUME TypeInv, LogInv, NEW s \in StreamType, StreamOK(s), NEW first, PageOf(s, first),
         NEW u, NEW q \in Nat, first - 1 <= q, q + 1 \in DOMAIN log, Took(s, u, first, q)
  PROVE  LET l == IF u.pending = <<>> THEN seen.last ELSE Event(u.pending[Len(u.pending)]) IN
         Follows(l, <<q + 1, 1>>)
<1> DEFINE n == Len(u.pending)
           l == IF u.pending = <<>> THEN seen.last ELSE Event(u.pending[n])
<1>1. /\ first \in Nat /\ first \in DOMAIN log /\ s.started
      /\ \A j \in DOMAIN log : j \in Nat /\ Pos(j) \in Nat /\ log[j].changes \in Nat
      /\ DOMAIN log = 1 .. Len(log) /\ Len(log) \in Nat
  BY FeedIndexes, PosType DEF PageOf, EntryType
<1>2. u \in StreamType /\ StreamOK(u) /\ u.started
  <2>1. u.started = s.started
    BY DEF Took, StreamType, Moves
  <2> QED
    BY <1>1, <2>1 DEF Took
<1>3. l[1] \in Nat /\ l[1] <= q /\ Whole(l)
  <2>1. CASE u.pending = <<>>
    BY <1>1, <2>1, PageBeyond, StreamTypes
  <2>2. CASE u.pending # <<>>
    <3>1. l = <<u.pending[n].entry, u.pending[n].change>> /\ u.pending[n].entry \in first .. q
      BY <2>2 DEF Took, Event
    <3>2. Whole(l)
      BY <1>2, <2>2 DEF StreamOK, PendingOK
    <3> QED
      BY <1>1, <3>1, <3>2
  <2> QED
    BY <2>1, <2>2
<1>4. ASSUME NEW j \in l[1] + 1 .. q
      PROVE  log[j].changes = 0 \/ Position(log[j]) < seen.from
  <2>1. j \in DOMAIN log /\ j \in Nat
    BY <1>1, <1>3
  <2>2. CASE u.pending = <<>>
    <3>1. j >= first => log[j].changes = 0
      BY <1>1, <2>1, <2>2 DEF Took
    <3>2. j < first => ~Carries(j)
      BY <1>3, <2>1, <2>2, PageBeyond, StreamTypes
    <3>3. seen.from \in Nat
      BY <1>1, StreamTypes DEF StreamOK, Marks
    <3> QED
      BY <1>1, <2>1, <3>1, <3>2, <3>3 DEF Carries, Pos
  <2>3. CASE u.pending # <<>>
    <3>1. l[1] = u.pending[n].entry /\ l[1] \in first .. q
      BY <2>3 DEF Took, Event
    <3> QED
      BY <1>1, <2>1, <2>3, <3>1 DEF Took
  <2> QED
    BY <2>2, <2>3
<1> HIDE DEF l
<1>5. l[1] # 0 => ~(l[2] < log[l[1]].changes)
  <2>1. l[1] # 0 => l[1] \in DOMAIN log
    BY <1>1, <1>3
  <2> QED
    BY <1>1, <1>3, <2>1 DEF Whole
<1>6. <<q + 1, 1>>[1] = q + 1 /\ <<q + 1, 1>>[2] = 1 /\ q + 1 - 1 = q
  OBVIOUS
<1> QED
  BY <1>3, <1>4, <1>5, <1>6 DEF Follows, l

LEMMA TookIs ==
  ASSUME TypeInv, LogInv, NEW s \in StreamType, StreamOK(s), NEW first, PageOf(s, first),
         NEW u, NEW q \in Nat, first - 1 <= q, q + 1 \in DOMAIN log, Took(s, u, first, q)
  PROVE  /\ first \in Nat /\ first \in DOMAIN log
         /\ u \in StreamType /\ StreamOK(u) /\ s.started /\ u.started
         /\ Accept(u, q + 1) \in StreamType /\ Accept(u, q + 1).started
         /\ Moves(s, Accept(u, q + 1))
         /\ Accept(u, q + 1).bound = u.bound
<1> DEFINE v == Accept(u, q + 1)
<1>1. first \in Nat /\ first \in DOMAIN log /\ s.started
  BY PosType DEF PageOf
<1>2. u \in StreamType /\ StreamOK(u) /\ Moves(s, u)
  BY DEF Took
<1>3. u.started = s.started /\ u.bound = s.bound
  BY <1>2 DEF StreamType, Moves
<1>4. v \in StreamType /\ Moves(u, v)
  BY <1>2, AcceptIs DEF Moves
<1> HIDE DEF v
<1>5. v.started = u.started /\ v.bound = u.bound
  BY <1>2, <1>4 DEF StreamType, Moves
<1>6. Moves(s, v)
  BY <1>2, <1>4 DEF StreamType, Moves
<1> QED
  BY <1>1, <1>2, <1>3, <1>4, <1>5, <1>6 DEF v

(* An entry without changes and nothing waiting: the cursor moves.         *)
LEMMA AcceptMoves ==
  ASSUME TypeInv, LogInv, NEW s \in StreamType, StreamOK(s), NEW first, PageOf(s, first),
         NEW u, NEW q \in Nat, first - 1 <= q, q + 1 \in DOMAIN log, Took(s, u, first, q),
         log[q + 1].changes = 0, u.pending = <<>>
  PROVE  Took(s, Accept(u, q + 1), first, q + 1)
<1> DEFINE v == Accept(u, q + 1)
           i == q + 1
           l == seen.last
<1>0. /\ first \in Nat /\ first \in DOMAIN log /\ u \in StreamType /\ StreamOK(u) /\ u.started
      /\ v \in StreamType /\ v.started /\ v.bound = u.bound
      /\ Moves(s, v)
  BY TookIs
<1>1. v.pending = <<>> /\ v.cursor = Pos(i) + 1
  BY <1>0, AcceptIs
<1> HIDE DEF v
<1>2. /\ \A j \in DOMAIN log : j \in Nat /\ j >= 1 /\ Pos(j) \in Nat /\ log[j].changes \in Nat
      /\ i \in DOMAIN log /\ i \in Nat /\ first <= i /\ Pos(i) \in Nat
      /\ l[1] \in Nat /\ l[2] \in Nat /\ l = <<l[1], l[2]>> /\ seen.from \in Marks
  <2>1. \A j \in DOMAIN log : j \in Nat /\ j >= 1 /\ Pos(j) \in Nat /\ log[j].changes \in Nat
    BY PosType, FeedIndexes DEF EntryType
  <2>2. i \in DOMAIN log /\ i \in Nat /\ first <= i /\ Pos(i) \in Nat
    BY <1>0, <2>1
  <2>3. l[1] \in Nat /\ l[2] \in Nat /\ l = <<l[1], l[2]>> /\ seen.from \in Marks
    BY StreamTypes
  <2> QED
    BY <2>1, <2>2, <2>3
<1> HIDE DEF i
<1>3. Place(v) = Pos(i) + 1
  BY <1>1, <1>2 DEF Place, None
<1>4. seen.from # None /\ seen.from <= Pos(i)
  BY <1>0, <1>2, PageBeyond DEF StreamOK
<1>5. Later(Pos(i) + 1)
  BY <1>2 DEF Later
<1>6. \A j \in DOMAIN log : Pos(j) < Pos(i) + 1 <=> j <= i
  BY <1>2, PosGrows
<1>7. \A j \in first .. i : log[j].changes = 0
  <2>1. \A j \in first .. q : log[j].changes = 0
    BY DEF Took
  <2> QED
    BY <1>0, <2>1 DEF i
<1>8. l[1] < first /\ Whole(l) /\ \A j \in DOMAIN log : j < first /\ Carries(j) => j <= l[1]
  BY PageBeyond
<1>9. Splits(Pos(i) + 1, l)
  <2> SUFFICES ASSUME NEW j \in DOMAIN log, Carries(j)
               PROVE  Pos(j) < Pos(i) + 1 <=> j < l[1] \/ l = <<j, log[j].changes>>
    BY DEF Splits
  <2>1. j \in Nat /\ j >= 1 /\ log[j].changes > 0
    BY <1>2 DEF Carries
  <2>2. ASSUME j <= i PROVE j < l[1] \/ l = <<j, log[j].changes>>
    <3>1. j < first
      BY <1>0, <1>2, <1>7, <2>1, <2>2
    <3>2. j <= l[1]
      BY <1>8, <3>1
    <3>3. j = l[1] => l[2] = log[j].changes
      BY <1>8, <2>1 DEF Whole
    <3> QED
      BY <1>2, <2>1, <3>2, <3>3
  <2>3. ASSUME j < l[1] \/ l = <<j, log[j].changes>> PROVE j <= i
    <3>1. j <= l[1]
      BY <1>2, <2>1, <2>3
    <3> QED
      BY <1>0, <1>2, <1>8, <2>1, <3>1
  <2> QED
    BY <1>6, <2>2, <2>3
<1>10. PendingOK(v.pending, l)
  BY <1>1, <1>8 DEF PendingOK
<1>11. StreamOK(v)
  <2>1. seen.from <= Pos(i) + 1
    BY <1>2, <1>4 DEF Marks, None
  <2>2. v.bound # None /\ (l = <<0, 0>> \/ EventOK(l))
    BY <1>0 DEF StreamOK
  <2> QED
    BY <1>0, <1>3, <1>4, <1>5, <1>9, <1>10, <2>1, <2>2 DEF StreamOK
<1> QED
  BY <1>0, <1>1, <1>7, <1>11 DEF Took, v, i

(* An entry without changes behind some that wait: the last of these takes *)
(* the cursor past it.                                                     *)
LEMMA AcceptExtends ==
  ASSUME TypeInv, LogInv, NEW s \in StreamType, StreamOK(s), NEW first, PageOf(s, first),
         NEW u, NEW q \in Nat, first - 1 <= q, q + 1 \in DOMAIN log, Took(s, u, first, q),
         log[q + 1].changes = 0, u.pending # <<>>
  PROVE  Took(s, Accept(u, q + 1), first, q + 1)
<1> DEFINE v == Accept(u, q + 1)
           i == q + 1
           n == Len(u.pending)
           P == u.pending
           Q == v.pending
           e == u.pending[n]
<1>0. /\ first \in Nat /\ first \in DOMAIN log /\ u \in StreamType /\ StreamOK(u) /\ u.started
      /\ v \in StreamType /\ v.started /\ v.bound = u.bound
      /\ Moves(s, v)
  BY TookIs
<1>1. /\ v.cursor = u.cursor /\ Len(Q) = n
      /\ \A m \in 1 .. n - 1 : Q[m] = P[m]
      /\ Q[n] = [e EXCEPT !.after = Pos(i) + 1]
  BY <1>0, AcceptIs
<1>2. /\ \A j \in DOMAIN log : j \in Nat /\ j >= 1 /\ Pos(j) \in Nat /\ log[j].changes \in Nat
      /\ i \in DOMAIN log /\ i \in Nat /\ first <= i /\ Pos(i) \in Nat
  BY <1>0, PosType, FeedIndexes DEF EntryType
<1>3. P \in Seq(EventType) /\ n \in Nat /\ n >= 1 /\ e \in EventType /\ Q \in Seq(EventType) /\ Q # <<>>
  <2>1. P \in Seq(EventType) /\ Q \in Seq(EventType)
    BY <1>0 DEF StreamType
  <2>2. n \in Nat /\ n >= 1 /\ e \in EventType
    BY <2>1
  <2> QED
    BY <1>1, <2>1, <2>2
<1>4. /\ e.entry \in first .. q /\ \A j \in first .. q : j > e.entry => log[j].changes = 0
  BY DEF Took
<1>5. Q[n].entry = e.entry /\ Q[n].change = e.change /\ Q[n].after = Pos(i) + 1
  BY <1>1, <1>3 DEF EventType
<1>6. PendingOK(P, seen.last)
  BY <1>0 DEF StreamOK
<1> HIDE DEF v, n, i, P, Q, e
<1>7. \A m \in 1 .. n : Event(Q[m]) = Event(P[m])
  <2> TAKE m \in 1 .. n
  <2>1. CASE m = n
    BY <1>5, <2>1 DEF Event, e, P
  <2>2. CASE m # n
    BY <1>1, <1>3, <2>2
  <2> QED
    BY <2>1, <2>2
<1>8. P = u.pending /\ n = Len(P) /\ P[n] = e /\ P # <<>> /\ Q = v.pending
  BY DEF P, n, e, Q
<1>9. Whole(Event(e)) /\ EventOK(Event(e))
  BY <1>3, <1>6, <1>8 DEF PendingOK
<1>10. AfterOK(Q[n])
  <2>1. Event(Q[n]) = Event(e)
    BY <1>5 DEF Event
  <2>2. Pos(i) + 1 # None
    BY <1>2 DEF None
  <2>3. e.entry \in DOMAIN log /\ e.entry \in Nat /\ e.entry < i
    BY <1>0, <1>2, <1>4, FeedIndexes DEF i
  <2>4. Pos(e.entry) < Pos(i) + 1
    BY <1>2, <2>3, PosGrows
  <2>5. Later(Pos(i) + 1)
    BY <1>2 DEF Later
  <2>6. ASSUME NEW j \in DOMAIN log, j > e.entry, log[j].changes > 0 PROVE Pos(i) + 1 <= Pos(j)
    <3>1. j > i
      BY <1>0, <1>2, <1>4, <2>3, <2>6 DEF i
    <3> QED
      BY <1>2, <3>1, PosGrows
  <2> QED
    BY <1>5, <1>9, <2>1, <2>2, <2>4, <2>5, <2>6 DEF AfterOK
<1>11. PendingOK(Q, seen.last)
  <2>1. \A m \in 1 .. n : EventOK(Event(Q[m])) /\ AfterOK(Q[m])
    <3> TAKE m \in 1 .. n
    <3>1. EventOK(Event(P[m])) /\ AfterOK(P[m])
      BY <1>6, <1>8 DEF PendingOK
    <3>2. m # n => Q[m] = P[m]
      BY <1>1, <1>3
    <3> QED
      BY <1>7, <1>10, <3>1, <3>2
  <2>2. \A m \in 1 .. n - 1 : Follows(Event(Q[m]), Event(Q[m + 1]))
    <3> TAKE m \in 1 .. n - 1
    <3>1. Follows(Event(P[m]), Event(P[m + 1]))
      BY <1>6, <1>8 DEF PendingOK
    <3>2. m \in 1 .. n /\ m + 1 \in 1 .. n
      BY <1>3
    <3> QED
      BY <1>7, <3>1, <3>2
  <2>3. Follows(seen.last, Event(Q[1])) /\ Whole(Event(Q[n]))
    <3>1. Follows(seen.last, Event(P[1]))
      BY <1>6, <1>8 DEF PendingOK
    <3>2. 1 \in 1 .. n /\ n \in 1 .. n
      BY <1>3
    <3> QED
      BY <1>7, <1>8, <1>9, <3>1, <3>2
  <2> QED
    BY <1>1, <1>3, <2>1, <2>2, <2>3 DEF PendingOK
<1>12. Place(v) = Place(u)
  BY <1>1 DEF Place
<1>13. StreamOK(v)
  BY <1>0, <1>8, <1>11, <1>12 DEF StreamOK
<1>14. \A j \in first .. i : j > e.entry => log[j].changes = 0
  BY <1>0, <1>2, <1>4 DEF i
<1>15. e.entry \in first .. i
  BY <1>0, <1>4 DEF i
<1>16. v.pending # <<>> /\ v.pending[Len(v.pending)].entry = e.entry
  BY <1>1, <1>3, <1>5, <1>8
<1> QED
  BY <1>0, <1>13, <1>14, <1>15, <1>16 DEF Took, v, i

(* An entry with changes: they wait behind what waits already.             *)
LEMMA AcceptBrings ==
  ASSUME TypeInv, LogInv, NEW s \in StreamType, StreamOK(s), NEW first, PageOf(s, first),
         NEW u, NEW q \in Nat, first - 1 <= q, q + 1 \in DOMAIN log, Took(s, u, first, q),
         log[q + 1].changes > 0
  PROVE  Took(s, Accept(u, q + 1), first, q + 1)
<1> DEFINE v == Accept(u, q + 1)
           i == q + 1
           c == log[i].changes
           n == Len(u.pending)
           P == u.pending
           Q == v.pending
<1>0. /\ first \in Nat /\ first \in DOMAIN log /\ u \in StreamType /\ StreamOK(u) /\ u.started
      /\ v \in StreamType /\ v.started /\ v.bound = u.bound
      /\ Moves(s, v)
  BY TookIs
<1>1. /\ v.cursor = u.cursor /\ Len(Q) = n + c
      /\ \A m \in 1 .. n : Q[m] = P[m]
      /\ \A k \in 1 .. c : Q[n + k] = Brings(i, k)
  BY <1>0, AcceptIs
<1>2. /\ \A j \in DOMAIN log : j \in Nat /\ j >= 1 /\ Pos(j) \in Nat /\ log[j].changes \in Nat
      /\ i \in DOMAIN log /\ i \in Nat /\ first <= i /\ Pos(i) \in Nat /\ c \in Nat /\ c >= 1
  <2>1. \A j \in DOMAIN log : j \in Nat /\ j >= 1 /\ Pos(j) \in Nat /\ log[j].changes \in Nat
    BY PosType, FeedIndexes DEF EntryType
  <2> QED
    BY <1>0, <2>1
<1>3. P \in Seq(EventType) /\ n \in Nat /\ Q \in Seq(EventType) /\ Q # <<>>
  <2>1. P \in Seq(EventType) /\ Q \in Seq(EventType)
    BY <1>0 DEF StreamType
  <2> QED
    BY <1>1, <1>2, <2>1
<1>4. seen.from <= Pos(i)
  BY <1>0, <1>2, PageBeyond
<1>5. Follows(IF P = <<>> THEN seen.last ELSE Event(P[n]), <<i, 1>>)
  BY NextFollows
<1>6. PendingOK(P, seen.last)
  BY <1>0 DEF StreamOK
<1>7. P = u.pending /\ n = Len(P) /\ Q = v.pending /\ c = log[i].changes
  OBVIOUS
<1> HIDE DEF v, n, i, P, Q, c
<1>8. \A k \in 1 .. c : Event(Q[n + k]) = <<i, k>> /\ Q[n + k].entry = i
                        /\ Q[n + k].after = IF k = c THEN Pos(i) + 1 ELSE None
  <2> TAKE k \in 1 .. c
  <2>1. Q[n + k] = Brings(i, k)
    BY <1>1
  <2> QED
    BY <1>7, <2>1 DEF Event, Brings
<1>9. \A m \in 1 .. n + c : m <= n \/ \E k \in 1 .. c : m = n + k
  <2> TAKE m \in 1 .. n + c
  <2>1. CASE ~(m <= n)
    <3>1. m - n \in 1 .. c /\ m = n + (m - n)
      BY <1>2, <1>3, <2>1
    <3> QED
      BY <3>1
  <2> QED
    BY <2>1
<1>10. ASSUME NEW k \in 1 .. c PROVE EventOK(<<i, k>>) /\ AfterOK(Q[n + k])
  <2>1. EventOK(<<i, k>>)
    BY <1>2, <1>4, <1>7 DEF EventOK
  <2>2. Whole(<<i, k>>) <=> k = c
    BY <1>2, <1>7 DEF Whole
  <2>5. Event(Q[n + k]) = <<i, k>> /\ Q[n + k].entry = i
        /\ Q[n + k].after = IF k = c THEN Pos(i) + 1 ELSE None
    BY <1>8
  <2>3. CASE k # c
    BY <2>1, <2>2, <2>3, <2>5 DEF AfterOK
  <2>4. CASE k = c
    <3>1. Q[n + k].after = Pos(i) + 1 /\ Pos(i) + 1 # None /\ Pos(i) < Pos(i) + 1
      BY <1>2, <1>8, <2>4 DEF None
    <3>2. Later(Pos(i) + 1)
      BY <1>2 DEF Later
    <3>3. \A j \in DOMAIN log : j > i /\ log[j].changes > 0 => Pos(i) + 1 <= Pos(j)
      BY <1>2, PosGrows
    <3> QED
      BY <2>1, <2>2, <2>4, <2>5, <3>1, <3>2, <3>3 DEF AfterOK
  <2> QED
    BY <2>1, <2>3, <2>4
<1>11. \A m \in 1 .. n + c : EventOK(Event(Q[m])) /\ AfterOK(Q[m])
  <2> TAKE m \in 1 .. n + c
  <2>1. CASE m <= n
    <3>1. m \in 1 .. n
      BY <1>3, <2>1
    <3>2. EventOK(Event(P[m])) /\ AfterOK(P[m])
      BY <1>6, <1>7, <3>1 DEF PendingOK
    <3> QED
      BY <1>1, <3>1, <3>2
  <2>2. ASSUME NEW k \in 1 .. c, m = n + k PROVE EventOK(Event(Q[m])) /\ AfterOK(Q[m])
    BY <1>8, <1>10, <2>2
  <2> QED
    BY <1>9, <2>1, <2>2
<1>12. \A m \in 1 .. n + c - 1 : Follows(Event(Q[m]), Event(Q[m + 1]))
  <2> TAKE m \in 1 .. n + c - 1
  <2>1. CASE m < n
    <3>1. m \in 1 .. n - 1 /\ m \in 1 .. n /\ m + 1 \in 1 .. n
      BY <1>3, <2>1
    <3>2. Follows(Event(P[m]), Event(P[m + 1]))
      BY <1>6, <1>7, <3>1 DEF PendingOK
    <3>3. Q[m] = P[m] /\ Q[m + 1] = P[m + 1]
      BY <1>1, <3>1
    <3> QED
      BY <3>2, <3>3
  <2>2. CASE m = n
    <3>1. P # <<>> /\ n \in 1 .. n /\ 1 \in 1 .. c
      BY <1>2, <1>3, <1>7, <2>2
    <3>2. Q[m] = P[n] /\ Event(Q[m + 1]) = <<i, 1>>
      BY <1>1, <1>8, <2>2, <3>1
    <3> QED
      BY <1>5, <3>1, <3>2
  <2>3. CASE m > n
    <3>0. m - n \in 1 .. c /\ m - n + 1 \in 1 .. c /\ m = n + (m - n) /\ m + 1 = n + (m - n + 1) /\ m - n < c
      BY <1>2, <1>3, <2>3
    <3> DEFINE k == m - n
    <3>1. Event(Q[m]) = <<i, k>> /\ Event(Q[m + 1]) = <<i, k + 1>>
      BY <1>8, <3>0
    <3>2. i # 0 /\ k < log[i].changes
      BY <1>2, <1>7, <3>0
    <3> HIDE DEF k
    <3> QED
      BY <3>1, <3>2 DEF Follows
  <2> QED
    BY <1>2, <1>3, <2>1, <2>2, <2>3
<1>13. Follows(seen.last, Event(Q[1]))
  <2>1. CASE P = <<>>
    <3>1. n = 0 /\ 1 \in 1 .. c
      BY <1>2, <1>7, <2>1
    <3>2. Event(Q[1]) = <<i, 1>>
      BY <1>8, <3>1
    <3> QED
      BY <1>5, <2>1, <3>2
  <2>2. CASE P # <<>>
    <3>1. 1 \in 1 .. n
      BY <1>3, <1>7, <2>2
    <3> QED
      BY <1>1, <1>6, <2>2, <3>1 DEF PendingOK
  <2> QED
    BY <2>1, <2>2
<1>14. Whole(Event(Q[n + c])) /\ Q[n + c].entry = i
  <2>1. c \in 1 .. c
    BY <1>2
  <2>2. Event(Q[n + c]) = <<i, c>> /\ Q[n + c].entry = i
    BY <1>8, <2>1
  <2> QED
    BY <1>7, <2>2 DEF Whole
<1>15. PendingOK(Q, seen.last)
  <2>1. \A m \in 1 .. Len(Q) : EventOK(Event(Q[m])) /\ AfterOK(Q[m])
    BY <1>1, <1>11
  <2>2. \A m \in 1 .. Len(Q) - 1 : Follows(Event(Q[m]), Event(Q[m + 1]))
    <3> TAKE m \in 1 .. Len(Q) - 1
    <3>1. m \in 1 .. n + c - 1
      BY <1>1, <1>2, <1>3
    <3> QED
      BY <1>12, <3>1
  <2>3. Whole(Event(Q[Len(Q)]))
    BY <1>1, <1>14
  <2> QED
    BY <1>3, <1>13, <2>1, <2>2, <2>3 DEF PendingOK
<1>16. Place(v) = Place(u)
  BY <1>1 DEF Place
<1>17. StreamOK(v)
  BY <1>0, <1>7, <1>15, <1>16 DEF StreamOK
<1>18. v.pending # <<>> /\ v.pending[Len(v.pending)].entry = i
  BY <1>1, <1>3, <1>7, <1>14
<1>19. i \in first .. i /\ \A j \in first .. i : ~(j > i)
  BY <1>0, <1>2
<1> QED
  BY <1>0, <1>17, <1>18, <1>19 DEF Took, v, i

LEMMA AcceptStep ==
  ASSUME TypeInv, LogInv, NEW s \in StreamType, StreamOK(s), NEW first, PageOf(s, first),
         NEW u, NEW q \in Nat, first - 1 <= q, q + 1 \in DOMAIN log, Took(s, u, first, q)
  PROVE  Took(s, Accept(u, q + 1), first, q + 1)
<1>1. log[q + 1].changes \in Nat
  BY PosType DEF EntryType
<1>2. CASE log[q + 1].changes = 0 /\ u.pending = <<>>
  BY <1>2, AcceptMoves
<1>3. CASE log[q + 1].changes = 0 /\ u.pending # <<>>
  BY <1>3, AcceptExtends
<1>4. CASE log[q + 1].changes > 0
  BY <1>4, AcceptBrings
<1> QED
  BY <1>1, <1>2, <1>3, <1>4

-----------------------------------------------------------------------------
(***************************************************************************)
(* The page as a whole: the fold of _accept() over it.                     *)
(***************************************************************************)
IsFold(f, s, page, n) ==
  f = [k \in 0 .. n |-> IF k = 0 THEN s ELSE Accept(f[k - 1], page[k])]

LEMMA FoldExists ==
  ASSUME NEW s, NEW page, NEW n \in Nat
  PROVE  \E f : IsFold(f, s, page, n)
<1> DEFINE T == {m \in Nat : ~\E f : IsFold(f, s, page, m)}
<1>1. SUFFICES ASSUME T # {} PROVE FALSE
  OBVIOUS
<1>2. PICK m \in T : \A k \in T : m <= k
  <2>1. T \in SUBSET Nat /\ T # {}
    BY <1>1
  <2> HIDE DEF T
  <2> QED
    BY <2>1, NatMinimum
<1>3. m \in Nat /\ ~\E f : IsFold(f, s, page, m)
  OBVIOUS
<1>4. CASE m = 0
  <2> DEFINE g == [k \in 0 .. 0 |-> s]
  <2>1. \A k \in 0 .. 0 : k = 0
    OBVIOUS
  <2>2. g = [k \in 0 .. 0 |-> IF k = 0 THEN s ELSE Accept(g[k - 1], page[k])]
    BY <2>1
  <2> HIDE DEF g
  <2> QED
    BY <1>3, <1>4, <2>2 DEF IsFold
<1>5. CASE m # 0
  <2>1. m - 1 \in Nat /\ m - 1 \notin T
    BY <1>2, <1>3, <1>5
  <2>2. PICK f : IsFold(f, s, page, m - 1)
    BY <2>1
  <2>3. f = [k \in 0 .. m - 1 |-> IF k = 0 THEN s ELSE Accept(f[k - 1], page[k])]
    BY <2>2 DEF IsFold
  <2> DEFINE g == [k \in 0 .. m |-> IF k = m THEN Accept(f[m - 1], page[m]) ELSE f[k]]
  <2>4. \A k \in 0 .. m : g[k] = IF k = m THEN Accept(f[m - 1], page[m]) ELSE f[k]
    OBVIOUS
  <2>5. DOMAIN g = 0 .. m /\ g = [k \in 0 .. m |-> g[k]]
    OBVIOUS
  <2> HIDE DEF g, T
  <2>6. \A k \in 0 .. m : g[k] = IF k = 0 THEN s ELSE Accept(g[k - 1], page[k])
    <3> TAKE k \in 0 .. m
    <3>1. CASE k = m
      <4>1. g[m] = Accept(f[m - 1], page[m]) /\ g[m - 1] = f[m - 1]
        BY <1>3, <1>5, <2>1, <2>4
      <4> QED
        BY <1>5, <3>1, <4>1
    <3>2. CASE k # m /\ k = 0
      <4>1. 0 \in 0 .. m - 1
        BY <2>1
      <4> QED
        BY <2>3, <2>4, <3>2, <4>1
    <3>3. CASE k # m /\ k # 0
      <4>1. k \in 0 .. m - 1 /\ k - 1 \in 0 .. m /\ k - 1 # m
        BY <1>3, <3>3
      <4>2. g[k] = f[k] /\ g[k - 1] = f[k - 1]
        BY <2>4, <3>3, <4>1
      <4>3. f[k] = Accept(f[k - 1], page[k])
        BY <2>3, <3>3, <4>1
      <4> QED
        BY <3>3, <4>2, <4>3
    <3> QED
      BY <3>1, <3>2, <3>3
  <2>7. g = [k \in 0 .. m |-> IF k = 0 THEN s ELSE Accept(g[k - 1], page[k])]
    BY <2>5, <2>6
  <2> QED
    BY <1>3, <2>7 DEF IsFold
<1> QED
  BY <1>4, <1>5

LEMMA FoldIs ==
  ASSUME NEW s, NEW page, Len(page) \in Nat
  PROVE  \E f : IsFold(f, s, page, Len(page)) /\ Accepted(s, page) = f[Len(page)]
<1> DEFINE n == Len(page)
           f == CHOOSE g : g = [k \in 0 .. n |-> IF k = 0 THEN s ELSE Accept(g[k - 1], page[k])]
<1>1. \E g : IsFold(g, s, page, n)
  BY FoldExists
<1>2. IsFold(f, s, page, n)
  BY <1>1 DEF IsFold
<1>3. Accepted(s, page) = f[n]
  BY DEF Accepted
<1> QED
  BY <1>2, <1>3

(* A page accepted: the stream is well again, as it stands at its end.     *)
LEMMA AcceptedKeeps ==
  ASSUME TypeInv, LogInv, NEW s \in StreamType, StreamOK(s), s.started, s.pending = <<>>,
         NEW page \in Seq(Nat), NEW limit \in Nat, PageOK(page, Place(s), limit)
  PROVE  /\ Accepted(s, page) \in StreamType /\ Moves(s, Accepted(s, page))
         /\ StreamOK(Accepted(s, page))
<1> DEFINE n == Len(page)
           first == page[1]
<1>1. n \in Nat
  OBVIOUS
<1>2. PICK f : IsFold(f, s, page, n) /\ Accepted(s, page) = f[n]
  BY <1>1, FoldIs
<1>3. \A k \in 0 .. n : f[k] = IF k = 0 THEN s ELSE Accept(f[k - 1], page[k])
  BY <1>2 DEF IsFold
<1>4. CASE n = 0
  <2>1. f[n] = s
    BY <1>3, <1>4
  <2>2. Moves(s, s)
    BY DEF Moves, StreamType
  <2> QED
    BY <1>2, <2>1, <2>2
<1>5. CASE n # 0
  <2>1. /\ first \in DOMAIN log /\ Place(s) <= Pos(first)
        /\ \A j \in 1 .. first - 1 : Pos(j) < Place(s)
        /\ \A k \in 1 .. n : page[k] \in DOMAIN log /\ page[k] = first + k - 1
    <3>1. page # <<>> /\ 1 \in 1 .. n
      BY <1>1, <1>5
    <3> QED
      BY <3>1 DEF PageOK
  <2> HIDE DEF first
  <2>2. PageOf(s, first) /\ first \in Nat /\ first >= 1
    BY <2>1, FeedIndexes DEF PageOf
  <2> DEFINE T == {k \in 0 .. n : ~Took(s, f[k], first, first + k - 1)}
  <2>3. ASSUME T # {} PROVE FALSE
    <3>1. T \in SUBSET Nat
      OBVIOUS
    <3>2. PICK m \in T : \A k \in T : m <= k
      <4> HIDE DEF T
      <4> QED
        BY <2>3, <3>1, NatMinimum
    <3>3. m \in 0 .. n /\ ~Took(s, f[m], first, first + m - 1)
      OBVIOUS
    <3>4. m # 0
      <4>1. first + 0 - 1 = first - 1 /\ f[0] = s
        BY <1>3, <2>2
      <4>2. Took(s, f[0], first, first + 0 - 1)
        BY <2>2, <4>1, TakesNothing
      <4> QED
        BY <3>3, <4>2
    <3> DEFINE q == first + (m - 1) - 1
    <3>5. m - 1 \in 0 .. n /\ m \in 1 .. n /\ m - 1 \notin T
      BY <1>1, <3>2, <3>3, <3>4
    <3>6. Took(s, f[m - 1], first, q)
      BY <3>5
    <3> HIDE DEF T
    <3>7. q \in Nat /\ first - 1 <= q /\ q + 1 = page[m] /\ q + 1 \in DOMAIN log /\ q + 1 = first + m - 1
      BY <2>1, <2>2, <3>5
    <3> HIDE DEF q
    <3>8. Took(s, Accept(f[m - 1], q + 1), first, q + 1)
      BY <2>2, <3>6, <3>7, AcceptStep
    <3>9. f[m] = Accept(f[m - 1], page[m])
      BY <1>3, <3>3, <3>4
    <3> QED
      BY <3>3, <3>7, <3>8, <3>9
  <2>4. Took(s, f[n], first, first + n - 1)
    BY <1>1, <2>3
  <2> QED
    BY <1>2, <2>4 DEF Took
<1> QED
  BY <1>4, <1>5

-----------------------------------------------------------------------------
(***************************************************************************)
(* What the invariant says of a stream outlives what the server does.      *)
(***************************************************************************)
(* The feed grows at its end, past every position no entry to come is      *)
(* below.                                                                  *)
Grows ==
  /\ major' = major
  /\ Len(log) <= Len(log')
  /\ \A i \in DOMAIN log : log'[i] = log[i]
  /\ \A p \in Nat : Later(p) => Later(p)'
  /\ \A p \in Nat : \A i \in DOMAIN log' \ DOMAIN log : Later(p) => p <= Pos(i)'

LEMMA NoGrowth ==
  ASSUME TypeInv, UNCHANGED <<major, log, clock>>
  PROVE  Grows
<1>1. \A p \in Nat : Later(p)' <=> Later(p)
  BY DEF Later, Pos, Position
<1>2. Len(log) \in Nat
  BY FeedIndexes
<1> QED
  BY <1>1, <1>2 DEF Grows

LEMMA GrownFeed ==
  ASSUME TypeInv, log' \in Seq(EntryType), Grows
  PROVE  /\ Len(log) \in Nat /\ Len(log') \in Nat /\ Len(log) <= Len(log')
         /\ DOMAIN log = 1 .. Len(log) /\ DOMAIN log' = 1 .. Len(log')
         /\ DOMAIN log \subseteq DOMAIN log'
         /\ \A i \in DOMAIN log : log'[i] = log[i] /\ Pos(i)' = Pos(i) /\ Pos(i) \in Nat
         /\ \A i \in DOMAIN log' : Pos(i)' \in Nat /\ i \in Nat /\ (log[i].changes)' \in Nat
<1>1. /\ Len(log) \in Nat /\ DOMAIN log = 1 .. Len(log)
      /\ Len(log') \in Nat /\ DOMAIN log' = 1 .. Len(log')
  BY FeedIndexes
<1>2. Len(log) <= Len(log') /\ major' = major /\ \A i \in DOMAIN log : log'[i] = log[i]
  BY DEF Grows
<1>3. \A i \in DOMAIN log : Pos(i)' = Pos(i) /\ Pos(i) \in Nat
  BY <1>2, PosType DEF Pos, Position
<1>4. ASSUME NEW i \in DOMAIN log'
      PROVE  Pos(i)' \in Nat /\ i \in Nat /\ (log[i].changes)' \in Nat
  <2>1. log'[i] \in EntryType /\ i \in Nat
    BY <1>1
  <2>2. log'[i].stamp \in Nat /\ log'[i].changes \in Nat
    BY <2>1 DEF EntryType
  <2>3. log'[i].stamp \div Unit \in Nat
    BY <2>2, DivIsNat
  <2> QED
    BY <2>1, <2>2, <2>3 DEF Pos, Position
<1> QED
  BY <1>1, <1>2, <1>3, <1>4

LEMMA FollowsKeeps ==
  ASSUME TypeInv, log' \in Seq(EntryType), Grows, seen'.from = seen.from,
         NEW e, NEW f, e[1] \in Nat, f[1] \in DOMAIN log, e[1] # 0 => e[1] \in DOMAIN log
  PROVE  Follows(e, f)' <=> Follows(e, f)
<1>1. /\ Len(log) \in Nat /\ DOMAIN log = 1 .. Len(log)
      /\ \A i \in DOMAIN log : log'[i] = log[i]
  BY GrownFeed
<1>2. \A i \in DOMAIN log : Position(log[i])' = Position(log[i])
  BY <1>1 DEF Grows, Position
<1>3. \A j \in e[1] + 1 .. f[1] - 1 : j \in DOMAIN log
  BY <1>1
<1> QED
  BY <1>1, <1>2, <1>3 DEF Follows

LEMMA EventKeeps ==
  ASSUME TypeInv, log' \in Seq(EntryType), Grows, seen'.from = seen.from,
         NEW l, EventOK(l)
  PROVE  EventOK(l)' /\ (Whole(l)' <=> Whole(l))
BY GrownFeed DEF EventOK, Whole

LEMMA AfterKeeps ==
  ASSUME TypeInv, log' \in Seq(EntryType), Grows, seen'.from = seen.from,
         NEW e \in EventType, EventOK(Event(e)), AfterOK(e)
  PROVE  AfterOK(e)'
<1>0. Event(e)' = Event(e) /\ Event(e)[1] = e.entry
  BY DEF Event
<1>1. e.entry \in DOMAIN log
  BY <1>0 DEF EventOK
<1>2. Whole(Event(e))' <=> Whole(Event(e))
  BY <1>0, EventKeeps
<1>3. CASE e.after = None
  BY <1>2, <1>3 DEF AfterOK
<1>4. CASE e.after # None
  <2>1. /\ Whole(Event(e)) /\ Pos(e.entry) < e.after /\ Later(e.after)
        /\ \A i \in DOMAIN log : i > e.entry /\ log[i].changes > 0 => e.after <= Pos(i)
    BY <1>4 DEF AfterOK
  <2>2. e.after \in Nat
    BY <1>4 DEF EventType, Marks
  <2>3. Later(e.after)' /\ Pos(e.entry)' < e.after
    BY <1>1, <2>1, <2>2, GrownFeed DEF Grows
  <2>4. ASSUME NEW i \in DOMAIN log', i > e.entry, log'[i].changes > 0 PROVE e.after <= Pos(i)'
    <3>1. CASE i \in DOMAIN log
      BY <2>1, <2>4, <3>1, GrownFeed
    <3>2. CASE i \notin DOMAIN log
      BY <2>1, <2>2, <3>2 DEF Grows
    <3> QED
      BY <3>1, <3>2
  <2> QED
    BY <1>2, <1>4, <2>1, <2>3, <2>4 DEF AfterOK
<1> QED
  BY <1>3, <1>4

LEMMA StreamKeeps ==
  ASSUME TypeInv, log' \in Seq(EntryType), Grows, seen'.from = seen.from, seen'.last = seen.last,
         NEW s \in StreamType, StreamOK(s)
  PROVE  StreamOK(s)'
<1>1. CASE ~s.started
  BY <1>1 DEF StreamOK
<1>2. CASE s.started
  <2> DEFINE P == s.pending
             l == seen.last
             x == Place(s)
  <2>0. /\ s.bound # None /\ seen.from # None /\ seen.from <= x
        /\ x = seen.from \/ Later(x)
        /\ l = <<0, 0>> \/ EventOK(l)
        /\ Splits(x, l) /\ PendingOK(P, l)
    BY <1>2 DEF StreamOK
  <2>1. /\ x \in Nat /\ seen.from \in Nat /\ l[1] \in Nat /\ l[2] \in Nat /\ l = <<l[1], l[2]>>
        /\ P \in Seq(EventType) /\ Len(P) \in Nat
    BY <2>0, StreamTypes DEF Marks
  <2>2. Place(s)' = x
    BY DEF Place
  <2> HIDE DEF x, P
  <2>3. x = seen.from \/ Later(x)'
    BY <2>0, <2>1 DEF Grows
  <2>4. l = <<0, 0>> \/ EventOK(l)'
    BY <2>0, EventKeeps
  <2>5. l[1] # 0 => l[1] \in DOMAIN log
    BY <2>0 DEF EventOK
  <2>6. Splits(x, l)'
    <3> SUFFICES ASSUME NEW i \in DOMAIN log', Carries(i)'
                 PROVE  Pos(i)' < x <=> i < l[1] \/ l = <<i, log'[i].changes>>
      BY DEF Splits
    <3>1. CASE i \in DOMAIN log
      <4>1. Carries(i) /\ Pos(i)' = Pos(i) /\ log'[i] = log[i]
        BY <3>1, GrownFeed DEF Carries
      <4> QED
        BY <2>0, <3>1, <4>1 DEF Splits
    <3>2. CASE i \notin DOMAIN log
      <4>1. seen.from <= Pos(i)' /\ i \in Nat /\ Pos(i)' \in Nat /\ l[1] < i
        BY <2>1, <2>5, <3>2, GrownFeed DEF Carries
      <4>2. ~(Pos(i)' < x)
        BY <2>0, <2>1, <3>2, <4>1 DEF Grows
      <4> QED
        BY <2>1, <4>1, <4>2
    <3> QED
      BY <3>1, <3>2
  <2>7. PendingOK(P, l)'
    <3>1. \A m \in 1 .. Len(P) : EventOK(Event(P[m])) /\ AfterOK(P[m]) /\ P[m] \in EventType
      BY <2>0, <2>1 DEF PendingOK
    <3>2. \A m \in 1 .. Len(P) : Event(P[m])[1] \in DOMAIN log /\ Event(P[m])[1] \in Nat
      BY <3>1, FeedIndexes DEF EventOK
    <3>3. \A m \in 1 .. Len(P) : EventOK(Event(P[m]))' /\ AfterOK(P[m])'
      BY <3>1, EventKeeps, AfterKeeps DEF Event
    <3>4. ASSUME NEW m \in 1 .. Len(P) - 1 PROVE Follows(Event(P[m]), Event(P[m + 1]))'
      <4>1. Follows(Event(P[m]), Event(P[m + 1])) /\ m \in 1 .. Len(P) /\ m + 1 \in 1 .. Len(P)
        BY <2>0, <2>1 DEF PendingOK
      <4> QED
        BY <3>2, <4>1, FollowsKeeps DEF Event
    <3>5. ASSUME P # <<>> PROVE Follows(l, Event(P[1]))' /\ Whole(Event(P[Len(P)]))'
      <4>1. 1 \in 1 .. Len(P) /\ Len(P) \in 1 .. Len(P)
        BY <2>1, <3>5
      <4>2. Follows(l, Event(P[1])) /\ Whole(Event(P[Len(P)]))
        BY <2>0, <3>5 DEF PendingOK
      <4>3. Follows(l, Event(P[1]))'
        BY <2>1, <2>5, <3>2, <4>1, <4>2, FollowsKeeps DEF Event
      <4>4. Whole(Event(P[Len(P)]))'
        BY <3>1, <4>1, <4>2, EventKeeps DEF Event
      <4> QED
        BY <4>3, <4>4
    <3>6. ASSUME P = <<>> PROVE Whole(l)'
      <4>1. Whole(l)
        BY <2>0, <3>6 DEF PendingOK
      <4> QED
        BY <2>5, <4>1, GrownFeed DEF Whole
    <3> QED
      BY <3>3, <3>4, <3>5, <3>6 DEF PendingOK, P
  <2> QED
    BY <1>2, <2>0, <2>2, <2>3, <2>4, <2>6, <2>7 DEF StreamOK, P
<1> QED
  BY <1>1, <1>2 DEF StreamType

LEMMA DoneKeeps ==
  ASSUME TypeInv, log' \in Seq(EntryType), Grows,
         program'.processed = program.processed, program'.origin = program.origin,
         NEW from \in Marks, NEW to \in Nat, Done(from, to), from \in Nat, to <= from \/ Later(to)
  PROVE  Done(from, to)'
<1> SUFFICES ASSUME NEW i \in DOMAIN log', from <= Pos(i)', Pos(i)' < to
             PROVE  Changes(i)' \subseteq program.processed
  BY DEF Done
<1>1. Pos(i)' \in Nat
  BY GrownFeed
<1>2. i \in DOMAIN log
  BY <1>1 DEF Grows
<1>3. Pos(i)' = Pos(i) /\ log'[i] = log[i]
  BY <1>2, GrownFeed
<1>4. Changes(i) \subseteq program.processed
  BY <1>2, <1>3 DEF Done
<1> QED
  BY <1>3, <1>4 DEF Changes

(* The program's share of the invariant, when it does nothing itself.      *)
LEMMA ProgramKeeps ==
  ASSUME FeedInv, log' \in Seq(EntryType), Grows, program' = program,
         seen'.from = seen.from, seen'.last = seen.last,
         stream'.started = stream.started, stream'.since = stream.since
  PROVE  ProgramOK'
<1>0. /\ TypeInv /\ ProgramOK /\ StreamOK(stream) /\ program.origin \in Marks /\ program.saved \in Marks
      /\ seen.from \in Marks /\ seen.last[1] \in Nat /\ seen.last[2] \in Nat
      /\ program.origin # None => program.origin \in Nat
      /\ program.saved # None => program.saved \in Nat
      /\ seen.from # None => seen.from \in Nat
  BY DEF FeedInv, TypeInv, ProgramType, SeenType, Marks
<1>1. ASSUME NEW p \in Nat, Settles(p) PROVE Settles(p)'
  BY <1>1 DEF Settles, Grows
<1>2. ASSUME program.saved # None
      PROVE  /\ program.origin # None /\ Settles(program.saved)'
             /\ Done(program.origin, program.saved)'
             /\ ~stream.started => stream.since.kind = "cursor" /\ stream.since.at = program.saved
  <2>1. /\ program.origin # None /\ Settles(program.saved) /\ Done(program.origin, program.saved)
        /\ ~stream.started => stream.since.kind = "cursor" /\ stream.since.at = program.saved
    BY <1>0, <1>2 DEF ProgramOK
  <2>2. program.saved <= program.origin \/ Later(program.saved)
    BY <2>1 DEF Settles
  <2>3. Done(program.origin, program.saved)'
    BY <1>0, <1>2, <2>1, <2>2, DoneKeeps
  <2>4. Settles(program.saved)'
    BY <1>0, <1>1, <1>2, <2>1
  <2> QED
    BY <2>1, <2>3, <2>4
<1>3. ASSUME stream.started
      PROVE  /\ program.origin # None /\ Settles(seen.from)'
             /\ Done(program.origin, seen.from)'
  <2>1. /\ program.origin # None /\ Settles(seen.from) /\ Done(program.origin, seen.from)
    BY <1>0, <1>3 DEF ProgramOK
  <2>2. seen.from # None /\ seen.from \in Nat
    BY <1>0, <1>3 DEF StreamOK
  <2>3. seen.from <= program.origin \/ Later(seen.from)
    BY <2>1 DEF Settles
  <2>4. Done(program.origin, seen.from)'
    BY <1>0, <2>1, <2>2, <2>3, DoneKeeps
  <2>5. Settles(seen.from)'
    BY <1>1, <2>1, <2>2
  <2> QED
    BY <2>1, <2>4, <2>5
<1>4. ASSUME stream.started, NEW i \in DOMAIN log', NEW k \in 1 .. log'[i].changes,
             seen.from <= Pos(i)', Handed(i, k)'
      PROVE  <<i, k>> \in program.processed \/ (program.hand /\ <<i, k>> = seen.last)
  <2>1. Handed(i, k) /\ i \in Nat
    BY <1>0, <1>4, GrownFeed DEF Handed
  <2>2. seen.last = <<0, 0>> \/ seen.last[1] \in DOMAIN log
    BY <1>0, <1>4 DEF StreamOK, EventOK
  <2>3. i \in DOMAIN log
    <3>1. i >= 1 /\ i <= seen.last[1]
      BY <1>0, <1>4, <2>1, GrownFeed DEF Handed
    <3>2. seen.last[1] <= Len(log)
      BY <1>0, <2>2, <3>1, GrownFeed
    <3> QED
      BY <1>0, <2>1, <3>1, <3>2, GrownFeed
  <2>4. Pos(i)' = Pos(i) /\ log'[i] = log[i]
    BY <1>0, <2>3, GrownFeed
  <2> QED
    BY <1>0, <1>4, <2>1, <2>3, <2>4 DEF ProgramOK
<1> QED
  BY <1>2, <1>3, <1>4 DEF ProgramOK

(* The reading task's share, when the page it holds is what it was.        *)
LEMMA PageKeeps ==
  ASSUME TypeInv, LogInv, log' \in Seq(EntryType), Grows, seen'.called = seen.called,
         NEW p \in Seq(Nat), NEW at \in Nat, NEW limit, PageOK(p, at, limit)
  PROVE  PageOK(p, at, limit)'
<1>1. Len(p) \in Nat
  OBVIOUS
<1>2. \A k \in 1 .. Len(p) : (p[k] \in DOMAIN log /\ p[k] = p[1] + k - 1 /\ at <= Pos(p[k]))'
  BY GrownFeed DEF PageOK
<1>3. p # <<>> => \A j \in 1 .. p[1] - 1 : j \in DOMAIN log
  <2>1. p # <<>> => 1 \in 1 .. Len(p)
    OBVIOUS
  <2>2. p # <<>> => p[1] \in DOMAIN log
    BY <2>1 DEF PageOK
  <2> QED
    BY <2>2, FeedIndexes
<1>4. p # <<>> => \A j \in 1 .. p[1] - 1 : Pos(j)' < at
  BY <1>3, GrownFeed DEF PageOK
<1>5. \A j \in 1 .. seen.called : j \in DOMAIN log
  <2>1. seen.called <= Len(log) /\ seen.called \in Nat
    BY DEF LogInv, TypeInv, SeenType
  <2> QED
    BY <2>1, FeedIndexes
<1>6. Len(p) < limit => \A j \in 1 .. seen.called : Pos(j)' < at \/ (p # <<>> /\ j <= p[Len(p)])
  BY <1>5, GrownFeed DEF PageOK
<1>7. Len(p) <= limit
  BY DEF PageOK
<1> QED
  BY <1>2, <1>4, <1>6, <1>7 DEF PageOK

LEMMA ReadKeeps ==
  ASSUME TypeInv, LogInv, log' \in Seq(EntryType), Grows, seen'.called = seen.called,
         program'.hand = program.hand, NEW s, NEW r \in ReadType, ReadOK(s, r)
  PROVE  ReadOK(s, r)'
<1>1. r.page \in Seq(Nat) /\ r.at \in Nat
  BY DEF ReadType
<1>2. PageOK(r.page, r.at, Limit(r.phase)) => PageOK(r.page, r.at, Limit(r.phase))'
  BY <1>1, PageKeeps DEF Limit
<1>3. Place(s)' = Place(s) /\ Asking(r)' = Asking(r)
  BY DEF Place, Asking
<1> QED
  BY <1>2, <1>3 DEF ReadOK
-----------------------------------------------------------------------------
(***************************************************************************)
(* The reading task moves.                                                 *)
(***************************************************************************)
LEMMA IdleType == Idle \in ReadType
<1>1. None \in Marks /\ <<>> \in Seq(Nat) /\ "poll" \in Phases
  BY DEF Marks, Phases
<1> QED
  BY <1>1 DEF Idle, ReadType

LEMMA LeaveIs ==
  ASSUME NEW s, NEW pc \in {"outside", "ended", "failed", "pausing"}, Leave(s, pc)
  PROVE  /\ stream' = s /\ UNCHANGED <<major, log, clock, generation>>
         /\ read' \in ReadType /\ read'.pc = pc /\ read'.mode = "read"
<1>1. stream' = s /\ UNCHANGED <<major, log, clock, generation>> /\ read' = [Idle EXCEPT !.pc = pc]
  BY DEF Leave, Wait
<1>2. Idle \in ReadType
  BY IdleType
<1>3. read' \in ReadType /\ read'.pc = pc
  BY <1>1, <1>2 DEF ReadType
<1>4. read'.mode = "read"
  BY <1>1 DEF Idle
<1> QED
  BY <1>1, <1>3, <1>4

LEMMA AttemptIs ==
  ASSUME NEW s \in StreamType, NEW r \in ReadType, Attempt(s, r)
  PROVE  /\ stream' = s /\ UNCHANGED <<major, log, clock, generation>>
         /\ read' \in ReadType
         /\ \/ read'.pc \in {"outside", "ended", "failed"}
            \/ /\ read'.pc = "opening" /\ ~read'.answered
               /\ read'.phase = r.phase /\ read'.at = r.at
               /\ read'.low = r.low /\ read'.high = r.high
<1>1. CASE Leave(s, IF r.mode = "start" THEN "outside" ELSE "ended")
  BY <1>1, LeaveIs
<1>2. CASE Leave(s, "failed")
  BY <1>2, LeaveIs
<1>3. CASE Wait(s, [r EXCEPT !.pc = "opening", !.attempt = @ + 1, !.client = None,
                             !.answered = FALSE, !.page = <<>>, !.now = 0])
  <2>1. r.attempt + 1 \in Nat /\ None \in Marks /\ <<>> \in Seq(Nat)
    BY DEF ReadType, Marks
  <2> QED
    BY <1>3, <2>1 DEF Wait, ReadType
<1> QED
  BY <1>1, <1>2, <1>3 DEF Attempt

(* The task waits elsewhere, nothing was handed out meanwhile.             *)
LEMMA Turn ==
  ASSUME FeedInv, UNCHANGED <<major, log, clock, program>>, generation' \in Nat,
         seen' \in SeenType, seen'.from = seen.from, seen'.last = seen.last,
         seen'.called <= Len(log), seen'.fixed <= Len(log),
         NEW s \in StreamType, stream' = s, StreamOK(s),
         s.started = stream.started, s.since = stream.since,
         NEW r \in ReadType, read' = r, ReadOK(s, r),
         seen'.called = seen.called \/ r.pc # "sent"
  PROVE  FeedInv'
<1>1. TypeInv /\ LogInv
  BY DEF FeedInv
<1>2. TypeInv' /\ log' \in Seq(EntryType)
  BY <1>1 DEF TypeInv
<1>3. Grows
  BY <1>1, NoGrowth
<1>4. LogInv'
  BY <1>1 DEF LogInv, Pos, Position
<1>5. StreamOK(stream)'
  BY <1>1, <1>2, <1>3, StreamKeeps
<1>6. ProgramOK'
  BY <1>2, <1>3, ProgramKeeps
<1>7. ReadOK(s, r)'
  <2>1. CASE seen'.called = seen.called
    BY <1>1, <1>2, <1>3, <2>1, ReadKeeps
  <2>2. CASE r.pc # "sent"
    BY <2>2 DEF ReadOK, Asking, Place
  <2> QED
    BY <2>1, <2>2
<1>8. ReadOK(stream, read)'
  BY <1>7
<1> QED
  BY <1>2, <1>4, <1>5, <1>6, <1>8 DEF FeedInv

(* The facts of a state the steps begin with.                              *)
LEMMA Facts ==
  ASSUME FeedInv
  PROVE  /\ TypeInv /\ LogInv /\ StreamOK(stream) /\ ReadOK(stream, read) /\ ProgramOK
         /\ stream \in StreamType /\ read \in ReadType /\ seen \in SeenType /\ program \in ProgramType
         /\ generation \in Nat /\ clock \in Nat /\ Len(log) \in Nat
         /\ seen.called <= Len(log) /\ seen.fixed <= Len(log)
         /\ program.hand => read.pc = "outside"
BY FeedIndexes DEF FeedInv, TypeInv, LogInv, ReadOK

LEMMA LeaveKeeps ==
  ASSUME FeedInv, UNCHANGED <<seen, program>>,
         NEW s \in StreamType, StreamOK(s), s.started = stream.started, s.since = stream.since,
         NEW pc \in {"outside", "ended", "failed", "pausing"}, Leave(s, pc),
         program.hand => pc = "outside", pc = "pausing" => s.started /\ s.pending = <<>>
  PROVE  FeedInv'
<1>1. /\ stream' = s /\ UNCHANGED <<major, log, clock, generation>>
      /\ read' \in ReadType /\ read'.pc = pc
  BY LeaveIs
<1>2. PICK r \in ReadType : read' = r /\ r.pc = pc
  BY <1>1
<1>3. ReadOK(s, r)
  BY <1>2 DEF ReadOK, Asking
<1> QED
  BY <1>1, <1>2, <1>3, Facts, Turn

LEMMA AttemptKeeps ==
  ASSUME FeedInv, UNCHANGED program, ~program.hand,
         seen' \in SeenType, seen'.from = seen.from, seen'.last = seen.last,
         seen'.called <= Len(log), seen'.fixed <= Len(log),
         NEW s \in StreamType, StreamOK(s), s.started = stream.started, s.since = stream.since,
         NEW r \in ReadType, Attempt(s, r), s.bound # None,
         r.phase = "poll" => s.started /\ s.pending = <<>> /\ r.at = Place(s),
         r.phase # "poll" => ~s.started,
         r.phase \notin {"version", "check", "poll"} => s.since.kind = "now"
  PROVE  FeedInv'
<1>1. /\ stream' = s /\ UNCHANGED <<major, log, clock, generation>>
      /\ read' \in ReadType
      /\ \/ read'.pc \in {"outside", "ended", "failed"}
         \/ read'.pc = "opening" /\ ~read'.answered /\ read'.phase = r.phase /\ read'.at = r.at
  BY AttemptIs
<1>2. PICK x \in ReadType : read' = x
  BY <1>1
<1>3. ReadOK(s, x) /\ x.pc # "sent"
  <2>1. CASE x.pc \in {"outside", "ended", "failed"}
    BY <2>1 DEF ReadOK, Asking
  <2>2. CASE x.pc = "opening" /\ ~x.answered /\ x.phase = r.phase /\ x.at = r.at
    BY <2>2 DEF ReadOK, Asking
  <2> QED
    BY <1>1, <1>2, <2>1, <2>2
<1> QED
  BY <1>1, <1>2, <1>3, Facts, Turn
-----------------------------------------------------------------------------
(***************************************************************************)
(* An event is handed out.                                                 *)
(***************************************************************************)
(* The stream once its first event l has been handed out.                  *)
LEMMA NextHanded ==
  ASSUME TypeInv, LogInv, NEW s \in StreamType, StreamOK(s), s.started, s.pending # <<>>
  PROVE  LET l == Event(Head(s.pending)) IN
         /\ EventOK(l) /\ AfterOK(Head(s.pending)) /\ Follows(seen.last, l)
         /\ l[1] \in Nat /\ l[2] \in Nat /\ l = <<l[1], l[2]>> /\ l[1] >= 1
         /\ Head(s.pending) \in EventType /\ s.pending[1] = Head(s.pending)
         /\ \A i \in DOMAIN log : i < l[1] /\ Carries(i) => i <= seen.last[1]
         /\ \/ l = <<seen.last[1], seen.last[2] + 1>>
            \/ l[2] = 1 /\ l[1] > seen.last[1] /\ Whole(seen.last)
<1> DEFINE e == Head(s.pending)
           l == Event(e)
           o == seen.last
<1>1. /\ s.pending \in Seq(EventType) /\ 1 \in 1 .. Len(s.pending)
      /\ e = s.pending[1] /\ e \in EventType
  BY DEF StreamType
<1>2. EventOK(l) /\ AfterOK(e) /\ Follows(o, l)
  BY <1>1 DEF StreamOK, PendingOK
<1>3. /\ o[1] \in Nat /\ o[2] \in Nat /\ seen.from \in Nat /\ (o = <<0, 0>> \/ EventOK(o))
  BY StreamTypes DEF StreamOK, Marks
<1>4. /\ l = <<l[1], l[2]>> /\ l[1] = e.entry /\ l[1] \in Nat /\ l[2] \in Nat
  BY <1>1 DEF Event, EventType
<1> HIDE DEF e, l, o
<1>5. l[1] \in DOMAIN log /\ l[1] >= 1
  BY <1>2, FeedIndexes DEF EventOK
<1>6. \A j \in DOMAIN log : j \in Nat /\ Pos(j) \in Nat /\ log[j].changes \in Nat
  BY PosType DEF EntryType
<1>7. CASE o[1] # 0 /\ o[2] < log[o[1]].changes
  <2>1. l = <<o[1], o[2] + 1>> /\ l[1] = o[1]
    BY <1>2, <1>7 DEF Follows
  <2> QED
    BY <1>1, <1>2, <1>3, <1>4, <1>5, <1>6, <2>1 DEF e, l, o
<1>8. CASE ~(o[1] # 0 /\ o[2] < log[o[1]].changes)
  <2>1. /\ l[2] = 1 /\ l[1] > o[1]
        /\ \A j \in o[1] + 1 .. l[1] - 1 : log[j].changes = 0 \/ Position(log[j]) < seen.from
    BY <1>2, <1>8 DEF Follows
  <2>2. Whole(o)
    <3>1. CASE o[1] = 0
      BY <3>1 DEF Whole
    <3>2. CASE o[1] # 0
      <4>1. EventOK(o)
        BY <1>3, <3>2
      <4>2. o[2] <= log[o[1]].changes /\ o[1] \in DOMAIN log
        BY <1>6, <4>1 DEF EventOK
      <4> QED
        BY <1>3, <1>6, <1>8, <3>2, <4>2 DEF Whole
    <3> QED
      BY <3>1, <3>2
  <2>3. ASSUME NEW i \in DOMAIN log, i < l[1], Carries(i) PROVE i <= o[1]
    <3>1. log[i].changes > 0 /\ seen.from <= Position(log[i]) /\ Position(log[i]) \in Nat
      BY <1>6, <2>3 DEF Carries, Pos
    <3>2. i \in o[1] + 1 .. l[1] - 1 => FALSE
      BY <1>3, <1>6, <2>1, <3>1
    <3> QED
      BY <1>3, <1>4, <1>6, <2>3, <3>2
  <2> QED
    BY <1>1, <1>2, <1>4, <1>5, <2>1, <2>2, <2>3 DEF e, l, o
<1> QED
  BY <1>7, <1>8

(* Where the cursor is once it has been.                                   *)
LEMMA AdoptSplits ==
  ASSUME TypeInv, LogInv, NEW s \in StreamType, StreamOK(s), s.started, s.pending # <<>>
  PROVE  LET e == Head(s.pending)
             c == Adopt(s.cursor, e.after)
             x == IF c # None THEN c ELSE 0 IN
         /\ c \in Marks /\ x \in Nat
         /\ seen.from <= x /\ (x = seen.from \/ Later(x))
         /\ Splits(x, Event(e))
<1> DEFINE e == Head(s.pending)
           l == Event(e)
           o == seen.last
           c == Adopt(s.cursor, e.after)
           x == IF c # None THEN c ELSE 0
<1>1. /\ EventOK(l) /\ AfterOK(e) /\ Follows(o, l)
      /\ l[1] \in Nat /\ l[2] \in Nat /\ l = <<l[1], l[2]>> /\ l[1] >= 1 /\ e \in EventType
      /\ \A i \in DOMAIN log : i < l[1] /\ Carries(i) => i <= o[1]
      /\ \/ l = <<o[1], o[2] + 1>>
         \/ l[2] = 1 /\ l[1] > o[1] /\ Whole(o)
  BY NextHanded
<1>2. /\ o[1] \in Nat /\ o[2] \in Nat /\ o = <<o[1], o[2]>> /\ seen.from \in Nat
      /\ (o = <<0, 0>> \/ EventOK(o)) /\ s.cursor \in Marks /\ Place(s) \in Nat
      /\ seen.from <= Place(s) /\ (Place(s) = seen.from \/ Later(Place(s)))
      /\ Splits(Place(s), o)
  BY StreamTypes DEF StreamOK, Marks
<1>3. \A j \in DOMAIN log : j \in Nat /\ j >= 1 /\ Pos(j) \in Nat /\ log[j].changes \in Nat
  BY PosType, FeedIndexes DEF EntryType
<1>4. e.after \in Marks /\ l[1] = e.entry
  BY <1>1 DEF EventType, Event
<1> HIDE DEF e, l, o
<1>5. CASE e.after = None
  <2>1. c = s.cursor /\ x = Place(s)
    BY <1>5 DEF Adopt, Place
  <2>2. ~Whole(l)
    BY <1>5, <1>1 DEF AfterOK, l
  <2> HIDE DEF x, c
  <2>3. Splits(x, l)
    <3> SUFFICES ASSUME NEW i \in DOMAIN log, Carries(i)
                 PROVE  Pos(i) < x <=> i < l[1] \/ l = <<i, log[i].changes>>
      BY DEF Splits
    <3>1. Pos(i) < x <=> i < o[1] \/ o = <<i, log[i].changes>>
      BY <1>2, <2>1 DEF Splits
    <3>2. l # <<i, log[i].changes>>
      BY <1>1, <2>2 DEF Whole
    <3>3. CASE l = <<o[1], o[2] + 1>>
      <4>1. l[1] = o[1] /\ l[2] = o[2] + 1
        BY <3>3
      <4>2. o # <<i, log[i].changes>>
        <5>1. l[2] <= log[l[1]].changes
          BY <1>1, <1>3 DEF EventOK
        <5> QED
          BY <1>1, <1>2, <1>3, <4>1, <5>1
      <4> QED
        BY <3>1, <3>2, <4>1, <4>2
    <3>4. CASE l[2] = 1 /\ l[1] > o[1] /\ Whole(o)
      <4>1. ASSUME i < l[1] PROVE i < o[1] \/ o = <<i, log[i].changes>>
        <5>1. i <= o[1]
          BY <1>1, <4>1
        <5>2. i = o[1] => o[2] = log[i].changes
          BY <1>3, <3>4 DEF Whole
        <5> QED
          BY <1>2, <1>3, <5>1, <5>2
      <4>2. ASSUME i < o[1] \/ o = <<i, log[i].changes>> PROVE i < l[1]
        <5>1. i <= o[1]
          BY <1>2, <1>3, <4>2
        <5> QED
          BY <1>1, <1>2, <1>3, <3>4, <5>1
      <4> QED
        BY <3>1, <3>2, <4>1, <4>2
    <3> QED
      BY <1>1, <3>3, <3>4
  <2> QED
    BY <1>2, <2>1, <2>3 DEF e, l, o, x, c
<1>6. CASE e.after # None
  <2>1. /\ Whole(l) /\ Pos(e.entry) < e.after /\ Later(e.after)
        /\ \A i \in DOMAIN log : i > e.entry /\ log[i].changes > 0 => e.after <= Pos(i)
    BY <1>1, <1>6 DEF AfterOK, l
  <2>2. c = e.after /\ x = e.after /\ x \in Nat /\ c \in Marks
    BY <1>4, <1>6 DEF Adopt, Marks
  <2> HIDE DEF x, c
  <2>3. l[1] \in DOMAIN log /\ seen.from <= Pos(l[1]) /\ l[1] # 0
    BY <1>1, <1>3 DEF EventOK
  <2>4. seen.from <= x
    BY <1>2, <1>3, <1>4, <2>1, <2>2, <2>3
  <2>5. Splits(x, l)
    <3> SUFFICES ASSUME NEW i \in DOMAIN log, Carries(i)
                 PROVE  Pos(i) < x <=> i < l[1] \/ l = <<i, log[i].changes>>
      BY DEF Splits
    <3>1. CASE i < l[1]
      BY <1>3, <1>4, <2>1, <2>2, <2>3, <3>1, PosGrows
    <3>2. CASE i = l[1]
      BY <1>1, <1>4, <2>1, <2>2, <2>3, <3>2 DEF Whole
    <3>3. CASE i > l[1]
      <4>1. log[i].changes > 0
        BY DEF Carries
      <4>2. x <= Pos(i)
        BY <1>4, <2>1, <2>2, <3>3, <4>1
      <4> QED
        BY <1>1, <1>3, <2>2, <3>3, <4>2
    <3> QED
      BY <1>1, <1>3, <3>1, <3>2, <3>3
  <2> QED
    BY <2>1, <2>2, <2>4, <2>5 DEF e, l, o, x, c
<1> QED
  BY <1>5, <1>6

(* What waits behind it.                                                   *)
LEMMA TailOK ==
  ASSUME TypeInv, LogInv, NEW s \in StreamType, StreamOK(s), s.started, s.pending # <<>>
  PROVE  /\ Tail(s.pending) \in Seq(EventType)
         /\ PendingOK(Tail(s.pending), Event(Head(s.pending)))
<1> DEFINE P == s.pending
           Q == Tail(P)
           n == Len(P)
<1>1. /\ P \in Seq(EventType) /\ n \in Nat /\ n >= 1 /\ Head(P) = P[1]
      /\ Q \in Seq(EventType) /\ Len(Q) = n - 1
      /\ \A m \in 1 .. n - 1 : Q[m] = P[m + 1]
  <2>1. P \in Seq(EventType) /\ P # <<>>
    BY DEF StreamType
  <2> HIDE DEF P
  <2> QED
    BY <2>1, HeadTailProperties
<1>2. PendingOK(P, seen.last)
  BY DEF StreamOK
<1> HIDE DEF P, Q, n
<1>3. n = Len(P) /\ P # <<>>
  BY DEF n, P
<1>4. \A m \in 1 .. n : EventOK(Event(P[m])) /\ AfterOK(P[m])
  BY <1>2, <1>3 DEF PendingOK
<1>5. \A m \in 1 .. n - 1 : Follows(Event(P[m]), Event(P[m + 1]))
  BY <1>2, <1>3 DEF PendingOK
<1>6. Whole(Event(P[n]))
  BY <1>2, <1>3 DEF PendingOK
<1>7. \A m \in 1 .. Len(Q) : EventOK(Event(Q[m])) /\ AfterOK(Q[m])
  BY <1>1, <1>4
<1>8. \A m \in 1 .. Len(Q) - 1 : Follows(Event(Q[m]), Event(Q[m + 1]))
  <2> TAKE m \in 1 .. Len(Q) - 1
  <2>1. m \in 1 .. n - 1 /\ m + 1 \in 1 .. n - 1 /\ m + 1 + 1 = m + 2
    BY <1>1
  <2>2. Q[m] = P[m + 1] /\ Q[m + 1] = P[m + 1 + 1]
    BY <1>1, <2>1
  <2> QED
    BY <1>5, <2>1, <2>2
<1>9. ASSUME Q # <<>> PROVE Follows(Event(Head(P)), Event(Q[1])) /\ Whole(Event(Q[Len(Q)]))
  <2>1. n - 1 >= 1 /\ Len(Q) = n - 1 /\ 1 \in 1 .. n - 1 /\ n - 1 \in 1 .. n - 1 /\ n - 1 + 1 = n /\ 1 + 1 = 2
    BY <1>1, <1>9
  <2>2. Q[1] = P[1 + 1] /\ Q[n - 1] = P[n - 1 + 1]
    BY <1>1, <2>1
  <2> QED
    BY <1>1, <1>5, <1>6, <2>1, <2>2
<1>10. ASSUME Q = <<>> PROVE Whole(Event(Head(P)))
  <2>1. n = 1
    BY <1>1, <1>10
  <2> QED
    BY <1>1, <1>6, <2>1
<1> QED
  BY <1>1, <1>7, <1>8, <1>9, <1>10 DEF PendingOK, P, Q

LEMMA SameFeed ==
  ASSUME UNCHANGED <<major, log, clock>>, seen'.from = seen.from
  PROVE  /\ \A i : Pos(i)' = Pos(i)
         /\ \A p : Later(p)' <=> Later(p)
         /\ \A p, l : Splits(p, l)' <=> Splits(p, l)
         /\ \A l : EventOK(l)' <=> EventOK(l)
         /\ \A P, l : PendingOK(P, l)' <=> PendingOK(P, l)
<1>1. \A i : Pos(i)' = Pos(i)
  BY DEF Pos, Position
<1>2. \A p : Later(p)' <=> Later(p)
  BY <1>1 DEF Later
<1>3. \A i : Carries(i)' <=> Carries(i)
  BY <1>1 DEF Carries
<1>4. \A p, l : Splits(p, l)' <=> Splits(p, l)
  BY <1>1, <1>3 DEF Splits
<1>5. \A l : (EventOK(l)' <=> EventOK(l)) /\ (Whole(l)' <=> Whole(l))
  BY <1>1 DEF EventOK, Whole
<1>6. \A e : AfterOK(e)' <=> AfterOK(e)
  BY <1>1, <1>2, <1>5 DEF AfterOK, Event
<1>7. \A e, f : Follows(e, f)' <=> Follows(e, f)
  BY DEF Follows, Position
<1>8. ASSUME NEW P, NEW l PROVE PendingOK(P, l)' <=> PendingOK(P, l)
  BY <1>5, <1>6, <1>7 DEF PendingOK, Event
<1> QED
  BY <1>1, <1>2, <1>4, <1>5, <1>8

LEMMA YieldKeeps ==
  ASSUME FeedInv, ~program.hand,
         NEW s \in StreamType, StreamOK(s), s.started = stream.started, s.since = stream.since,
         s.pending # <<>>, Yield(s)
  PROVE  FeedInv'
<1> DEFINE e == Head(s.pending)
           l == Event(e)
           c == Adopt(s.cursor, e.after)
           x == IF c # None THEN c ELSE 0
           t == [s EXCEPT !.pending = Tail(@), !.cursor = c]
<1>1. s.started /\ s.bound # None /\ seen.from # None
  BY DEF StreamOK
<1>2. /\ Leave(t, "outside")
      /\ seen' = [seen EXCEPT !.last = l]
      /\ program' = [program EXCEPT !.hand = TRUE]
  BY DEF Yield, Event
<1>3. /\ stream' = t /\ UNCHANGED <<major, log, clock, generation>>
      /\ read' \in ReadType /\ read'.pc = "outside"
  BY <1>2, LeaveIs
<1>4. /\ EventOK(l) /\ Follows(seen.last, l)
      /\ l[1] \in Nat /\ l[2] \in Nat /\ l = <<l[1], l[2]>> /\ l[1] >= 1
      /\ \A i \in DOMAIN log : i < l[1] /\ Carries(i) => i <= seen.last[1]
      /\ \/ l = <<seen.last[1], seen.last[2] + 1>>
         \/ l[2] = 1 /\ l[1] > seen.last[1] /\ Whole(seen.last)
  BY <1>1, Facts, NextHanded
<1>5. /\ c \in Marks /\ x \in Nat
      /\ seen.from <= x /\ (x = seen.from \/ Later(x))
      /\ Splits(x, l)
  BY <1>1, Facts, AdoptSplits
<1>6. /\ Tail(s.pending) \in Seq(EventType)
      /\ PendingOK(Tail(s.pending), l)
  BY <1>1, Facts, TailOK
<1> HIDE DEF e, l, c, x
<1>7. /\ t \in StreamType /\ t.started /\ t.bound # None /\ t.since = s.since
      /\ t.pending = Tail(s.pending) /\ t.cursor = c
  BY <1>1, <1>5, <1>6 DEF StreamType
<1> HIDE DEF t
<1>8. /\ seen' \in SeenType /\ seen'.from = seen.from /\ seen'.last = l
      /\ seen'.called = seen.called /\ seen'.fixed = seen.fixed
  <2>1. seen \in SeenType /\ l \in Nat \X Nat
    BY <1>4, Facts
  <2> QED
    BY <1>2, <2>1 DEF SeenType
<1>9. /\ program' \in ProgramType /\ program'.hand /\ program'.saved = program.saved
      /\ program'.origin = program.origin /\ program'.processed = program.processed
  <2>1. program \in ProgramType
    BY Facts
  <2> QED
    BY <1>2, <2>1 DEF ProgramType
<1>10. TypeInv' /\ LogInv'
  <2>1. TypeInv /\ LogInv
    BY Facts
  <2>2. TypeInv'
    BY <1>3, <1>7, <1>8, <1>9, <2>1 DEF TypeInv
  <2> QED
    BY <1>3, <1>8, <2>1, <2>2 DEF LogInv, Pos, Position
<1>11. StreamOK(stream)'
  <2>1. Place(t) = x
    BY <1>7 DEF Place, x
  <2>2. EventOK(l)' /\ Splits(x, l)' /\ PendingOK(Tail(s.pending), l)' /\ (x = seen.from \/ Later(x)')
    BY <1>3, <1>4, <1>5, <1>6, <1>8, SameFeed
  <2>3. StreamOK(t)'
    <3>1. Place(t)' = x
      BY <2>1 DEF Place
    <3> QED
      BY <1>1, <1>5, <1>7, <1>8, <2>2, <3>1 DEF StreamOK
  <2> QED
    BY <1>3, <2>3
<1>12. ReadOK(stream, read)'
  BY <1>3 DEF ReadOK, Asking
<1>13. ProgramOK'
  <2>1. ProgramOK /\ stream.started /\ stream'.started
    BY <1>1, <1>3, <1>7, Facts
  <2>2. \A p, q : (Settles(p)' <=> Settles(p)) /\ (Done(p, q)' <=> Done(p, q))
    BY <1>3, <1>8, <1>9, SameFeed DEF Settles, Done, Changes
  <2>3. ASSUME NEW i \in DOMAIN log, NEW k \in 1 .. log[i].changes, seen.from <= Pos(i),
               i < l[1] \/ (i = l[1] /\ k <= l[2]), <<i, k>> # l
        PROVE  Handed(i, k)
    <3>0. /\ i \in Nat /\ log[i].changes \in Nat /\ i \in DOMAIN log
          /\ seen.last[1] \in Nat /\ seen.last[2] \in Nat
      BY PosType, Facts, StreamTypes DEF EntryType
    <3>1. Carries(i)
      BY <2>3, <3>0 DEF Carries
    <3>2. CASE l = <<seen.last[1], seen.last[2] + 1>>
      <4>1. l[1] = seen.last[1] /\ l[2] = seen.last[2] + 1
        BY <3>2
      <4>2. i = l[1] => k # l[2]
        BY <1>4, <2>3
      <4> QED
        BY <2>3, <3>0, <4>1, <4>2 DEF Handed
    <3>3. CASE l[2] = 1 /\ l[1] > seen.last[1] /\ Whole(seen.last)
      <4>1. i < l[1]
        BY <1>4, <2>3, <3>0, <3>3
      <4>2. i <= seen.last[1]
        BY <1>4, <3>1, <4>1
      <4>3. i = seen.last[1] => seen.last[2] = log[i].changes
        <5>1. i # 0
          BY <2>3, Facts, FeedIndexes
        <5> QED
          BY <2>3, <3>3, <5>1 DEF Whole
      <4> QED
        BY <3>0, <4>2, <4>3 DEF Handed
    <3> QED
      BY <1>4, <3>2, <3>3
  <2>4. ASSUME NEW i \in DOMAIN log, NEW k \in 1 .. log[i].changes, seen.from <= Pos(i), Handed(i, k)'
        PROVE  <<i, k>> \in program.processed \/ <<i, k>> = l
    <3>1. i < l[1] \/ (i = l[1] /\ k <= l[2])
      BY <1>8, <2>4 DEF Handed
    <3>2. <<i, k>> # l => Handed(i, k)
      BY <2>3, <2>4, <3>1
    <3> QED
      BY <2>1, <2>4, <3>2 DEF ProgramOK
  <2>5. \A i : Pos(i)' = Pos(i)
    BY <1>3, <1>8, SameFeed
  <2> QED
    BY <1>3, <1>8, <1>9, <2>1, <2>2, <2>4, <2>5 DEF ProgramOK
<1> QED
  BY <1>10, <1>11, <1>12, <1>13 DEF FeedInv

-----------------------------------------------------------------------------
(***************************************************************************)
(* The top of the loop of __anext__(), wherever the task comes from.       *)
(***************************************************************************)
LEMMA BeginStartKeeps ==
  ASSUME FeedInv, ~program.hand,
         NEW s \in StreamType, StreamOK(s), s.started = stream.started, s.since = stream.since,
         ~s.started, NEW mode \in {"read", "start"}, BeginStart(s, mode)
  PROVE  FeedInv'
<1> DEFINE b == [s EXCEPT !.bound = IF @ = None THEN generation ELSE @]
           r == [Idle EXCEPT !.mode = mode]
           q == [r EXCEPT !.phase = "version", !.at = 0, !.attempt = 0]
<1>1. Attempt(b, q) /\ seen' = [seen EXCEPT !.called = Len(log)] /\ program' = program
  BY DEF BeginStart, Ask
<1>2. q \in ReadType /\ q.phase = "version"
  <2>1. Idle \in ReadType
    BY IdleType
  <2>2. r \in ReadType
    BY <2>1 DEF ReadType
  <2> HIDE DEF r
  <2> QED
    BY <2>2 DEF ReadType, Phases
<1>3. /\ b \in StreamType /\ b.bound # None /\ b.started = s.started /\ b.since = s.since
      /\ b.pending = s.pending /\ b.cursor = s.cursor
  BY Facts DEF StreamType, Marks, None
<1> HIDE DEF b, q
<1>4. StreamOK(b)
  BY <1>3 DEF StreamOK
<1>5. /\ seen' \in SeenType /\ seen'.from = seen.from /\ seen'.last = seen.last
      /\ seen'.called <= Len(log) /\ seen'.fixed <= Len(log)
  <2>1. seen \in SeenType /\ Len(log) \in Nat /\ seen.fixed <= Len(log)
    BY Facts
  <2> QED
    BY <1>1, <2>1 DEF SeenType
<1> QED
  BY <1>1, <1>2, <1>3, <1>4, <1>5, AttemptKeeps

LEMMA PollAttempts ==
  ASSUME NEW s \in StreamType, Poll(s)
  PROVE  \E r \in ReadType : Attempt(s, r) /\ r.phase = "poll" /\ r.at = Place(s)
<1> DEFINE r == [Idle EXCEPT !.mode = "read"]
           q == [r EXCEPT !.phase = "poll", !.at = Place(s), !.attempt = 0]
<1>1. Attempt(s, q)
  BY DEF Poll, Ask, Place
<1>2. Place(s) \in Nat
  BY DEF Place, StreamType, Marks
<1>3. q \in ReadType /\ q.phase = "poll" /\ q.at = Place(s)
  <2>1. Idle \in ReadType
    BY IdleType
  <2>2. r \in ReadType
    BY <2>1 DEF ReadType
  <2> HIDE DEF r
  <2> QED
    BY <1>2, <2>2 DEF ReadType, Phases
<1> QED
  BY <1>1, <1>3

LEMMA LoopKeeps ==
  ASSUME FeedInv, ~program.hand,
         NEW s \in StreamType, StreamOK(s), s.started = stream.started, s.since = stream.since,
         Loop(s)
  PROVE  FeedInv'
<1>1. CASE Leave(s, "ended") /\ UNCHANGED <<seen, program>>
  BY <1>1, LeaveKeeps
<1>2. CASE Leave(s, "failed") /\ UNCHANGED <<seen, program>>
  BY <1>2, LeaveKeeps
<1>3. CASE s.pending # <<>> /\ Yield(s)
  BY <1>3, YieldKeeps
<1>4. CASE ~s.started /\ BeginStart(s, "read")
  BY <1>4, BeginStartKeeps
<1>5. CASE s.pending = <<>> /\ s.started /\ Poll(s) /\ UNCHANGED <<seen, program>>
  <2>1. PICK r \in ReadType : Attempt(s, r) /\ r.phase = "poll" /\ r.at = Place(s)
    BY <1>5, PollAttempts
  <2>2. s.bound # None
    BY <1>5 DEF StreamOK
  <2>3. /\ seen' \in SeenType /\ seen'.from = seen.from /\ seen'.last = seen.last
        /\ seen'.called <= Len(log) /\ seen'.fixed <= Len(log) /\ UNCHANGED program
    BY <1>5, Facts
  <2>4. r.phase \in {"version", "check", "poll"}
    BY <2>1
  <2> QED
    BY <1>5, <2>1, <2>2, <2>3, <2>4, AttemptKeeps
<1> QED
  BY <1>1, <1>2, <1>3, <1>4, <1>5 DEF Loop
-----------------------------------------------------------------------------
(***************************************************************************)
(* The stream begins.                                                      *)
(***************************************************************************)
LEMMA BeginKeeps ==
  ASSUME FeedInv, read.pc = "sent", read.phase # "poll",
         NEW cursor \in Marks, Begin(cursor),
         program.saved # None => cursor = program.saved
  PROVE  FeedInv'
<1> DEFINE s == [stream EXCEPT !.started = TRUE, !.cursor = cursor]
           p == IF cursor = None THEN 0 ELSE cursor
<1>1. /\ IF read.mode = "start" THEN Leave(s, "outside") ELSE Poll(s)
      /\ seen' = [seen EXCEPT !.from = p, !.fixed = Len(log)]
      /\ program' = IF program.saved = None THEN [program EXCEPT !.origin = p] ELSE program
  BY DEF Begin
<1>2. /\ ~program.hand /\ ~stream.started /\ stream.bound # None
      /\ stream.pending = <<>> /\ seen.last = <<0, 0>>
  BY Facts DEF ReadOK, Asking, StreamOK
<1>3. p \in Nat /\ p # None
  BY DEF Marks, None
<1>4. /\ s \in StreamType /\ s.started /\ s.bound # None /\ s.pending = <<>>
      /\ s.cursor = cursor /\ s.since = stream.since
  BY <1>2, Facts DEF StreamType
<1>5. Place(s) = p
  BY <1>4 DEF Place
<1> HIDE DEF s, p
<1>6. /\ stream' = s /\ UNCHANGED <<major, log, clock, generation>> /\ read' \in ReadType
      /\ \/ read'.pc \in {"outside", "ended", "failed"}
         \/ read'.pc = "opening" /\ ~read'.answered /\ read'.phase = "poll" /\ read'.at = p
  <2>1. CASE Leave(s, "outside")
    BY <2>1, LeaveIs
  <2>2. CASE Poll(s)
    <3>1. PICK r \in ReadType : Attempt(s, r) /\ r.phase = "poll" /\ r.at = Place(s)
      BY <1>4, <2>2, PollAttempts
    <3> QED
      BY <1>4, <1>5, <3>1, AttemptIs
  <2> QED
    BY <1>1, <2>1, <2>2
<1>7. /\ seen' \in SeenType /\ seen'.from = p /\ seen'.last = <<0, 0>>
      /\ seen'.called = seen.called /\ seen'.fixed = Len(log)
  <2>1. seen \in SeenType /\ Len(log) \in Nat
    BY Facts
  <2> QED
    BY <1>1, <1>2, <1>3, <2>1 DEF SeenType, Marks
<1>8. /\ program' \in ProgramType /\ program'.hand = program.hand /\ program'.saved = program.saved
      /\ program'.processed = program.processed
      /\ program'.origin = IF program.saved = None THEN p ELSE program.origin
  <2>1. program \in ProgramType
    BY Facts
  <2> QED
    BY <1>1, <1>3, <2>1 DEF ProgramType, Marks
<1>9. TypeInv' /\ LogInv'
  <2>1. TypeInv /\ LogInv /\ Len(log) \in Nat
    BY Facts
  <2>2. TypeInv'
    BY <1>4, <1>6, <1>7, <1>8, <2>1 DEF TypeInv
  <2> QED
    BY <1>6, <1>7, <2>1, <2>2 DEF LogInv, Pos, Position
<1>10. StreamOK(stream)'
  <2>1. Place(stream)' = p
    BY <1>5, <1>6 DEF Place
  <2>2. Splits(p, <<0, 0>>)'
    <3> SUFFICES ASSUME NEW i \in DOMAIN log, Carries(i)'
                 PROVE  Pos(i)' < p <=> i < 0 \/ <<0, 0>> = <<i, log[i].changes>>
      BY <1>6 DEF Splits
    <3>1. i \in Nat /\ i >= 1 /\ Pos(i) \in Nat
      BY Facts, PosType, FeedIndexes
    <3>2. Pos(i)' = Pos(i)
      BY <1>6 DEF Pos, Position
    <3>3. p <= Pos(i)
      BY <1>7, <3>2 DEF Carries
    <3> QED
      BY <1>3, <3>1, <3>2, <3>3
  <2>3. PendingOK(<<>>, <<0, 0>>)'
    BY DEF PendingOK, Whole
  <2> QED
    BY <1>3, <1>4, <1>6, <1>7, <2>1, <2>2, <2>3 DEF StreamOK
<1>11. ReadOK(stream, read)'
  <2>1. Place(stream)' = p
    BY <1>5, <1>6 DEF Place
  <2> QED
    BY <1>2, <1>4, <1>6, <1>8, <2>1 DEF ReadOK, Asking
<1>12. ProgramOK'
  <2>1. \A i \in DOMAIN log : Pos(i)' = Pos(i) /\ Pos(i) \in Nat /\ i \in Nat /\ i >= 1
    BY <1>6, Facts, PosType, FeedIndexes DEF Pos, Position
  <2>2. \A i \in DOMAIN log : \A k : ~Handed(i, k)'
    BY <1>7, <2>1 DEF Handed, SeenType
  <2>3. CASE program.saved = None
    <3>1. Settles(p)'
      BY <1>3, <1>8, <2>3 DEF Settles
    <3>2. Done(p, p)'
      BY <1>3, <1>6, <2>1 DEF Done
    <3> QED
      BY <1>3, <1>4, <1>6, <1>7, <1>8, <2>2, <2>3, <3>1, <3>2 DEF ProgramOK
  <2>4. CASE program.saved # None
    <3>1. program.origin # None /\ Settles(program.saved) /\ Done(program.origin, program.saved)
      BY <2>4, Facts DEF ProgramOK
    <3>2. p = program.saved /\ program'.origin = program.origin
      BY <1>8, <2>4 DEF p
    <3>3. Later(p)' <=> Later(p)
      BY <1>6 DEF Later, Pos, Position
    <3>4. Settles(p)' /\ Done(program.origin, p)'
      BY <1>6, <1>8, <2>1, <3>1, <3>2, <3>3 DEF Settles, Done, Changes
    <3> QED
      BY <1>4, <1>6, <1>7, <1>8, <2>2, <3>1, <3>2, <3>4 DEF ProgramOK
  <2> QED
    BY <2>3, <2>4
<1> QED
  BY <1>9, <1>10, <1>11, <1>12 DEF FeedInv

LEMMA ThenKeeps ==
  ASSUME FeedInv, read.pc = "sent", read.phase # "poll",
         NEW phase \in Phases, NEW at \in Nat, NEW low \in Nat, NEW high \in Nat,
         Then(phase, at, low, high), phase # "poll",
         phase \notin {"version", "check"} => stream.since.kind = "now"
  PROVE  FeedInv'
<1> DEFINE r == [read EXCEPT !.low = low, !.high = high]
           q == [r EXCEPT !.phase = phase, !.at = at, !.attempt = 0]
<1>1. Attempt(stream, q) /\ UNCHANGED <<seen, program>>
  BY DEF Then, Ask
<1>2. q \in ReadType /\ q.phase = phase
  <2>1. r \in ReadType
    BY Facts DEF ReadType
  <2> HIDE DEF r
  <2> QED
    BY <2>1 DEF ReadType
<1> HIDE DEF q
<1>3. ~program.hand /\ ~stream.started /\ stream.bound # None
  BY Facts DEF ReadOK, Asking
<1>4. /\ stream \in StreamType /\ StreamOK(stream)
      /\ seen' \in SeenType /\ seen'.from = seen.from /\ seen'.last = seen.last
      /\ seen'.called <= Len(log) /\ seen'.fixed <= Len(log) /\ UNCHANGED program
  BY <1>1, Facts
<1> QED
  BY <1>1, <1>2, <1>3, <1>4, AttemptKeeps

(* What the answers of the search are.                                     *)
LEMMA InsideIs ==
  ASSUME FeedInv, Received("scan"), Inside # {}
  PROVE  /\ Newest(Inside) \in Inside /\ \A q \in Inside : q <= Newest(Inside)
         /\ \A p \in Inside : /\ p \in Nat /\ p < read.high
                              /\ \E i \in DOMAIN log : log[i].stamp = p
<1>1. PageOK(read.page, read.at, BatchSize) /\ read.high \in Nat /\ read.page \in Seq(Nat)
  BY Facts DEF Received, ReadOK, Limit, ReadType
<1>2. ASSUME NEW p \in Inside
      PROVE  p \in Nat /\ p < read.high /\ \E i \in DOMAIN log : log[i].stamp = p
  <2>1. PICK k \in DOMAIN read.page : p = log[read.page[k]].stamp
    BY DEF Inside, Stamps
  <2>2. read.page[k] \in DOMAIN log
    <3>1. k \in 1 .. Len(read.page)
      BY <1>1
    <3> QED
      BY <1>1, <3>1 DEF PageOK
  <2>3. p \in Nat
    BY <2>1, <2>2, Facts, PosType DEF EntryType
  <2> QED
    BY <2>1, <2>2, <2>3 DEF Inside
<1> DEFINE S == Inside
<1> HIDE DEF S
<1>3. S \in SUBSET Nat /\ S # {} /\ \A y \in S : y <= read.high
  BY <1>1, <1>2 DEF S
<1>4. \E x \in S : \A y \in S : y <= x
  BY <1>1, <1>3, NatMaximum
<1>5. Newest(S) \in S /\ \A q \in S : q <= Newest(S)
  BY <1>4 DEF Newest
<1> QED
  BY <1>2, <1>5 DEF S

LEMMA PastType ==
  ASSUME FeedInv, Received("scan")
  PROVE  Past \in Nat
<1>1. read.at \in Nat
  BY Facts DEF ReadType
<1>2. ASSUME Inside # {} PROVE NextCursor(Newest(Inside)) \in Nat
  <2>1. Newest(Inside) \in Nat
    BY <1>2, InsideIs
  <2>2. Newest(Inside) \div Unit \in Nat
    BY <2>1, DivIsNat
  <2> QED
    BY <2>1, <2>2 DEF NextCursor
<1> QED
  BY <1>1, <1>2 DEF Past
-----------------------------------------------------------------------------
(***************************************************************************)
(* The steps of the reading task.                                          *)
(***************************************************************************)
LEMMA AttemptingKeeps ==
  ASSUME FeedInv, Opened \/ Drop \/ Backoff \/ Raise
  PROVE  FeedInv'
<1>0. /\ stream \in StreamType /\ StreamOK(stream) /\ read \in ReadType /\ ReadOK(stream, read)
      /\ generation \in Nat
      /\ seen \in SeenType /\ seen.called <= Len(log) /\ seen.fixed <= Len(log)
  BY Facts
<1>1. CASE Opened
  <2>0. read.pc = "opening" /\ UNCHANGED <<seen, program>> /\ ~read.answered /\ ~program.hand
        /\ stream.bound # None
    BY <1>0, <1>1 DEF Opened, ReadOK, Asking
  <2>1. CASE Leave(stream, "failed")
    BY <1>0, <2>0, <2>1, LeaveKeeps
  <2>2. CASE Ready(stream) /\ Wait(stream, [read EXCEPT !.pc = "sent", !.client = generation])
    <3> DEFINE r == [read EXCEPT !.pc = "sent", !.client = generation]
    <3>1. /\ stream' = stream /\ read' = r /\ UNCHANGED <<major, log, clock, generation>>
      BY <2>2 DEF Wait
    <3>2. generation = stream.bound
      BY <2>0, <2>2 DEF Ready, Changed
    <3>3. /\ r \in ReadType /\ r.pc = "sent" /\ r.client = generation /\ ~r.answered
          /\ r.phase = read.phase /\ r.at = read.at
      BY <1>0, <2>0 DEF ReadType, Marks
    <3> HIDE DEF r
    <3>4. ReadOK(stream, r)
      BY <1>0, <2>0, <3>2, <3>3 DEF ReadOK, Asking
    <3> QED
      BY <1>0, <2>0, <3>1, <3>3, <3>4, Turn
  <2> QED
    BY <1>1, <2>1, <2>2 DEF Opened
<1>2. CASE Drop
  <2>0. Asking(read) /\ UNCHANGED <<seen, program>> /\ ~program.hand
    BY <1>0, <1>2 DEF Drop, ReadOK, Asking
  <2>1. CASE Leave(stream, "outside")
    BY <1>0, <2>0, <2>1, LeaveKeeps
  <2>2. CASE Wait(stream, [read EXCEPT !.pc = "backoff", !.answered = FALSE,
                                       !.page = <<>>, !.now = 0])
    <3> DEFINE r == [read EXCEPT !.pc = "backoff", !.answered = FALSE, !.page = <<>>, !.now = 0]
    <3>1. /\ stream' = stream /\ read' = r /\ UNCHANGED <<major, log, clock, generation>>
      BY <2>2 DEF Wait
    <3>2. r \in ReadType /\ r.pc = "backoff" /\ r.phase = read.phase /\ r.at = read.at
      <4>1. <<>> \in Seq(Nat)
        OBVIOUS
      <4> QED
        BY <1>0, <4>1 DEF ReadType
    <3> HIDE DEF r
    <3>3. ReadOK(stream, r)
      BY <1>0, <2>0, <3>2 DEF ReadOK, Asking
    <3> QED
      BY <1>0, <2>0, <3>1, <3>2, <3>3, Turn
  <2> QED
    BY <1>2, <2>1, <2>2 DEF Drop
<1>3. CASE Backoff
  <2>1. Attempt(stream, read) /\ UNCHANGED <<seen, program>> /\ read.pc = "backoff"
    BY <1>3 DEF Backoff
  <2>2. /\ ~program.hand /\ stream.bound # None
        /\ read.phase = "poll" => stream.started /\ stream.pending = <<>> /\ read.at = Place(stream)
        /\ read.phase # "poll" => ~stream.started
        /\ read.phase \notin {"version", "check", "poll"} => stream.since.kind = "now"
    BY <1>0, <2>1 DEF ReadOK, Asking
  <2> QED
    BY <1>0, <2>1, <2>2, AttemptKeeps
<1>4. CASE Raise
  <2>1. Leave(stream, "outside") /\ UNCHANGED <<seen, program>>
    BY <1>4 DEF Raise
  <2> QED
    BY <1>0, <2>1, LeaveKeeps
<1> QED
  BY <1>1, <1>2, <1>3, <1>4

LEMMA PageKept ==
  ASSUME FeedInv, ReceivePage \/ EndPause
  PROVE  FeedInv'
<1>0. /\ stream \in StreamType /\ StreamOK(stream) /\ read \in ReadType /\ ReadOK(stream, read)
      /\ TypeInv /\ LogInv /\ BatchSize \in Nat
  BY Facts, FeedAssumption
<1>1. CASE ReceivePage
  <2> DEFINE s == Accepted(stream, read.page)
  <2>1. /\ stream.started /\ stream.pending = <<>> /\ ~program.hand
        /\ PageOK(read.page, Place(stream), BatchSize) /\ read.page \in Seq(Nat)
    BY <1>0, <1>1 DEF ReceivePage, ReadOK, Asking, Limit, ReadType
  <2>2. s \in StreamType /\ Moves(stream, s) /\ StreamOK(s)
    BY <1>0, <2>1, AcceptedKeeps
  <2>3. \/ s.pending = <<>> /\ Wait(s, [Idle EXCEPT !.pc = "pausing"]) /\ UNCHANGED <<seen, program>>
        \/ Loop(s)
    BY <1>1 DEF ReceivePage
  <2> HIDE DEF s
  <2>4. s.started = stream.started /\ s.since = stream.since
    BY <1>0, <2>2 DEF Moves, StreamType
  <2>5. CASE s.pending = <<>> /\ Wait(s, [Idle EXCEPT !.pc = "pausing"]) /\ UNCHANGED <<seen, program>>
    <3>1. Leave(s, "pausing")
      BY <2>5 DEF Leave
    <3> QED
      BY <2>1, <2>2, <2>4, <2>5, <3>1, LeaveKeeps
  <2>6. CASE Loop(s)
    BY <2>1, <2>2, <2>4, <2>6, LoopKeeps
  <2> QED
    BY <2>3, <2>5, <2>6
<1>2. CASE EndPause
  <2>1. Loop(stream) /\ ~program.hand
    BY <1>0, <1>2 DEF EndPause, ReadOK
  <2> QED
    BY <1>0, <2>1, LoopKeeps
<1> QED
  BY <1>1, <1>2

LEMMA StartingKeeps ==
  ASSUME FeedInv, ReceiveVersion \/ ReceiveCheck
  PROVE  FeedInv'
<1>0. /\ stream \in StreamType /\ StreamOK(stream) /\ read \in ReadType /\ ReadOK(stream, read)
      /\ ProgramOK /\ stream.since \in Since
      /\ "check" \in Phases /\ "clock" \in Phases /\ "first" \in Phases
  BY Facts DEF StreamType, Phases
<1>1. CASE ReceiveVersion
  BY <1>0, <1>1, ThenKeeps DEF ReceiveVersion, Received
<1>2. CASE ReceiveCheck
  <2>0. read.pc = "sent" /\ read.phase = "check" /\ ~program.hand /\ ~stream.started
    BY <1>0, <1>2 DEF ReceiveCheck, Received, ReadOK, Asking
  <2>1. CASE Then("check", 0, 1, 0)
    BY <1>0, <2>0, <2>1, ThenKeeps
  <2>2. CASE Leave(stream, "outside") /\ UNCHANGED <<seen, program>>
    BY <1>0, <2>2, LeaveKeeps
  <2>3. program.saved # None => stream.since.kind = "cursor" /\ stream.since.at = program.saved
    BY <1>0, <2>0 DEF ProgramOK
  <2>4. CASE stream.since.kind = "cursor" /\ Begin(stream.since.at)
    <3>1. stream.since.at \in Marks
      BY <1>0 DEF Since, Marks
    <3> QED
      BY <2>0, <2>3, <2>4, <3>1, BeginKeeps
  <2>5. CASE stream.since.kind = "moment"
             /\ Begin(IF major >= 3 THEN VersionstampAt(stream.since.at) ELSE None)
    <3> DEFINE c == IF major >= 3 THEN VersionstampAt(stream.since.at) ELSE None
    <3>1. c \in Marks
      <4>1. stream.since.at \in Nat
        BY <1>0 DEF Since
      <4>2. stream.since.at * Unit \in Nat
        BY <4>1, Multiples
      <4> QED
        BY <4>2 DEF Marks, VersionstampAt
    <3> HIDE DEF c
    <3>2. Begin(c)
      BY <2>5 DEF c
    <3>3. program.saved = None
      BY <2>3, <2>5
    <3> QED
      BY <2>0, <3>1, <3>2, <3>3, BeginKeeps
  <2>6. CASE stream.since.kind = "now" /\ Then("clock", 0, 0, 0)
    BY <1>0, <2>0, <2>6, ThenKeeps
  <2>7. CASE stream.since.kind = "now" /\ Then("first", 0, 0, 0)
    BY <1>0, <2>0, <2>7, ThenKeeps
  <2> QED
    BY <1>2, <2>1, <2>2, <2>4, <2>5, <2>6, <2>7 DEF ReceiveCheck
<1> QED
  BY <1>1, <1>2

LEMMA DoubleType == ASSUME NEW n \in Nat PROVE Double(n) \in Nat
BY FeedAssumption DEF Double

LEMMA HalfType == ASSUME NEW a \in Nat, NEW b \in Nat PROVE (a + b) \div 2 \in Nat
OBVIOUS

LEMMA SearchKeeps ==
  ASSUME FeedInv,
         ReceiveClock \/ ReceiveScan \/ ReceiveFirst \/ ReceiveDouble \/ ReceiveBisect
  PROVE  FeedInv'
<1>0. /\ read \in ReadType /\ ReadOK(stream, read) /\ ProgramOK
      /\ read.at \in Nat /\ read.low \in Nat /\ read.high \in Nat /\ read.now \in Nat
      /\ "scan" \in Phases /\ "double" \in Phases /\ "bisect" \in Phases
  BY Facts DEF ReadType, Phases
<1>1. /\ read.pc = "sent" /\ read.phase \in {"clock", "scan", "first", "double", "bisect"}
  BY DEF ReceiveClock, ReceiveScan, ReceiveFirst, ReceiveDouble, ReceiveBisect, Received
<1>2. /\ stream.since.kind = "now" /\ ~stream.started /\ program.saved = None
  <2>1. stream.since.kind = "now" /\ ~stream.started
    BY <1>0, <1>1 DEF ReadOK, Asking
  <2> QED
    BY <1>0, <2>1 DEF ProgramOK
<1>3. ASSUME NEW c \in Nat, Begin(c) PROVE FeedInv'
  BY <1>1, <1>2, <1>3, BeginKeeps DEF Marks
<1>4. ASSUME NEW phase \in {"scan", "double", "bisect"},
             NEW at \in Nat, NEW low \in Nat, NEW high \in Nat, Then(phase, at, low, high)
      PROVE  FeedInv'
  BY <1>0, <1>1, <1>2, <1>4, ThenKeeps
<1>5. ASSUME NEW low \in Nat, NEW high \in Nat, Bisected(low, high) PROVE FeedInv'
  <2>1. CASE Then("bisect", (low + high) \div 2, low, high)
    BY <1>4, <2>1, HalfType
  <2>2. CASE Begin(high)
    BY <1>3, <2>2
  <2> QED
    BY <1>5, <2>1, <2>2 DEF Bisected
<1>6. CASE ReceiveClock
  <2> DEFINE at == VersionstampAt(read.now)
  <2>1. at \in Nat /\ at + Unit \in Nat
    <3>1. read.now * Unit \in Nat /\ Unit \in Nat
      BY <1>0, Multiples, FeedAssumption
    <3> QED
      BY <3>1 DEF VersionstampAt
  <2>2. Then("scan", at, 0, at + Unit)
    BY <1>6 DEF ReceiveClock
  <2> HIDE DEF at
  <2> QED
    BY <1>4, <2>1, <2>2
<1>7. CASE ReceiveScan
  <2>1. Past \in Nat
    BY <1>7, PastType DEF ReceiveScan
  <2>2. Begin(Past) \/ Then("scan", Past, 0, read.high)
    BY <1>7 DEF ReceiveScan
  <2> QED
    BY <1>0, <1>3, <1>4, <2>1, <2>2
<1>8. CASE ReceiveFirst
  <2>1. Begin(0) \/ Then("double", 1, 0, 1)
    BY <1>8 DEF ReceiveFirst
  <2> QED
    BY <1>3, <1>4, <2>1
<1>9. CASE ReceiveDouble
  <2>1. \/ Bisected(read.low, read.high) \/ Begin(read.high)
        \/ Then("double", Double(read.high), read.high, Double(read.high))
    BY <1>9 DEF ReceiveDouble
  <2>2. Double(read.high) \in Nat
    BY <1>0, DoubleType
  <2> QED
    BY <1>0, <1>3, <1>4, <1>5, <2>1, <2>2
<1>10. CASE ReceiveBisect
  <2>1. Bisected(read.low, read.at) \/ Bisected(read.at, read.high)
    BY <1>10 DEF ReceiveBisect
  <2> QED
    BY <1>0, <1>5, <2>1
<1> QED
  BY <1>6, <1>7, <1>8, <1>9, <1>10

LEMMA AnswerKeeps ==
  ASSUME FeedInv, Answer
  PROVE  FeedInv'
<1>0. /\ stream \in StreamType /\ StreamOK(stream) /\ read \in ReadType /\ ReadOK(stream, read)
      /\ TypeInv /\ LogInv /\ clock \in Nat /\ generation \in Nat /\ read.at \in Nat
      /\ seen \in SeenType /\ seen.called <= Len(log) /\ seen.fixed <= Len(log)
  BY Facts DEF ReadType
<1> DEFINE asks == read.phase \in {"scan", "first", "double", "bisect", "poll"}
           page == IF asks THEN Show(log, read.at, IF read.phase \in {"scan", "poll"} THEN BatchSize ELSE 1)
                           ELSE <<>>
           now  == IF read.phase = "clock" THEN clock ELSE 0
           r    == [read EXCEPT !.answered = TRUE, !.page = page, !.now = now]
<1>1. read.pc = "sent" /\ read' = r /\ UNCHANGED <<major, log, clock, generation, stream, seen, program>>
  BY DEF Answer
<1>2. page \in Seq(Nat) /\ (asks => PageOK(page, read.at, Limit(read.phase)))
  <2>1. Limit(read.phase) \in Nat \ {0}
    BY FeedAssumption DEF Limit
  <2>2. asks => page = Show(log, read.at, Limit(read.phase))
    BY DEF Limit
  <2>3. LET p == Show(log, read.at, Limit(read.phase)) IN p \in Seq(Nat) /\ PageOK(p, read.at, Limit(read.phase))
    BY <1>0, <2>1, ShowIs
  <2>4. <<>> \in Seq(Nat)
    OBVIOUS
  <2>5. ~asks => page = <<>>
    OBVIOUS
  <2> HIDE DEF page, asks
  <2> QED
    BY <2>2, <2>3, <2>4, <2>5
<1>3. now \in Nat
  BY <1>0
<1> HIDE DEF page, now
<1>4. /\ r \in ReadType /\ r.pc = "sent" /\ r.page = page /\ r.phase = read.phase /\ r.at = read.at
      /\ r.client = read.client /\ r.answered
  BY <1>0, <1>1, <1>2, <1>3 DEF ReadType
<1> HIDE DEF r
<1>5. ReadOK(stream, r)
  <2>1. asks => PageOK(r.page, r.at, Limit(r.phase))
    BY <1>2, <1>4
  <2> QED
    BY <1>0, <1>1, <1>4, <2>1 DEF ReadOK, Asking
<1> QED
  BY <1>0, <1>1, <1>4, <1>5, Turn
-----------------------------------------------------------------------------
(***************************************************************************)
(* The steps of the program.                                               *)
(***************************************************************************)
LEMMA CallKeeps ==
  ASSUME FeedInv, Read \/ Start
  PROVE  FeedInv'
<1>0. stream \in StreamType /\ StreamOK(stream)
  BY Facts
<1>1. CASE Read
  BY <1>0, <1>1, LoopKeeps DEF Read
<1>2. CASE Start
  <2>1. ~program.hand /\ ~stream.started /\ BeginStart(stream, "start")
    BY <1>2 DEF Start
  <2> QED
    BY <1>0, <2>1, BeginStartKeeps
<1> QED
  BY <1>1, <1>2

(* What only the program changes leaves the rest as it is.                 *)
LEMMA ProgramMoves ==
  ASSUME FeedInv, UNCHANGED <<major, log, clock, generation, stream, read, seen>>,
         program' \in ProgramType, program'.hand => program.hand
  PROVE  TypeInv' /\ LogInv' /\ StreamOK(stream)' /\ ReadOK(stream, read)'
<1>1. TypeInv /\ LogInv /\ StreamOK(stream) /\ ReadOK(stream, read)
  BY Facts
<1>2. TypeInv' /\ log' \in Seq(EntryType)
  BY <1>1 DEF TypeInv
<1>3. LogInv'
  BY <1>1 DEF LogInv, Pos, Position
<1>4. StreamOK(stream)'
  BY <1>1, <1>2, NoGrowth, StreamKeeps, Facts
<1>5. ReadOK(stream, read)'
  <2>1. PageOK(read.page, read.at, Limit(read.phase))' <=> PageOK(read.page, read.at, Limit(read.phase))
    BY DEF PageOK, Pos, Position, Limit
  <2> QED
    BY <1>1, <2>1 DEF ReadOK, Asking, Place
<1> QED
  BY <1>2, <1>3, <1>4, <1>5

LEMMA ProcessKeeps ==
  ASSUME FeedInv, Process
  PROVE  FeedInv'
<1>1. /\ program.hand /\ UNCHANGED <<major, log, clock, generation, stream, read, seen>>
      /\ program' = [program EXCEPT !.hand = FALSE, !.processed = @ \cup {seen.last}]
  BY DEF Process
<1>2. /\ program' \in ProgramType /\ ~program'.hand /\ program'.saved = program.saved
      /\ program'.origin = program.origin /\ program'.processed = program.processed \cup {seen.last}
  <2>1. program \in ProgramType /\ seen.last \in Nat \X Nat
    BY Facts DEF SeenType
  <2> QED
    BY <1>1, <2>1 DEF ProgramType
<1>3. ProgramOK'
  <2>1. ProgramOK
    BY Facts
  <2>2. \A i : Pos(i)' = Pos(i) /\ Changes(i)' = Changes(i) /\ \A k : Handed(i, k)' <=> Handed(i, k)
    BY <1>1 DEF Pos, Position, Changes, Handed
  <2>3. \A p : Settles(p)' <=> Settles(p)
    BY <1>1, <1>2, <2>2 DEF Settles, Later
  <2>4. \A p, q : Done(p, q) => Done(p, q)'
    BY <1>1, <1>2, <2>2 DEF Done
  <2> QED
    BY <1>1, <1>2, <2>1, <2>2, <2>3, <2>4 DEF ProgramOK
<1> QED
  BY <1>1, <1>2, <1>3, ProgramMoves DEF FeedInv

LEMMA SaveKeeps ==
  ASSUME FeedInv, Save
  PROVE  FeedInv'
<1> DEFINE c == stream.cursor
           o == program.origin
<1>1. /\ ~program.hand /\ stream.started /\ c # None
      /\ UNCHANGED <<major, log, clock, generation, stream, read, seen>>
      /\ program' = [program EXCEPT !.saved = c]
  BY DEF Save
<1>2. /\ program' \in ProgramType /\ ~program'.hand /\ program'.saved = c
      /\ program'.origin = o /\ program'.processed = program.processed
  <2>1. program \in ProgramType /\ c \in Marks
    BY Facts DEF StreamType
  <2> QED
    BY <1>1, <2>1 DEF ProgramType
<1>3. /\ ProgramOK /\ o # None /\ Settles(seen.from) /\ Done(o, seen.from)
      /\ c = Place(stream) /\ (c = seen.from \/ Later(c)) /\ Splits(c, seen.last)
      /\ (seen.last = <<0, 0>> \/ EventOK(seen.last))
      /\ c \in Nat /\ seen.from \in Nat /\ o \in Nat
  <2>1. ProgramOK /\ StreamOK(stream) /\ c \in Marks /\ seen.from \in Marks /\ o \in Marks
    BY Facts DEF StreamType, SeenType, ProgramType
  <2> QED
    BY <1>1, <2>1 DEF ProgramOK, StreamOK, Place, Marks
<1>4. Done(o, c)
  <2> SUFFICES ASSUME NEW i \in DOMAIN log, o <= Pos(i), Pos(i) < c
               PROVE  Changes(i) \subseteq program.processed
    BY DEF Done
  <2>1. i \in Nat /\ Pos(i) \in Nat /\ log[i].changes \in Nat
    BY Facts, PosType DEF EntryType
  <2>2. CASE Pos(i) < seen.from
    BY <1>3, <2>2 DEF Done
  <2>3. CASE seen.from <= Pos(i)
    <3> SUFFICES ASSUME NEW k \in 1 .. log[i].changes PROVE <<i, k>> \in program.processed
      BY DEF Changes
    <3>1. Carries(i)
      BY <2>1, <2>3 DEF Carries
    <3>2. i < seen.last[1] \/ seen.last = <<i, log[i].changes>>
      BY <1>3, <3>1 DEF Splits
    <3>3. Handed(i, k)
      BY <2>1, <3>2 DEF Handed
    <3> QED
      BY <1>1, <1>3, <2>3, <3>3 DEF ProgramOK
  <2> QED
    BY <1>3, <2>1, <2>2, <2>3
<1>5. Settles(c)
  BY <1>3 DEF Settles
<1> HIDE DEF c, o
<1>6. ProgramOK'
  <2>2. \A i : Pos(i)' = Pos(i) /\ Changes(i)' = Changes(i) /\ \A k : Handed(i, k)' <=> Handed(i, k)
    BY <1>1 DEF Pos, Position, Changes, Handed
  <2>3. \A p : Settles(p)' <=> Settles(p)
    BY <1>1, <1>2, <2>2 DEF Settles, Later, o
  <2>4. \A p, q : Done(p, q) <=> Done(p, q)'
    BY <1>1, <1>2, <2>2 DEF Done
  <2> QED
    BY <1>1, <1>2, <1>3, <1>4, <1>5, <2>2, <2>3, <2>4 DEF ProgramOK, c, o
<1> QED
  BY <1>1, <1>2, <1>6, ProgramMoves DEF FeedInv

LEMMA StopKeeps ==
  ASSUME FeedInv, Stop
  PROVE  FeedInv'
<1> DEFINE s == [stream EXCEPT !.stopped = TRUE]
<1>1. stream' = s /\ UNCHANGED <<major, log, clock, generation, read, seen, program>>
  BY DEF Stop
<1>2. /\ s \in StreamType /\ s.bound = stream.bound /\ s.started = stream.started
      /\ s.since = stream.since /\ s.cursor = stream.cursor /\ s.pending = stream.pending
  BY Facts DEF StreamType
<1> HIDE DEF s
<1>3. Place(s) = Place(stream)
  BY <1>2 DEF Place
<1>4. StreamOK(s) /\ ReadOK(s, read)
  <2>1. StreamOK(stream) /\ ReadOK(stream, read)
    BY Facts
  <2>2. StreamOK(s)
    BY <1>2, <1>3, <2>1 DEF StreamOK
  <2>3. ReadOK(s, read)
    BY <1>2, <1>3, <2>1 DEF ReadOK
  <2> QED
    BY <2>2, <2>3
<1> QED
  BY <1>1, <1>2, <1>4, Facts, Turn

LEMMA ResumeKeeps ==
  ASSUME FeedInv, Resume
  PROVE  FeedInv'
<1> DEFINE since == IF program.saved = None THEN program.since
                    ELSE [kind |-> "cursor", at |-> program.saved]
           s == NoStream(since)
<1>1. /\ program' = [program EXCEPT !.hand = FALSE, !.streams = @ + 1]
      /\ stream' = s /\ read' = Idle /\ seen' = NothingSeen
      /\ UNCHANGED <<major, log, clock, generation>>
  BY DEF Resume
<1>2. since \in Since
  <2>1. program.saved # None => program.saved \in Nat
    BY Facts DEF ProgramType, Marks
  <2>2. program.since \in Since
    BY Facts DEF ProgramType
  <2> QED
    BY <2>1, <2>2 DEF Since
<1> HIDE DEF since
<1>3. /\ s \in StreamType /\ ~s.started /\ s.pending = <<>> /\ s.cursor = None /\ s.since = since
  <2>1. <<>> \in Seq(EventType) /\ None \in Marks
    BY DEF Marks
  <2> QED
    BY <1>2, <2>1 DEF NoStream, StreamType
<1> HIDE DEF s
<1>4. /\ program' \in ProgramType /\ ~program'.hand /\ program'.saved = program.saved
      /\ program'.origin = program.origin /\ program'.processed = program.processed
  <2>1. program \in ProgramType
    BY Facts
  <2>2. program.streams + 1 \in Nat
    BY <2>1 DEF ProgramType
  <2>3. program' = [program EXCEPT !.hand = FALSE, !.streams = program.streams + 1]
    BY <1>1
  <2> QED
    BY <2>1, <2>2, <2>3 DEF ProgramType
<1>5. /\ seen' \in SeenType /\ seen'.last = <<0, 0>> /\ seen'.called = 0 /\ seen'.fixed = 0
      /\ read' \in ReadType /\ read'.pc = "outside"
  BY <1>1, IdleType DEF NothingSeen, SeenType, Marks, Idle
<1>6. TypeInv' /\ LogInv'
  <2>1. TypeInv /\ LogInv /\ Len(log) \in Nat
    BY Facts
  <2>2. TypeInv'
    BY <1>1, <1>3, <1>4, <1>5, <2>1 DEF TypeInv
  <2> QED
    BY <1>1, <1>5, <2>1, <2>2 DEF LogInv, Pos, Position
<1>7. StreamOK(stream)'
  BY <1>1, <1>3, <1>5 DEF StreamOK
<1>8. ReadOK(stream, read)'
  BY <1>5 DEF ReadOK, Asking
<1>9. ProgramOK'
  <2>1. ProgramOK
    BY Facts
  <2>2. \A i : Pos(i)' = Pos(i) /\ Changes(i)' = Changes(i)
    BY <1>1 DEF Pos, Position, Changes
  <2>3. \A p : Settles(p)' <=> Settles(p)
    BY <1>1, <1>4, <2>2 DEF Settles, Later
  <2>4. \A p, q : Done(p, q) <=> Done(p, q)'
    BY <1>1, <1>4, <2>2 DEF Done
  <2>5. program.saved # None => since.kind = "cursor" /\ since.at = program.saved
    BY DEF since
  <2> QED
    BY <1>1, <1>3, <1>4, <2>1, <2>3, <2>4, <2>5 DEF ProgramOK
<1> QED
  BY <1>6, <1>7, <1>8, <1>9 DEF FeedInv

-----------------------------------------------------------------------------
(***************************************************************************)
(* The steps of the world.                                                 *)
(***************************************************************************)
LEMMA GrowthKeeps ==
  ASSUME FeedInv, Grows, log' \in Seq(EntryType), clock' \in Nat, generation' \in Nat,
         UNCHANGED <<stream, read, seen, program>>, LogInv'
  PROVE  FeedInv'
<1>1. TypeInv /\ LogInv /\ StreamOK(stream) /\ ReadOK(stream, read)
  BY Facts
<1>2. TypeInv'
  BY <1>1 DEF TypeInv, Grows
<1>3. StreamOK(stream)'
  BY <1>1, StreamKeeps, Facts
<1>4. ReadOK(stream, read)'
  BY <1>1, ReadKeeps, Facts
<1>5. ProgramOK'
  BY ProgramKeeps
<1> QED
  BY <1>2, <1>3, <1>4, <1>5 DEF FeedInv

LEMMA ChangeKeeps ==
  ASSUME FeedInv, ChangeSettings
  PROVE  FeedInv'
<1>1. UNCHANGED <<major, log, clock, stream, read, seen, program>> /\ generation' = generation + 1
  BY DEF ChangeSettings
<1>2. TypeInv /\ LogInv /\ generation \in Nat /\ clock \in Nat /\ log \in Seq(EntryType)
  BY Facts DEF TypeInv
<1>3. LogInv'
  BY <1>1, <1>2 DEF LogInv, Pos, Position
<1> QED
  BY <1>1, <1>2, <1>3, NoGrowth, GrowthKeeps

LEMMA TickGrows ==
  ASSUME FeedInv, Tick
  PROVE  /\ Grows /\ log' \in Seq(EntryType) /\ LogInv' /\ clock' = clock + 1
         /\ UNCHANGED <<major, log, generation, stream, read, seen, program>>
<1>1. UNCHANGED <<major, log, generation, stream, read, seen, program>> /\ clock' = clock + 1
  BY DEF Tick
<1>2. /\ TypeInv /\ LogInv /\ generation \in Nat /\ clock \in Nat /\ log \in Seq(EntryType)
      /\ Len(log) \in Nat
  BY Facts DEF TypeInv
<1>3. clock * Unit \in Nat /\ clock' * Unit = clock * Unit + Unit /\ Unit \in Nat
  <2>1. Unit \in Nat \ {0}
    BY FeedAssumption
  <2> QED
    BY <1>1, <1>2, <2>1
<1>4. \A i : Pos(i)' = Pos(i)
  BY <1>1 DEF Pos, Position
<1>5. \A i \in DOMAIN log : Pos(i) \in Nat
  BY <1>2, PosType
<1>6. LogInv'
  BY <1>1, <1>2, <1>3, <1>4, <1>5 DEF LogInv
<1>7. ASSUME NEW p \in Nat, Later(p) PROVE Later(p)'
  BY <1>1, <1>3, <1>4, <1>7 DEF Later
<1>8. Grows
  BY <1>1, <1>2, <1>7 DEF Grows
<1> QED
  BY <1>1, <1>2, <1>6, <1>8

LEMMA TickKeeps ==
  ASSUME FeedInv, Tick
  PROVE  FeedInv'
<1>1. clock \in Nat /\ generation \in Nat
  BY Facts
<1> QED
  BY <1>1, TickGrows, GrowthKeeps

(* Where a transaction that commits lands.                                 *)
LEMMA CommitIs ==
  ASSUME TypeInv, LogInv, Commit
  PROVE  /\ UNCHANGED <<major, clock, generation, stream, read, seen, program>>
         /\ log' \in Seq(EntryType) /\ Len(log') = Len(log) + 1 /\ Len(log) \in Nat
         /\ \A i \in DOMAIN log : log'[i] = log[i]
         /\ LET w == log'[Len(log) + 1].stamp IN
            /\ w \in Nat /\ w < clock * Unit + Unit
            /\ \A i \in DOMAIN log : log[i].stamp < w
            /\ IF major < 3 THEN w = clock * Unit ELSE clock * Unit <= w
<1> DEFINE newest == IF log = <<>> THEN -1 ELSE log[Len(log)].stamp
           first  == VersionstampAt(clock)
           stamp  == IF major < 3 THEN first ELSE IF newest < first THEN first ELSE newest + 1
<1>1. PICK n \in 0 .. MaxChanges :
        /\ stamp > newest /\ stamp < first + Unit
        /\ log' = Append(log, [stamp |-> stamp, changes |-> n])
        /\ UNCHANGED <<major, clock, generation, stream, read, seen, program>>
  BY DEF Commit
<1>2. first \in Nat /\ first = clock * Unit /\ n \in Nat /\ Unit \in Nat
  <2>1. clock \in Nat
    BY DEF TypeInv
  <2> QED
    BY <2>1, Multiples, FeedAssumption DEF VersionstampAt
<1>3. Len(log) \in Nat /\ DOMAIN log = 1 .. Len(log) /\ log \in Seq(EntryType)
  BY FeedIndexes DEF TypeInv
<1>4. \A i \in DOMAIN log : log[i].stamp \in Nat
  BY PosType DEF EntryType
<1>5. newest \in Int /\ newest >= -1
  <2>1. log # <<>> => Len(log) \in DOMAIN log
    BY <1>3
  <2> QED
    BY <1>4, <2>1
<1> HIDE DEF newest, first
<1>6. stamp \in Nat
  BY <1>1, <1>2, <1>5
<1>7. ASSUME NEW i \in DOMAIN log PROVE log[i].stamp < stamp
  <2>1. log # <<>> /\ newest = log[Len(log)].stamp /\ Len(log) \in DOMAIN log
    BY <1>3 DEF newest
  <2>2. log[i].stamp <= log[Len(log)].stamp
    <3>1. CASE i = Len(log)
      BY <1>4, <3>1
    <3>2. CASE i # Len(log)
      <4>1. i < Len(log)
        BY <1>3, <3>2
      <4>2. Pos(i) < Pos(Len(log))
        BY <2>1, <4>1 DEF LogInv
      <4>3. CASE major < 3
        <5>1. log[i].stamp = Pos(i) * Unit /\ log[Len(log)].stamp = Pos(Len(log)) * Unit
          BY <2>1, <4>3 DEF LogInv
        <5>2. Pos(i) \in Nat /\ Pos(Len(log)) \in Nat
          BY <2>1, PosType
        <5> QED
          BY <4>2, <5>1, <5>2, MultiplesGrow
      <4>4. CASE ~(major < 3)
        BY <1>4, <2>1, <4>2, <4>4 DEF Pos, Position
      <4> QED
        BY <4>3, <4>4
    <3> QED
      BY <3>1, <3>2
  <2> QED
    BY <1>1, <1>4, <1>6, <2>1, <2>2
<1>8. IF major < 3 THEN stamp = first ELSE first <= stamp
  BY <1>2, <1>5
<1> HIDE DEF stamp
<1> DEFINE e == [stamp |-> stamp, changes |-> n]
<1>9. e \in EntryType /\ e.stamp = stamp
  BY <1>2, <1>6 DEF EntryType
<1> HIDE DEF e
<1>10. /\ log' \in Seq(EntryType) /\ Len(log') = Len(log) + 1
       /\ \A i \in DOMAIN log : log'[i] = log[i]
       /\ log'[Len(log) + 1] = e
  <2>1. log' = Append(log, e)
    BY <1>1 DEF e
  <2> QED
    BY <1>3, <1>9, <2>1, AppendProperties
<1> QED
  BY <1>1, <1>2, <1>3, <1>6, <1>7, <1>8, <1>9, <1>10

LEMMA CommitGrows ==
  ASSUME FeedInv, Commit
  PROVE  /\ Grows /\ log' \in Seq(EntryType) /\ LogInv'
         /\ UNCHANGED <<major, clock, generation, stream, read, seen, program>>
<1>0. PICK m \in Nat : m = Len(log) + 1
  BY Facts
<1> DEFINE n == Len(log)
           w == log'[m].stamp
<1>1. /\ TypeInv /\ LogInv /\ clock \in Nat /\ generation \in Nat
  BY Facts
<1>2. /\ UNCHANGED <<major, clock, generation, stream, read, seen, program>>
      /\ log' \in Seq(EntryType) /\ Len(log') = m /\ n \in Nat
      /\ \A i \in DOMAIN log : log'[i] = log[i]
      /\ w \in Nat /\ w < clock * Unit + Unit
      /\ \A i \in DOMAIN log : log[i].stamp < w
      /\ IF major < 3 THEN w = clock * Unit ELSE clock * Unit <= w
  BY <1>0, <1>1, CommitIs
<1>3. /\ DOMAIN log = 1 .. n /\ DOMAIN log' = 1 .. m
      /\ \A i \in DOMAIN log : Pos(i) \in Nat /\ log[i].stamp \in Nat /\ i \in Nat
  BY <1>1, <1>2, FeedIndexes, PosType DEF EntryType
<1>00. m = n + 1
  BY <1>0
<1> HIDE DEF n
<1>4. DOMAIN log' \ DOMAIN log = {m} /\ m \in DOMAIN log' /\ m \in Nat /\ \A i \in DOMAIN log : i < m
  BY <1>00, <1>2, <1>3
<1> HIDE DEF w
<1>5. \A i \in DOMAIN log : Pos(i)' = Pos(i)
  BY <1>2 DEF Pos, Position
<1>6. Pos(m)' \in Nat /\ Pos(m)' = (IF major < 3 THEN clock ELSE w)
  <2>1. Pos(m)' = (IF major < 3 THEN w \div Unit ELSE w)
    <3>1. major' = major
      BY <1>2
    <3>2. Pos(m)' = (IF major' < 3 THEN log'[m].stamp \div Unit ELSE log'[m].stamp)
      BY DEF Pos, Position
    <3> QED
      BY <3>1, <3>2 DEF w
  <2>2. (clock * Unit) \div Unit = clock
    BY <1>1, Multiples
  <2>3. CASE major < 3
    BY <1>1, <1>2, <2>1, <2>2, <2>3
  <2>4. CASE ~(major < 3)
    BY <1>2, <2>1, <2>4
  <2> QED
    BY <2>3, <2>4
<1>7. ASSUME NEW i \in DOMAIN log PROVE Pos(i) + 1 <= Pos(m)'
  <2>1. CASE major < 3
    <3>1. log[i].stamp = Pos(i) * Unit /\ w = clock * Unit /\ log[i].stamp < w
      BY <1>1, <1>2, <2>1 DEF LogInv
    <3>2. ~(clock <= Pos(i))
      <4>1. clock <= Pos(i) => clock * Unit <= Pos(i) * Unit
        BY <1>1, <1>3, MultiplesGrow
      <4> QED
        BY <1>2, <1>3, <3>1, <4>1
    <3> QED
      BY <1>1, <1>3, <1>6, <2>1, <3>2
  <2>2. CASE ~(major < 3)
    <3>1. Pos(i) = log[i].stamp
      BY <2>2 DEF Pos, Position
    <3> QED
      BY <1>2, <1>3, <1>6, <2>2, <3>1
  <2> QED
    BY <2>1, <2>2
<1>8. ASSUME NEW p \in Nat, Later(p) PROVE Later(p)' /\ p <= Pos(m)'
  <2>1. CASE p = 0
    BY <1>6, <2>1 DEF Later
  <2>2. ASSUME NEW i \in DOMAIN log, p <= Pos(i) + 1 PROVE Later(p)' /\ p <= Pos(m)'
    <3>1. i \in DOMAIN log' /\ p <= Pos(i)' + 1
      BY <1>00, <1>2, <1>3, <1>5, <2>2
    <3>2. p <= Pos(m)'
      BY <1>3, <1>6, <1>7, <2>2
    <3> QED
      BY <3>1, <3>2 DEF Later
  <2>3. CASE major >= 3 /\ p <= clock * Unit
    <3>1. ~(major < 3)
      BY <1>1, <2>3 DEF TypeInv
    <3>2. clock * Unit \in Nat /\ clock * Unit <= w
      BY <1>1, <1>2, <3>1, Multiples
    <3>3. p <= Pos(m)'
      BY <1>2, <1>6, <2>3, <3>1, <3>2
    <3>4. Later(p)'
      BY <1>2, <2>3 DEF Later
    <3> QED
      BY <3>3, <3>4
  <2> QED
    BY <1>8, <2>1, <2>2, <2>3 DEF Later
<1>9. Grows
  <2>1. Len(log) <= Len(log')
    BY <1>00, <1>2 DEF n
  <2>2. \A p \in Nat : Later(p) => Later(p)'
    BY <1>8
  <2>3. \A p \in Nat : \A i \in DOMAIN log' \ DOMAIN log : Later(p) => p <= Pos(i)'
    BY <1>4, <1>8
  <2>4. major' = major /\ \A i \in DOMAIN log : log'[i] = log[i]
    BY <1>2
  <2> QED
    BY <2>1, <2>2, <2>3, <2>4 DEF Grows
<1>10. LogInv'
  <2>1. ASSUME NEW i \in DOMAIN log', NEW j \in DOMAIN log', i < j PROVE Pos(i)' < Pos(j)'
    <3>1. i \in DOMAIN log
      BY <1>00, <1>2, <1>3, <2>1
    <3>2. CASE j \in DOMAIN log
      <4>1. Pos(i) < Pos(j)
        BY <1>1, <2>1, <3>1, <3>2 DEF LogInv
      <4> QED
        BY <1>5, <3>1, <3>2, <4>1
    <3>3. CASE j = m
      BY <1>3, <1>5, <1>6, <1>7, <3>1, <3>3
    <3> QED
      BY <1>4, <3>2, <3>3
  <2>2. ASSUME NEW i \in DOMAIN log'
        PROVE  IF major < 3 THEN log'[i].stamp = Pos(i)' * Unit /\ Pos(i)' <= clock
                            ELSE Pos(i)' < clock * Unit + Unit
    <3>1. CASE i \in DOMAIN log
      <4>1. IF major < 3 THEN log[i].stamp = Pos(i) * Unit /\ Pos(i) <= clock
                         ELSE Pos(i) < clock * Unit + Unit
        BY <1>1, <3>1 DEF LogInv
      <4>2. log'[i] = log[i] /\ Pos(i)' = Pos(i)
        BY <1>2, <1>5, <3>1
      <4> QED
        BY <4>1, <4>2
    <3>2. CASE i = m
      BY <1>1, <1>2, <1>6, <3>2 DEF w
    <3> QED
      BY <1>4, <3>1, <3>2
  <2>3. seen.called <= Len(log') /\ seen.fixed <= Len(log')
    <3>1. seen.called <= n /\ seen.fixed <= n /\ seen.called \in Nat /\ seen.fixed \in Nat
      BY Facts DEF SeenType, n
    <3> QED
      BY <1>00, <1>2, <3>1
  <2> QED
    BY <1>2, <2>1, <2>2, <2>3 DEF LogInv
<1> QED
  BY <1>2, <1>9, <1>10

LEMMA CommitKeeps ==
  ASSUME FeedInv, Commit
  PROVE  FeedInv'
BY CommitGrows, GrowthKeeps, Facts
-----------------------------------------------------------------------------
(***************************************************************************)
(* The invariant, and the properties it has.                               *)
(***************************************************************************)
LEMMA FeedInit == Init => FeedInv
<1> SUFFICES ASSUME Init PROVE FeedInv
  OBVIOUS
<1>1. /\ major \in Majors /\ log = <<>> /\ clock = 1 /\ generation = 0
      /\ read = Idle /\ seen = NothingSeen
  BY DEF Init
<1>2. PICK since \in Sinces :
        /\ stream = NoStream(since)
        /\ program = [since |-> since, hand |-> FALSE, saved |-> None, origin |-> None,
                      processed |-> {}, streams |-> 1]
  BY DEF Init
<1>3. since \in Since /\ major \in Nat /\ None \in Marks /\ <<>> \in Seq(EventType) /\ log \in Seq(EntryType)
  BY <1>1, FeedAssumption DEF Marks
<1>4. /\ stream \in StreamType /\ ~stream.started /\ stream.pending = <<>> /\ stream.cursor = None
  BY <1>2, <1>3 DEF NoStream, StreamType
<1>5. program \in ProgramType /\ program.saved = None /\ ~program.hand
  BY <1>2, <1>3 DEF ProgramType
<1>6. seen \in SeenType /\ seen.last = <<0, 0>> /\ seen.called = 0 /\ seen.fixed = 0
  BY <1>1, <1>3 DEF NothingSeen, SeenType
<1>7. read \in ReadType /\ read.pc = "outside"
  BY <1>1, IdleType DEF Idle
<1>8. TypeInv
  BY <1>1, <1>3, <1>4, <1>5, <1>6, <1>7 DEF TypeInv
<1>9. LogInv
  BY <1>1, <1>6 DEF LogInv
<1>10. StreamOK(stream)
  BY <1>4, <1>6 DEF StreamOK
<1>11. ReadOK(stream, read)
  BY <1>7 DEF ReadOK, Asking
<1>12. ProgramOK
  BY <1>4, <1>5 DEF ProgramOK
<1> QED
  BY <1>8, <1>9, <1>10, <1>11, <1>12 DEF FeedInv

LEMMA FeedStep == FeedInv /\ [Next]_vars => FeedInv'
<1> SUFFICES ASSUME FeedInv, [Next]_vars PROVE FeedInv'
  OBVIOUS
<1>1. CASE Reader
  <2>1. CASE Opened \/ Drop \/ Backoff \/ Raise
    BY <2>1, AttemptingKeeps
  <2>2. CASE ReceivePage \/ EndPause
    BY <2>2, PageKept
  <2>3. CASE ReceiveVersion \/ ReceiveCheck
    BY <2>3, StartingKeeps
  <2>4. CASE ReceiveClock \/ ReceiveScan \/ ReceiveFirst \/ ReceiveDouble \/ ReceiveBisect
    BY <2>4, SearchKeeps
  <2> QED
    BY <1>1, <2>1, <2>2, <2>3, <2>4 DEF Reader
<1>2. CASE Answer
  BY <1>2, AnswerKeeps
<1>3. CASE Read \/ Start
  BY <1>3, CallKeeps
<1>4. CASE Process
  BY <1>4, ProcessKeeps
<1>5. CASE Save
  BY <1>5, SaveKeeps
<1>6. CASE Stop
  BY <1>6, StopKeeps
<1>7. CASE Resume
  BY <1>7, ResumeKeeps
<1>8. CASE Tick
  BY <1>8, TickKeeps
<1>9. CASE Commit
  BY <1>9, CommitKeeps
<1>10. CASE ChangeSettings
  BY <1>10, ChangeKeeps
<1>11. CASE UNCHANGED vars
  <2>1. UNCHANGED <<major, log, clock, generation, stream, read, seen, program>>
    BY <1>11 DEF vars
  <2> QED
    BY <2>1, Facts, Turn
<1> QED
  BY <1>1, <1>2, <1>3, <1>4, <1>5, <1>6, <1>7, <1>8, <1>9, <1>10, <1>11 DEF Next

(* The reader of a feed stays in order, whatever the world and the program *)
(* do: its types, the positions of the feed, what the stream has buffered, *)
(* what its task waits for, and what the program has been given            *)
(* (ChangeModelStream).                                                    *)
THEOREM FeedInvariant == Spec => []FeedInv
<1>1. Init => FeedInv
  BY FeedInit
<1>2. FeedInv /\ [Next]_vars => FeedInv'
  BY FeedStep
<1> QED
  BY <1>1, <1>2, PTL DEF Spec

(* A change below the saved cursor was processed, for any number of        *)
(* entries, pages, crashes, stops, drops and cancelled reads (_accept(),   *)
(* __anext__(), next_cursor()).                                            *)
THEOREM NoChangeIsLost == Spec => []NothingLost
<1>1. FeedInv => NothingLost
  <2> SUFFICES ASSUME FeedInv, program.saved # None,
                      NEW i \in DOMAIN log,
                      program.origin <= Position(log[i]), Position(log[i]) < program.saved
               PROVE  {i} \X (1 .. log[i].changes) \subseteq program.processed
    BY DEF NothingLost
  <2>1. Done(program.origin, program.saved)
    BY Facts DEF ProgramOK
  <2> QED
    BY <2>1 DEF Done, Changes, Pos
<1> QED
  BY <1>1, FeedInvariant, PTL

(* The cursor is past exactly the transactions all of whose changes were   *)
(* handed out (_accept()).                                                 *)
THEOREM CursorIsExact == Spec => []ResumesExactly
<1>1. FeedInv => ResumesExactly
  <2> SUFFICES ASSUME FeedInv, stream.started, stream.cursor # None,
                      NEW i \in DOMAIN log, log[i].changes > 0, Position(log[i]) >= seen.from
               PROVE  Position(log[i]) < stream.cursor <=>
                        i < seen.last[1] \/ seen.last = <<i, log[i].changes>>
    BY DEF ResumesExactly
  <2>1. Splits(stream.cursor, seen.last) /\ seen.from \in Nat
    BY Facts DEF StreamOK, Place, SeenType, Marks
  <2>2. Carries(i)
    BY <2>1, Facts, PosType DEF Carries, Pos
  <2> QED
    BY <2>1, <2>2 DEF Splits, Pos
<1> QED
  BY <1>1, FeedInvariant, PTL

(* No request goes to another database than the one the stream was bound   *)
(* to, however often the settings change (_with_retry(),                   *)
(* _check_generation()).                                                   *)
THEOREM RequestsStayWhereBound == Spec => []RequestsWhereBound
<1>1. FeedInv => RequestsWhereBound
  BY Facts DEF RequestsWhereBound, ReadOK
<1> QED
  BY <1>1, FeedInvariant, PTL

LEMMA LoopHandsOut ==
  ASSUME FeedInv, NEW s \in StreamType, StreamOK(s), Loop(s)
  PROVE  seen'.last = seen.last \/ Follows(seen.last, seen'.last)
<1>0. seen \in SeenType
  BY Facts
<1>1. CASE s.pending # <<>> /\ Yield(s)
  <2>1. s.started
    BY <1>1 DEF StreamOK
  <2>2. Follows(seen.last, Event(Head(s.pending)))
    BY <1>1, <2>1, Facts, NextHanded
  <2>3. seen'.last = Event(Head(s.pending))
    BY <1>0, <1>1 DEF Yield, Event, SeenType
  <2> QED
    BY <2>2, <2>3
<1>2. CASE BeginStart(s, "read")
  BY <1>0, <1>2 DEF BeginStart, SeenType
<1>3. CASE UNCHANGED seen
  BY <1>3
<1> QED
  BY <1>1, <1>2, <1>3 DEF Loop

LEMMA StepHandsOut ==
  FeedInv /\ [Next]_vars =>
    [seen'.last \notin {seen.last, <<0, 0>>} => Follows(seen.last, seen'.last)]_vars
<1> SUFFICES ASSUME FeedInv, Next
             PROVE  seen'.last \in {seen.last, <<0, 0>>} \/ Follows(seen.last, seen'.last)
  OBVIOUS
<1>0. /\ seen \in SeenType /\ stream \in StreamType /\ StreamOK(stream) /\ ReadOK(stream, read)
      /\ read \in ReadType
  BY Facts
<1>1. CASE ReceivePage
  <2> DEFINE s == Accepted(stream, read.page)
  <2>1. /\ stream.started /\ stream.pending = <<>>
        /\ PageOK(read.page, Place(stream), BatchSize) /\ read.page \in Seq(Nat) /\ BatchSize \in Nat
    BY <1>0, <1>1, FeedAssumption DEF ReceivePage, ReadOK, Asking, Limit, ReadType
  <2>2. s \in StreamType /\ StreamOK(s)
    BY <1>0, <2>1, Facts, AcceptedKeeps
  <2>3. Loop(s) \/ UNCHANGED seen
    BY <1>1 DEF ReceivePage
  <2> HIDE DEF s
  <2> QED
    BY <2>2, <2>3, LoopHandsOut
<1>2. CASE EndPause \/ Read
  BY <1>0, <1>2, LoopHandsOut DEF EndPause, Read
<1>3. CASE Start
  BY <1>0, <1>3 DEF Start, BeginStart, SeenType
<1>4. ASSUME NEW c, Begin(c) PROVE seen'.last = seen.last
  BY <1>0, <1>4 DEF Begin, SeenType
<1>5. CASE ReceiveVersion \/ ReceiveCheck \/ ReceiveClock
  BY <1>4, <1>5 DEF ReceiveVersion, ReceiveCheck, ReceiveClock, Then
<1>6. CASE ReceiveScan \/ ReceiveFirst \/ ReceiveDouble \/ ReceiveBisect
  BY <1>4, <1>6 DEF ReceiveScan, ReceiveFirst, ReceiveDouble, ReceiveBisect, Bisected, Then
<1>7. CASE Resume
  BY <1>7 DEF Resume, NothingSeen
<1>8. CASE \/ Opened \/ Drop \/ Backoff \/ Raise \/ Answer
           \/ Process \/ Save \/ Stop \/ Tick \/ Commit \/ ChangeSettings
  BY <1>8 DEF Opened, Drop, Backoff, Raise, Answer, Process, Save, Stop, Tick, Commit, ChangeSettings
<1> QED
  BY <1>1, <1>2, <1>3, <1>5, <1>6, <1>7, <1>8 DEF Next, Reader

(* A stream hands out every change once, in the order of the feed, from    *)
(* where it started (_poll(), __anext__()).                                *)
InOrder == [][seen'.last \notin {seen.last, <<0, 0>>} => Follows(seen.last, seen'.last)]_vars

(* Every change is handed out once and in the order of the feed, from      *)
(* where the stream started, whatever the pages (_poll(), __anext__()).    *)
THEOREM ChangesComeInOrder == Spec => InOrder
<1>1. FeedInv /\ [Next]_vars =>
        [seen'.last \notin {seen.last, <<0, 0>>} => Follows(seen.last, seen'.last)]_vars
  BY StepHandsOut
<1> QED
  BY <1>1, FeedInvariant, PTL DEF Spec, InOrder
-----------------------------------------------------------------------------
(***************************************************************************)
(* "Now": the search for the end of the feed.                              *)
(***************************************************************************)
LEMMA OlderKeeps ==
  ASSUME TypeInv, LogInv, log' \in Seq(EntryType), Grows, seen'.called = seen.called,
         NEW p, Older(p)
  PROVE  Older(p)'
<1>1. seen.called \in Nat /\ seen.called <= Len(log)
  BY DEF TypeInv, SeenType, LogInv
<1>2. \A i \in 1 .. seen.called : Pos(i)' = Pos(i)
  BY <1>1, GrownFeed
<1> QED
  BY <1>2 DEF Older

LEMMA SearchGrows ==
  ASSUME TypeInv, LogInv, log' \in Seq(EntryType), Grows, clock <= clock', clock' \in Nat,
         seen'.called = seen.called, NEW r \in ReadType, SearchOK(r)
  PROVE  SearchOK(r)'
<1>1. /\ major' = major /\ \A p : Older(p) => Older(p)'
      /\ \A p \in Nat : Later(p) => Later(p)'
      /\ r.at \in Nat /\ r.now \in Nat /\ clock \in Nat
  BY OlderKeeps DEF Grows, ReadType, TypeInv
<1>2. \A n : (\E i \in DOMAIN log : n <= Pos(i)) => (\E i \in DOMAIN log' : n <= Pos(i)')
  BY GrownFeed
<1>3. r.now <= clock => r.now <= clock'
  BY <1>1
<1> QED
  BY <1>1, <1>2, <1>3 DEF SearchOK

LEMMA BegunKeeps ==
  ASSUME FeedInv, log' \in Seq(EntryType), Grows, Begun,
         stream'.started = stream.started, stream'.since = stream.since,
         seen'.from = seen.from, seen'.fixed = seen.fixed,
         seen'.called = seen.called \/ ~stream.started
  PROVE  Begun'
<1> SUFFICES ASSUME stream.started, stream.since.kind = "now"
             PROVE  /\ Older(seen.from)' /\ Later(seen.from)'
                    /\ \A i \in DOMAIN log' : i > seen.fixed => seen.from <= Pos(i)'
  BY DEF Begun
<1>1. /\ Older(seen.from) /\ Later(seen.from)
      /\ \A i \in DOMAIN log : i > seen.fixed => seen.from <= Pos(i)
  BY DEF Begun
<1>2. seen.from \in Nat /\ TypeInv /\ LogInv
  BY Facts DEF StreamOK, SeenType, Marks
<1>3. Older(seen.from)'
  <2>1. \A p : Older(p) => Older(p)'
    BY <1>2, OlderKeeps
  <2>2. Older(seen.from)' <=> \A i \in 1 .. seen'.called : Pos(i)' < seen.from
    BY DEF Older
  <2>3. \A i \in 1 .. seen.called : Pos(i)' < seen.from
    <3>1. seen.called \in Nat /\ seen.called <= Len(log)
      BY Facts DEF SeenType
    <3>2. \A i \in 1 .. seen.called : Pos(i)' = Pos(i)
      BY <1>2, <3>1, GrownFeed
    <3> QED
      BY <1>1, <3>2 DEF Older
  <2> QED
    BY <2>2, <2>3
<1>4. Later(seen.from)'
  BY <1>1, <1>2 DEF Grows
<1>5. ASSUME NEW i \in DOMAIN log', i > seen.fixed PROVE seen.from <= Pos(i)'
  <2>1. CASE i \in DOMAIN log
    BY <1>1, <1>2, <1>5, <2>1, GrownFeed
  <2>2. CASE i \notin DOMAIN log
    BY <1>1, <1>2, <2>2 DEF Grows
  <2> QED
    BY <2>1, <2>2
<1> QED
  BY <1>3, <1>4, <1>5

Quiet == {"version", "check", "poll"}

(* A step outside the search.                                              *)
LEMMA QuietNow ==
  ASSUME FeedInv, NowInv, UNCHANGED <<major, log, clock>>,
         stream'.started = stream.started, stream'.since = stream.since,
         seen'.from = seen.from, seen'.fixed = seen.fixed,
         seen'.called = seen.called \/ ~stream.started,
         Asking(read') => read'.phase \in Quiet
  PROVE  NowInv'
<1>1. Grows /\ log' \in Seq(EntryType)
  BY Facts, NoGrowth DEF TypeInv
<1>2. Begun'
  BY <1>1, BegunKeeps DEF NowInv
<1>3. Asking(read)' => SearchOK(read)'
  BY DEF SearchOK, Quiet, Asking
<1> QED
  BY <1>2, <1>3 DEF NowInv

LEMMA QuietAttempt ==
  ASSUME FeedInv, NowInv,
         NEW s \in StreamType, s.started = stream.started, s.since = stream.since,
         NEW r \in ReadType, r.phase \in Quiet, Attempt(s, r),
         seen'.from = seen.from, seen'.fixed = seen.fixed,
         seen'.called = seen.called \/ ~stream.started
  PROVE  NowInv'
<1>1. /\ stream' = s /\ UNCHANGED <<major, log, clock>>
      /\ Asking(read') => read'.phase \in Quiet
  BY AttemptIs DEF Asking
<1> QED
  BY <1>1, QuietNow

LEMMA LeaveNow ==
  ASSUME FeedInv, NowInv, UNCHANGED seen,
         NEW s \in StreamType, s.started = stream.started, s.since = stream.since,
         NEW pc \in {"outside", "ended", "failed", "pausing"}, Leave(s, pc)
  PROVE  NowInv'
<1>1. /\ stream' = s /\ UNCHANGED <<major, log, clock>> /\ ~Asking(read')
  BY LeaveIs DEF Asking
<1> QED
  BY <1>1, QuietNow

LEMMA StartNow ==
  ASSUME FeedInv, NowInv, NEW s \in StreamType, s.started = stream.started, s.since = stream.since,
         ~s.started, NEW mode \in {"read", "start"}, BeginStart(s, mode)
  PROVE  NowInv'
<1> DEFINE b == [s EXCEPT !.bound = IF @ = None THEN generation ELSE @]
           r == [Idle EXCEPT !.mode = mode]
           q == [r EXCEPT !.phase = "version", !.at = 0, !.attempt = 0]
<1>1. Attempt(b, q) /\ seen' = [seen EXCEPT !.called = Len(log)]
  BY DEF BeginStart, Ask
<1>2. q \in ReadType /\ q.phase \in Quiet
  <2>1. r \in ReadType
    BY IdleType DEF ReadType
  <2> HIDE DEF r
  <2> QED
    BY <2>1 DEF ReadType, Phases, Quiet
<1>3. b \in StreamType /\ b.started = s.started /\ b.since = s.since
  BY Facts DEF StreamType, Marks, None
<1> HIDE DEF b, q
<1>4. seen'.from = seen.from /\ seen'.fixed = seen.fixed
  BY <1>1, Facts DEF SeenType
<1> QED
  BY <1>1, <1>2, <1>3, <1>4, QuietAttempt

LEMMA LoopNow ==
  ASSUME FeedInv, NowInv, NEW s \in StreamType, StreamOK(s),
         s.started = stream.started, s.since = stream.since, Loop(s)
  PROVE  NowInv'
<1>1. CASE Leave(s, "ended") /\ UNCHANGED <<seen, program>>
  BY <1>1, LeaveNow
<1>2. CASE Leave(s, "failed") /\ UNCHANGED <<seen, program>>
  BY <1>2, LeaveNow
<1>3. CASE s.pending # <<>> /\ Yield(s)
  <2> DEFINE e == Head(s.pending)
             t == [s EXCEPT !.pending = Tail(@), !.cursor = Adopt(@, e.after)]
  <2>1. /\ Leave(t, "outside")
        /\ seen' = [seen EXCEPT !.last = <<e.entry, e.change>>]
    BY <1>3 DEF Yield
  <2>2. t.started = s.started /\ t.since = s.since
    BY DEF StreamType
  <2> HIDE DEF t
  <2>3. /\ stream' = t /\ UNCHANGED <<major, log, clock>> /\ ~Asking(read')
    BY <2>1, LeaveIs DEF Asking
  <2>4. seen'.from = seen.from /\ seen'.fixed = seen.fixed /\ seen'.called = seen.called
    BY <2>1, Facts DEF SeenType
  <2> QED
    BY <2>2, <2>3, <2>4, QuietNow
<1>4. CASE ~s.started /\ BeginStart(s, "read")
  BY <1>4, StartNow
<1>5. CASE Poll(s) /\ UNCHANGED <<seen, program>>
  <2>1. PICK r \in ReadType : Attempt(s, r) /\ r.phase = "poll"
    BY <1>5, PollAttempts
  <2>2. r.phase \in Quiet
    BY <2>1 DEF Quiet
  <2> QED
    BY <1>5, <2>1, <2>2, QuietAttempt
<1> QED
  BY <1>1, <1>2, <1>3, <1>4, <1>5 DEF Loop

(* The search goes on, with what it knows by now.                          *)
LEMMA ThenNow ==
  ASSUME FeedInv, NowInv, NEW phase \in Phases, NEW at \in Nat, NEW low \in Nat, NEW high \in Nat,
         Then(phase, at, low, high),
         SearchOK([phase |-> phase, at |-> at, low |-> low, high |-> high, answered |-> FALSE])
  PROVE  NowInv'
<1> DEFINE r == [read EXCEPT !.low = low, !.high = high]
           q == [r EXCEPT !.phase = phase, !.at = at, !.attempt = 0]
<1>1. Attempt(stream, q) /\ UNCHANGED <<seen, program>>
  BY DEF Then, Ask
<1>2. q \in ReadType /\ q.phase = phase /\ q.at = at /\ q.low = low /\ q.high = high
  <2>1. r \in ReadType /\ r.low = low /\ r.high = high
    BY Facts DEF ReadType
  <2> HIDE DEF r
  <2> QED
    BY <2>1 DEF ReadType
<1> HIDE DEF q
<1>3. /\ stream' = stream /\ UNCHANGED <<major, log, clock, generation>>
      /\ read' \in ReadType
      /\ \/ read'.pc \in {"outside", "ended", "failed"}
         \/ /\ read'.pc = "opening" /\ ~read'.answered
            /\ read'.phase = phase /\ read'.at = at
            /\ read'.low = low /\ read'.high = high
  BY <1>1, <1>2, Facts, AttemptIs
<1>4. PICK x \in ReadType : read' = x
  BY <1>3
<1>5. Asking(x) => SearchOK(x)
  BY <1>3, <1>4 DEF Asking, SearchOK
<1>6. /\ Grows /\ log' \in Seq(EntryType) /\ TypeInv /\ LogInv
      /\ clock' \in Nat /\ clock <= clock' /\ seen'.called = seen.called
  BY <1>1, <1>3, Facts, NoGrowth DEF TypeInv
<1>7. Asking(x)' => SearchOK(x)'
  <2>1. Asking(x)' <=> Asking(x)
    BY DEF Asking
  <2> QED
    BY <1>5, <1>6, <2>1, SearchGrows
<1>8. Begun'
  BY <1>1, <1>3, <1>6, BegunKeeps DEF NowInv
<1> QED
  BY <1>3, <1>4, <1>7, <1>8 DEF NowInv

(* The stream begins where the search has ended.                           *)
LEMMA BeginNow ==
  ASSUME FeedInv, NowInv, read.pc = "sent", NEW cursor \in Marks, Begin(cursor),
         stream.since.kind = "now" => cursor # None /\ Older(cursor) /\ Later(cursor)
  PROVE  NowInv'
<1> DEFINE s == [stream EXCEPT !.started = TRUE, !.cursor = cursor]
           p == IF cursor = None THEN 0 ELSE cursor
<1>1. /\ IF read.mode = "start" THEN Leave(s, "outside") ELSE Poll(s)
      /\ seen' = [seen EXCEPT !.from = p, !.fixed = Len(log)]
  BY DEF Begin
<1>2. s \in StreamType /\ s.started /\ s.since = stream.since
  BY Facts DEF StreamType
<1>3. seen'.from = p /\ seen'.called = seen.called /\ seen'.fixed = Len(log)
  BY <1>1, Facts DEF SeenType
<1> HIDE DEF s
<1>4. /\ stream' = s /\ UNCHANGED <<major, log, clock>>
      /\ Asking(read') => read'.phase = "poll"
  <2>1. CASE Leave(s, "outside")
    BY <2>1, LeaveIs DEF Asking
  <2>2. CASE Poll(s)
    <3>1. PICK r \in ReadType : Attempt(s, r) /\ r.phase = "poll"
      BY <1>2, <2>2, PollAttempts
    <3> QED
      BY <1>2, <3>1, AttemptIs DEF Asking
  <2> QED
    BY <1>1, <2>1, <2>2
<1>5. Begun'
  <2> SUFFICES ASSUME stream'.started, stream'.since.kind = "now"
               PROVE  /\ Older(seen.from)' /\ Later(seen.from)'
                      /\ \A i \in DOMAIN log' : i > seen'.fixed => seen'.from <= Pos(i)'
    BY DEF Begun
  <2>1. p = cursor /\ Older(p) /\ Later(p)
    BY <1>2, <1>4
  <2> HIDE DEF p
  <2>2. \A i : Pos(i)' = Pos(i)
    BY <1>4 DEF Pos, Position
  <2>3. Older(seen.from)' /\ Later(seen.from)'
    BY <1>3, <1>4, <2>1, <2>2 DEF Older, Later
  <2>4. \A i \in DOMAIN log' : ~(i > seen'.fixed)
    BY <1>3, <1>4, Facts, FeedIndexes
  <2> QED
    BY <2>3, <2>4
<1>6. Asking(read)' => SearchOK(read)'
  BY <1>4 DEF SearchOK, Asking
<1> QED
  BY <1>4, <1>5, <1>6 DEF NowInv

(* The page of the clock's millisecond: every entry there when the stream  *)
(* was asked to start is below the place the page leads to.                *)
LEMMA PastIs ==
  ASSUME FeedInv, SearchOK(read), Received("scan")
  PROVE  /\ Later(Past)
         /\ \/ Len(read.page) < BatchSize
            \/ \E p \in Stamps : p >= read.high
            \/ Inside = {}
            => Older(Past)
<1> DEFINE page == read.page
           at == read.at
           high == read.high
<1>1. /\ PageOK(page, at, BatchSize) /\ high \in Nat /\ at \in Nat /\ page \in Seq(Nat)
      /\ Len(page) \in Nat /\ BatchSize \in Nat \ {0}
  BY Facts, FeedAssumption DEF Received, ReadOK, Limit, ReadType
<1>2. major >= 3 /\ Older(high) /\ Later(at) /\ ~(major < 3)
  <2>1. major \in Nat
    BY Facts DEF TypeInv
  <2> QED
    BY <2>1 DEF SearchOK, Received
<1>3. /\ \A i \in DOMAIN log : Pos(i) = log[i].stamp /\ Pos(i) \in Nat /\ i \in Nat
      /\ DOMAIN log = 1 .. Len(log) /\ Len(log) \in Nat
      /\ seen.called \in Nat /\ seen.called <= Len(log)
  BY <1>2, Facts, PosType, FeedIndexes DEF Pos, Position, SeenType
<1> HIDE DEF page, at, high
<1>4. \A k \in 1 .. Len(page) : page[k] \in DOMAIN log /\ page[k] = page[1] + k - 1 /\ at <= Pos(page[k])
  BY <1>1 DEF PageOK
<1>5. Inside # {} =>
        /\ Newest(Inside) \in Nat /\ Past = Newest(Inside) + 1 /\ at <= Newest(Inside)
        /\ \A q \in Inside : q <= Newest(Inside)
        /\ \E i \in DOMAIN log : log[i].stamp = Newest(Inside)
  <2> SUFFICES ASSUME Inside # {}
               PROVE  /\ Newest(Inside) \in Nat /\ Past = Newest(Inside) + 1 /\ at <= Newest(Inside)
                      /\ \A q \in Inside : q <= Newest(Inside)
                      /\ \E i \in DOMAIN log : log[i].stamp = Newest(Inside)
    OBVIOUS
  <2>1. /\ Newest(Inside) \in Inside /\ \A q \in Inside : q <= Newest(Inside)
        /\ \A p \in Inside : p \in Nat /\ p < read.high /\ \E i \in DOMAIN log : log[i].stamp = p
    BY InsideIs
  <2>2. at <= Newest(Inside)
    BY <2>1 DEF Inside, at
  <2>3. Past = Newest(Inside) + 1
    BY <1>2 DEF Past, NextCursor
  <2> QED
    BY <2>1, <2>2, <2>3
<1>6. Inside = {} => Past = at
  BY DEF Past, at
<1>7. Later(Past)
  <2>1. CASE Inside = {}
    BY <1>2, <1>6, <2>1
  <2>2. CASE Inside # {}
    <3>1. PICK i \in DOMAIN log : log[i].stamp = Newest(Inside)
      BY <1>5, <2>2
    <3>2. Past <= Pos(i) + 1
      BY <1>3, <1>5, <2>2, <3>1
    <3> QED
      BY <3>2 DEF Later
  <2> QED
    BY <2>1, <2>2
<1>8. ASSUME \/ Len(page) < BatchSize
             \/ \E p \in Stamps : p >= high
             \/ Inside = {}
      PROVE  Older(Past)
  <2> SUFFICES ASSUME NEW j \in 1 .. seen.called PROVE Pos(j) < Past
    BY DEF Older
  <2>0. j \in DOMAIN log /\ Pos(j) \in Nat /\ j \in Nat /\ j >= 1 /\ Pos(j) = log[j].stamp
    BY <1>3
  <2>1. Pos(j) < high
    BY <1>2 DEF Older
  <2>2. Pos(j) < at => Pos(j) < Past
    BY <1>1, <1>5, <1>6, <2>0
  <2>3. ASSUME NEW k \in 1 .. Len(page), j = page[k] PROVE Pos(j) < Past
    <3>1. Pos(j) \in Stamps
      BY <1>1, <2>0, <2>3 DEF Stamps, page
    <3>2. at <= Pos(j)
      BY <1>4, <2>3
    <3>3. Pos(j) \in Inside
      BY <2>1, <3>1, <3>2 DEF Inside, at, high
    <3> QED
      BY <1>5, <2>0, <3>3
  <2>4. ASSUME page # <<>>, j <= page[Len(page)] PROVE Pos(j) < Past
    <3>1. 1 \in 1 .. Len(page) /\ Len(page) \in 1 .. Len(page)
      BY <1>1, <2>4
    <3>2. page[1] \in Nat /\ page[Len(page)] = page[1] + Len(page) - 1
      BY <1>1, <1>4, <3>1
    <3>3. CASE j < page[1]
      <4>1. j \in 1 .. page[1] - 1
        BY <2>0, <3>2, <3>3
      <4>2. Pos(j) < at
        BY <1>1, <2>4, <4>1 DEF PageOK
      <4> QED
        BY <2>2, <4>2
    <3>4. CASE j >= page[1]
      <4> DEFINE k == j - page[1] + 1
      <4>1. k \in 1 .. Len(page) /\ j = page[1] + k - 1
        <5>1. /\ page[1] \in Nat /\ Len(page) \in Nat /\ j \in Nat /\ page[1] <= j
              /\ j <= page[1] + Len(page) - 1
          BY <1>1, <2>0, <2>4, <3>2, <3>4
        <5> HIDE DEF page, at, high
        <5>2. \A first, n, i \in Nat : first <= i /\ i <= first + n - 1
                => i - first + 1 \in 1 .. n /\ i = first + (i - first + 1) - 1
          OBVIOUS
        <5> QED
          BY <5>1, <5>2
      <4> HIDE DEF k
      <4>2. j = page[k]
        BY <1>4, <4>1
      <4> QED
        BY <2>3, <4>1, <4>2
    <3> QED
      BY <2>0, <3>2, <3>3, <3>4
  <2>5. CASE Len(page) < BatchSize
    <3>1. Pos(j) < at \/ (page # <<>> /\ j <= page[Len(page)])
      BY <1>1, <2>5 DEF PageOK
    <3> QED
      BY <2>2, <2>4, <3>1
  <2>6. ASSUME NEW p \in Stamps, p >= high PROVE Pos(j) < Past
    <3>1. PICK k \in DOMAIN page : p = log[page[k]].stamp
      BY DEF Stamps, page
    <3>2. k \in 1 .. Len(page)
      BY <1>1
    <3>3. page[k] \in DOMAIN log /\ Pos(page[k]) = p
      BY <1>3, <1>4, <3>1, <3>2
    <3>4. j <= page[k]
      <4>1. page[k] < j => Pos(page[k]) < Pos(j)
        BY <2>0, <3>3, Facts, PosGrows
      <4> QED
        BY <1>1, <1>3, <2>0, <2>1, <2>6, <3>3, <4>1
    <3>5. page # <<>> /\ Len(page) \in 1 .. Len(page) /\ 1 \in 1 .. Len(page)
      BY <1>1, <3>2
    <3>6. page[k] <= page[Len(page)]
      <4>1. page[1] \in Nat /\ page[k] = page[1] + k - 1 /\ page[Len(page)] = page[1] + Len(page) - 1
        <5>1. page[1] \in DOMAIN log
          BY <1>4, <3>5
        <5>2. page[k] = page[1] + k - 1 /\ page[Len(page)] = page[1] + Len(page) - 1
          BY <1>4, <3>2, <3>5
        <5> QED
          BY <1>3, <5>1, <5>2
      <4> QED
        BY <1>1, <3>2, <4>1
    <3>7. j <= page[Len(page)]
      BY <1>3, <1>4, <2>0, <3>3, <3>4, <3>5, <3>6
    <3> QED
      BY <2>4, <3>5, <3>7
  <2>7. CASE Inside = {} /\ ~(Len(page) < BatchSize) /\ ~\E p \in Stamps : p >= high
    <3>1. 1 \in 1 .. Len(page)
      BY <1>1, <2>7
    <3>2. page[1] \in DOMAIN log /\ at <= Pos(page[1]) /\ Pos(page[1]) = log[page[1]].stamp /\ Pos(page[1]) \in Nat
      BY <1>3, <1>4, <3>1
    <3>3. Pos(page[1]) \in Stamps
      BY <1>1, <3>1, <3>2 DEF Stamps, page
    <3>4. Pos(page[1]) < high
      BY <1>1, <2>7, <3>2, <3>3
    <3>5. Pos(page[1]) \in Inside
      BY <3>2, <3>3, <3>4 DEF Inside, at, high
    <3> QED
      BY <2>7, <3>5
  <2> QED
    BY <1>8, <2>5, <2>6, <2>7
<1> QED
  BY <1>7, <1>8 DEF page, high

LEMMA ScanNow ==
  ASSUME FeedInv, NowInv, ReceiveClock \/ ReceiveScan
  PROVE  NowInv'
<1>0. /\ read \in ReadType /\ read.pc = "sent" /\ SearchOK(read) /\ major \in Nat /\ clock \in Nat
      /\ read.now \in Nat /\ read.high \in Nat /\ "scan" \in Phases
  BY Facts DEF ReceiveClock, ReceiveScan, Received, NowInv, Asking, ReadType, TypeInv, Phases
<1>1. CASE ReceiveClock
  <2> DEFINE at == VersionstampAt(read.now)
  <2>1. /\ at \in Nat /\ at = read.now * Unit /\ at + Unit \in Nat
        /\ at <= clock * Unit
    <3>1. read.now <= clock
      BY <1>0, <1>1 DEF ReceiveClock, Received, SearchOK
    <3>2. read.now * Unit \in Nat /\ Unit \in Nat /\ read.now * Unit <= clock * Unit
      BY <1>0, <3>1, Multiples, MultiplesGrow, FeedAssumption
    <3> QED
      BY <3>2 DEF VersionstampAt
  <2>2. Then("scan", at, 0, at + Unit)
    BY <1>1 DEF ReceiveClock
  <2>3. major >= 3 /\ Older(at + Unit)
    BY <1>0, <1>1, <2>1 DEF ReceiveClock, Received, SearchOK
  <2> HIDE DEF at
  <2>4. Later(at)
    BY <2>1, <2>3 DEF Later
  <2>5. SearchOK([phase |-> "scan", at |-> at, low |-> 0, high |-> at + Unit, answered |-> FALSE])
    BY <2>3, <2>4 DEF SearchOK
  <2> QED
    BY <1>0, <2>1, <2>2, <2>5, ThenNow
<1>2. CASE ReceiveScan
  <2>0. Received("scan") /\ major >= 3 /\ Older(read.high)
    BY <1>0, <1>2 DEF ReceiveScan, Received, SearchOK
  <2>1. Past \in Nat /\ Later(Past)
    BY <1>0, <2>0, PastType, PastIs
  <2>2. CASE Then("scan", Past, 0, read.high)
    <3>1. SearchOK([phase |-> "scan", at |-> Past, low |-> 0, high |-> read.high, answered |-> FALSE])
      BY <2>0, <2>1 DEF SearchOK
    <3> QED
      BY <1>0, <2>1, <2>2, <3>1, ThenNow
  <2>3. CASE Begin(Past) /\ \/ Len(read.page) < BatchSize
                            \/ \E p \in Stamps : p >= read.high
                            \/ Inside = {}
    <3>1. Older(Past)
      BY <1>0, <2>0, <2>3, PastIs
    <3>2. Past \in Marks /\ Past # None
      BY <2>1 DEF Marks, None
    <3> QED
      BY <1>0, <2>1, <2>3, <3>1, <3>2, BeginNow
  <2> QED
    BY <1>2, <2>2, <2>3 DEF ReceiveScan
<1> QED
  BY <1>1, <1>2

LEMMA BisectNow ==
  ASSUME FeedInv, NowInv, read.pc = "sent", major < 3,
         NEW low \in Nat, NEW high \in Nat, low < high, Older(high),
         NEW i \in DOMAIN log, low <= Pos(i), Bisected(low, high)
  PROVE  NowInv'
<1>1. CASE high - low > 1 /\ Then("bisect", (low + high) \div 2, low, high)
  <2> DEFINE at == (low + high) \div 2
  <2>1. at \in Nat /\ low < at /\ at < high
    BY <1>1
  <2> HIDE DEF at
  <2>2. SearchOK([phase |-> "bisect", at |-> at, low |-> low, high |-> high, answered |-> FALSE])
    BY <2>1 DEF SearchOK
  <2>3. Then("bisect", at, low, high) /\ "bisect" \in Phases
    BY <1>1 DEF at, Phases
  <2> QED
    BY <2>1, <2>2, <2>3, ThenNow
<1>2. CASE ~(high - low > 1) /\ Begin(high)
  <2>1. high = low + 1 /\ Pos(i) \in Nat
    BY <1>2, Facts, PosType
  <2>2. Later(high)
    BY <2>1 DEF Later
  <2>3. high \in Marks /\ high # None
    BY DEF Marks, None
  <2> QED
    BY <1>2, <2>2, <2>3, BeginNow
<1> QED
  BY <1>1, <1>2 DEF Bisected

(* What a page of one entry says.                                          *)
LEMMA OneEntry ==
  ASSUME FeedInv, read.pc = "sent", read.answered, read.phase \in {"first", "double", "bisect"}
  PROVE  /\ read.page = <<>> => Older(read.at)
         /\ read.page # <<>> => \E i \in DOMAIN log : read.at <= Pos(i)
<1>1. PageOK(read.page, read.at, 1) /\ read.page \in Seq(Nat)
  BY Facts DEF ReadOK, Limit, ReadType
<1>2. CASE read.page = <<>>
  <2>1. Len(read.page) = 0
    BY <1>2
  <2> QED
    BY <1>1, <1>2, <2>1 DEF PageOK, Older
<1>3. CASE read.page # <<>>
  <2>1. 1 \in 1 .. Len(read.page)
    BY <1>1, <1>3
  <2> QED
    BY <1>1, <1>3, <2>1 DEF PageOK
<1> QED
  BY <1>2, <1>3

LEMMA CountNow ==
  ASSUME MaxClock < MaxCounter, FeedInv, NowInv, ReceiveFirst \/ ReceiveDouble \/ ReceiveBisect
  PROVE  NowInv'
<1>0. /\ read \in ReadType /\ read.pc = "sent" /\ read.answered /\ SearchOK(read) /\ major < 3
      /\ read.at \in Nat /\ read.low \in Nat /\ read.high \in Nat /\ "double" \in Phases
      /\ read.phase \in {"first", "double", "bisect"}
  BY Facts DEF ReceiveFirst, ReceiveDouble, ReceiveBisect, Received, NowInv, Asking, ReadType, SearchOK, Phases
<1>1. /\ read.page = <<>> => Older(read.at)
      /\ read.page # <<>> => \E i \in DOMAIN log : read.at <= Pos(i)
  BY <1>0, OneEntry
<1>2. \A i \in DOMAIN log : Pos(i) \in Nat /\ Pos(i) < MaxCounter
  <2> TAKE i \in DOMAIN log
  <2>1. Pos(i) \in Nat /\ Pos(i) <= clock
    BY <1>0, Facts, PosType DEF LogInv
  <2> QED
    BY <2>1, Facts, FeedAssumption DEF NowInv
<1>3. CASE ReceiveFirst
  <2>0. read.at = 0
    BY <1>0, <1>3 DEF ReceiveFirst, Received, SearchOK
  <2>1. CASE read.page = <<>> /\ Begin(0)
    <3>1. Older(0) /\ Later(0)
      BY <1>1, <2>0, <2>1 DEF Later
    <3> QED
      BY <1>0, <2>1, <3>1, BeginNow DEF Marks, None
  <2>2. CASE read.page # <<>> /\ Then("double", 1, 0, 1)
    <3>1. \E i \in DOMAIN log : 0 <= Pos(i)
      BY <1>1, <2>0, <2>2
    <3>2. SearchOK([phase |-> "double", at |-> 1, low |-> 0, high |-> 1, answered |-> FALSE])
      BY <1>0, <3>1 DEF SearchOK
    <3> QED
      BY <1>0, <2>2, <3>2, ThenNow
  <2> QED
    BY <1>3, <2>1, <2>2 DEF ReceiveFirst
<1>4. CASE ReceiveDouble
  <2>0. read.at = read.high /\ read.low < read.high /\ \E i \in DOMAIN log : read.low <= Pos(i)
    BY <1>0, <1>4 DEF ReceiveDouble, Received, SearchOK
  <2>1. CASE read.page = <<>> /\ Bisected(read.low, read.high)
    BY <1>0, <1>1, <2>0, <2>1, BisectNow
  <2>2. ASSUME read.page # <<>> PROVE ~(read.high >= MaxCounter)
    <3>1. PICK i \in DOMAIN log : read.at <= Pos(i)
      BY <1>1, <2>2
    <3> QED
      BY <1>0, <1>2, <2>0, <3>1, FeedAssumption
  <2>3. CASE read.page # <<>> /\ Then("double", Double(read.high), read.high, Double(read.high))
    <3> DEFINE d == Double(read.high)
    <3>1. d \in Nat /\ read.high < d
      BY <1>0, <2>0, <2>2, <2>3, FeedAssumption DEF Double
    <3> HIDE DEF d
    <3>2. \E i \in DOMAIN log : read.high <= Pos(i)
      BY <1>1, <2>0, <2>3
    <3>3. SearchOK([phase |-> "double", at |-> d, low |-> read.high, high |-> d, answered |-> FALSE])
      BY <1>0, <3>1, <3>2 DEF SearchOK
    <3>4. Then("double", d, read.high, d)
      BY <2>3 DEF d
    <3> QED
      BY <1>0, <3>1, <3>3, <3>4, ThenNow
  <2> QED
    BY <1>4, <2>1, <2>2, <2>3 DEF ReceiveDouble
<1>5. CASE ReceiveBisect
  <2>0. /\ read.low < read.at /\ read.at < read.high /\ Older(read.high)
        /\ \E i \in DOMAIN log : read.low <= Pos(i)
    BY <1>0, <1>5 DEF ReceiveBisect, Received, SearchOK
  <2>1. CASE read.page = <<>> /\ Bisected(read.low, read.at)
    BY <1>0, <1>1, <2>0, <2>1, BisectNow
  <2>2. CASE read.page # <<>> /\ Bisected(read.at, read.high)
    BY <1>0, <1>1, <2>0, <2>2, BisectNow
  <2> QED
    BY <1>5, <2>1, <2>2 DEF ReceiveBisect
<1> QED
  BY <1>3, <1>4, <1>5

LEMMA AnswerNow ==
  ASSUME FeedInv, NowInv, Answer
  PROVE  NowInv'
<1> DEFINE page == IF read.phase \in {"scan", "first", "double", "bisect", "poll"}
                     THEN Show(log, read.at, IF read.phase \in {"scan", "poll"} THEN BatchSize ELSE 1)
                     ELSE <<>>
           now  == IF read.phase = "clock" THEN clock ELSE 0
           r    == [read EXCEPT !.answered = TRUE, !.page = page, !.now = now]
<1>1. read.pc = "sent" /\ read' = r /\ UNCHANGED <<major, log, clock, generation, stream, seen, program>>
  BY DEF Answer
<1>2. /\ read \in ReadType /\ SearchOK(read) /\ TypeInv /\ LogInv /\ clock \in Nat /\ major \in Nat
      /\ seen.called \in Nat /\ seen.called <= Len(log)
  BY <1>1, Facts DEF NowInv, Asking, TypeInv, SeenType
<1> HIDE DEF page
<1>3. /\ r.phase = read.phase /\ r.at = read.at /\ r.low = read.low /\ r.high = read.high
      /\ r.now = now /\ r.answered
  BY <1>2 DEF ReadType
<1> HIDE DEF r
<1>4. ASSUME read.phase = "clock" PROVE r.now <= clock /\ Older(r.now * Unit + Unit)
  <2>1. r.now = clock
    BY <1>3, <1>4
  <2>2. ~(major < 3)
    BY <1>2, <1>4 DEF SearchOK
  <2>3. \A i \in 1 .. seen.called : i \in DOMAIN log
    BY <1>2, FeedIndexes
  <2>4. Older(clock * Unit + Unit)
    BY <1>2, <2>2, <2>3 DEF Older, LogInv
  <2> QED
    BY <1>2, <2>1, <2>4
<1> HIDE DEF now
<1>5. SearchOK(r)
  BY <1>2, <1>3, <1>4 DEF SearchOK
<1>6. Grows /\ log' \in Seq(EntryType)
  BY <1>1, <1>2, NoGrowth DEF TypeInv
<1>7. SearchOK(read)'
  <2>1. PICK c : c = r
    OBVIOUS
  <2>2. SearchOK(c)
    BY <1>5, <2>1
  <2>3. SearchOK(c)'
    BY <1>1, <2>2 DEF SearchOK, Older, Later, Pos, Position
  <2>4. read' = c
    BY <1>1, <2>1
  <2> QED
    BY <2>3, <2>4
<1>8. Begun'
  BY <1>1, <1>6, BegunKeeps DEF NowInv
<1> QED
  BY <1>1, <1>7, <1>8 DEF NowInv

LEMMA WorldNow ==
  ASSUME FeedInv, NowInv, Grows, log' \in Seq(EntryType), clock' \in Nat, clock <= clock',
         clock' <= MaxClock, UNCHANGED <<stream, read, seen>>
  PROVE  NowInv'
<1>1. Begun'
  BY BegunKeeps DEF NowInv
<1>2. Asking(read)' => SearchOK(read)'
  <2>1. Asking(read)' <=> Asking(read)
    BY DEF Asking
  <2>2. \A r \in ReadType : SearchOK(r) => SearchOK(r)'
    BY Facts, SearchGrows
  <2>3. SearchOK(read) => SearchOK(read)'
    BY <2>2, Facts
  <2> QED
    BY <2>1, <2>3 DEF NowInv
<1> QED
  BY <1>1, <1>2 DEF NowInv

LEMMA NowStep ==
  ASSUME MaxClock < MaxCounter, FeedInv, NowInv, [Next]_vars
  PROVE  NowInv'
<1>0. /\ stream \in StreamType /\ StreamOK(stream) /\ read \in ReadType /\ ReadOK(stream, read)
      /\ clock \in Nat /\ clock <= MaxClock /\ major \in Nat
      /\ Asking(read) => SearchOK(read)
  BY Facts DEF NowInv, TypeInv
<1>1. CASE Opened
  <2>0. read.pc = "opening" /\ ~read.answered /\ SearchOK(read) /\ UNCHANGED seen
    BY <1>0, <1>1 DEF Opened, ReadOK, Asking
  <2>1. CASE Leave(stream, "failed")
    BY <1>0, <2>0, <2>1, LeaveNow
  <2>2. CASE Wait(stream, [read EXCEPT !.pc = "sent", !.client = generation])
    <3>1. /\ stream' = stream /\ UNCHANGED <<major, log, clock, generation>>
          /\ read'.phase = read.phase /\ read'.at = read.at /\ read'.low = read.low
          /\ read'.high = read.high /\ read'.answered = read.answered /\ read'.now = read.now
      BY <1>0, <2>2 DEF Wait, ReadType
    <3>2. SearchOK(read)'
      BY <2>0, <3>1 DEF SearchOK, Older, Later, Pos, Position
    <3>3. Begun'
      BY <2>0, <3>1 DEF NowInv, Begun, Older, Later, Pos, Position
    <3> QED
      BY <1>0, <3>1, <3>2, <3>3 DEF NowInv
  <2> QED
    BY <1>1, <2>1, <2>2 DEF Opened
<1>2. CASE Drop
  <2>0. Asking(read) /\ SearchOK(read) /\ UNCHANGED seen
    BY <1>0, <1>2 DEF Drop, Asking
  <2>1. CASE Leave(stream, "outside")
    BY <1>0, <2>0, <2>1, LeaveNow
  <2>2. CASE Wait(stream, [read EXCEPT !.pc = "backoff", !.answered = FALSE,
                                       !.page = <<>>, !.now = 0])
    <3>1. /\ stream' = stream /\ UNCHANGED <<major, log, clock, generation>>
          /\ read'.phase = read.phase /\ read'.at = read.at /\ read'.low = read.low
          /\ read'.high = read.high /\ ~read'.answered
      BY <1>0, <2>2 DEF Wait, ReadType
    <3>2. SearchOK(read)'
      BY <2>0, <3>1 DEF SearchOK, Older, Later, Pos, Position
    <3>3. Begun'
      BY <2>0, <3>1 DEF NowInv, Begun, Older, Later, Pos, Position
    <3> QED
      BY <1>0, <3>1, <3>2, <3>3 DEF NowInv
  <2> QED
    BY <1>2, <2>1, <2>2 DEF Drop
<1>3. CASE Backoff
  <2>0. Attempt(stream, read) /\ UNCHANGED seen /\ SearchOK(read)
    BY <1>0, <1>3 DEF Backoff, Asking
  <2>1. /\ stream' = stream /\ UNCHANGED <<major, log, clock, generation>>
        /\ \/ ~Asking(read')
           \/ /\ read'.phase = read.phase /\ read'.at = read.at /\ read'.low = read.low
              /\ read'.high = read.high /\ ~read'.answered
    BY <1>0, <2>0, AttemptIs DEF Asking
  <2>2. Asking(read)' => SearchOK(read)'
    BY <2>0, <2>1 DEF SearchOK, Older, Later, Pos, Position, Asking
  <2>3. Begun'
    BY <2>0, <2>1 DEF NowInv, Begun, Older, Later, Pos, Position
  <2> QED
    BY <1>0, <2>1, <2>2, <2>3 DEF NowInv
<1>4. CASE Raise
  <2>1. Leave(stream, "outside") /\ UNCHANGED <<seen, program>>
    BY <1>4 DEF Raise
  <2> QED
    BY <1>0, <2>1, LeaveNow
<1>5. CASE ReceivePage
  <2> DEFINE s == Accepted(stream, read.page)
  <2>1. /\ stream.started /\ stream.pending = <<>>
        /\ PageOK(read.page, Place(stream), BatchSize) /\ read.page \in Seq(Nat) /\ BatchSize \in Nat
    BY <1>0, <1>5, FeedAssumption DEF ReceivePage, ReadOK, Asking, Limit, ReadType
  <2>2. s \in StreamType /\ StreamOK(s) /\ Moves(stream, s)
    BY <1>0, <2>1, Facts, AcceptedKeeps
  <2>3. \/ Wait(s, [Idle EXCEPT !.pc = "pausing"]) /\ UNCHANGED <<seen, program>>
        \/ Loop(s)
    BY <1>5 DEF ReceivePage
  <2> HIDE DEF s
  <2>4. s.started = stream.started /\ s.since = stream.since
    BY <1>0, <2>2 DEF Moves, StreamType
  <2>5. CASE Leave(s, "pausing") /\ UNCHANGED <<seen, program>>
    BY <2>2, <2>4, <2>5, LeaveNow
  <2>6. CASE Loop(s)
    BY <2>2, <2>4, <2>6, LoopNow
  <2> QED
    BY <2>3, <2>5, <2>6 DEF Leave
<1>6. CASE EndPause \/ Read
  BY <1>0, <1>6, LoopNow DEF EndPause, Read
<1>7. CASE Start
  BY <1>0, <1>7, StartNow DEF Start
<1>8. CASE ReceiveVersion
  <2>1. SearchOK([phase |-> "check", at |-> 0, low |-> 0, high |-> 0, answered |-> FALSE])
    BY DEF SearchOK
  <2> QED
    BY <1>8, <2>1, ThenNow DEF ReceiveVersion, Phases
<1>9. CASE ReceiveCheck
  <2>0. read.pc = "sent" /\ stream.since \in Since
    BY <1>0, <1>9 DEF ReceiveCheck, Received, StreamType
  <2>1. CASE Then("check", 0, 1, 0)
    <3>1. SearchOK([phase |-> "check", at |-> 0, low |-> 1, high |-> 0, answered |-> FALSE])
      BY DEF SearchOK
    <3> QED
      BY <2>1, <3>1, ThenNow DEF Phases
  <2>2. CASE Leave(stream, "outside") /\ UNCHANGED <<seen, program>>
    BY <1>0, <2>2, LeaveNow
  <2>3. CASE stream.since.kind = "cursor" /\ Begin(stream.since.at)
    <3>1. stream.since.at \in Marks
      BY <2>0 DEF Since, Marks
    <3> QED
      BY <2>0, <2>3, <3>1, BeginNow
  <2>4. CASE stream.since.kind = "moment"
             /\ Begin(IF major >= 3 THEN VersionstampAt(stream.since.at) ELSE None)
    <3> DEFINE c == IF major >= 3 THEN VersionstampAt(stream.since.at) ELSE None
    <3>1. c \in Marks
      <4>1. stream.since.at * Unit \in Nat
        BY <2>0, Multiples DEF Since
      <4> QED
        BY <4>1 DEF Marks, VersionstampAt
    <3> HIDE DEF c
    <3>2. Begin(c)
      BY <2>4 DEF c
    <3> QED
      BY <2>0, <2>4, <3>1, <3>2, BeginNow
  <2>5. CASE major >= 3 /\ Then("clock", 0, 0, 0)
    <3>1. ~(major < 3)
      BY <1>0, <2>5
    <3>2. SearchOK([phase |-> "clock", at |-> 0, low |-> 0, high |-> 0, answered |-> FALSE])
      BY <2>5, <3>1 DEF SearchOK
    <3> QED
      BY <2>5, <3>2, ThenNow DEF Phases
  <2>6. CASE ~(major >= 3) /\ Then("first", 0, 0, 0)
    <3>1. major < 3
      BY <1>0, <2>6
    <3>2. SearchOK([phase |-> "first", at |-> 0, low |-> 0, high |-> 0, answered |-> FALSE])
      BY <3>1 DEF SearchOK
    <3> QED
      BY <2>6, <3>2, ThenNow DEF Phases
  <2> QED
    BY <1>9, <2>1, <2>2, <2>3, <2>4, <2>5, <2>6 DEF ReceiveCheck
<1>10. CASE ReceiveClock \/ ReceiveScan
  BY <1>10, ScanNow
<1>11. CASE ReceiveFirst \/ ReceiveDouble \/ ReceiveBisect
  BY <1>11, CountNow
<1>12. CASE Answer
  BY <1>12, AnswerNow
<1>13. CASE Process \/ Save \/ Stop \/ ChangeSettings \/ UNCHANGED vars
  <2>1. /\ UNCHANGED <<major, log, clock, read, seen>>
        /\ stream' = stream \/ stream' = [stream EXCEPT !.stopped = TRUE]
    BY <1>13 DEF Process, Save, Stop, ChangeSettings, vars
  <2>2. stream'.started = stream.started /\ stream'.since = stream.since
    BY <1>0, <2>1 DEF StreamType
  <2>3. Begun' /\ (Asking(read)' => SearchOK(read)')
    BY <2>1, <2>2 DEF NowInv, Begun, Older, Later, Pos, Position, SearchOK, Asking
  <2> QED
    BY <1>0, <2>1, <2>3 DEF NowInv
<1>14. CASE Resume
  <2>1. ~stream'.started /\ read'.pc = "outside" /\ clock' = clock
    BY <1>14 DEF Resume, NoStream, Idle
  <2> QED
    BY <1>0, <2>1 DEF NowInv, Begun, Asking
<1>15. CASE Tick
  <2>1. /\ Grows /\ log' \in Seq(EntryType) /\ clock' = clock + 1 /\ UNCHANGED <<stream, read, seen>>
        /\ clock < MaxClock
    BY <1>15, TickGrows DEF Tick
  <2>2. clock' \in Nat /\ clock <= clock' /\ clock' <= MaxClock
    BY <1>0, <2>1, FeedAssumption
  <2> QED
    BY <2>1, <2>2, WorldNow
<1>16. CASE Commit
  <2>1. /\ Grows /\ log' \in Seq(EntryType) /\ UNCHANGED <<clock, stream, read, seen>>
    BY <1>16, CommitGrows
  <2> QED
    BY <1>0, <2>1, WorldNow
<1> QED
  BY <1>1, <1>2, <1>3, <1>4, <1>5, <1>6, <1>7, <1>8, <1>9, <1>10, <1>11, <1>12, <1>13, <1>14, <1>15, <1>16
     DEF Next, Reader

(* "Now" is between the call and the return of start(): no older change is *)
(* replayed, no later one missed, on either line of server and for any     *)
(* size of page, while the counter of a 2.x server has not reached         *)
(* _MAX_COUNTER (_end_of_feed_3x(), _end_of_feed_2x()).                    *)
THEOREM NowIsNow ==
  ASSUME MaxClock < MaxCounter
  PROVE  Spec => []FromNow
<1>1. Init => NowInv
  BY FeedAssumption DEF Init, NowInv, Begun, NoStream, Idle, Asking
<1>2. FeedInv /\ NowInv /\ [Next]_vars => NowInv'
  BY NowStep
<1>3. FeedInv /\ NowInv => FromNow
  <2> SUFFICES ASSUME FeedInv, NowInv, stream.started, stream.since.kind = "now",
                      NEW i \in DOMAIN log
               PROVE  /\ i <= seen.called => Position(log[i]) < seen.from
                      /\ i > seen.fixed => Position(log[i]) >= seen.from
    BY DEF FromNow
  <2>1. Older(seen.from) /\ \A j \in DOMAIN log : j > seen.fixed => seen.from <= Pos(j)
    BY DEF NowInv, Begun
  <2>2. i \in Nat /\ i >= 1 /\ Pos(i) \in Nat /\ seen.from \in Nat /\ seen.called \in Nat
    BY Facts, FeedIndexes, PosType DEF StreamOK, SeenType, Marks
  <2> QED
    BY <2>1, <2>2 DEF Older, Pos
<1> QED
  BY <1>1, <1>2, <1>3, FeedInvariant, PTL DEF Spec
-----------------------------------------------------------------------------
(***************************************************************************)
(* The reader, the program and the readers that resume implement           *)
(* OrderedFeed.                                                            *)
(***************************************************************************)
(* A reader that did not begin is nowhere in the feed.                     *)
Unbegun == ~stream.started => seen.from = None

LEMMA EntriesAre ==
  ASSUME TypeInv
  PROVE  /\ DOMAIN Entries = DOMAIN log
         /\ \A i \in DOMAIN log : Entries[i].at = Pos(i) /\ Entries[i].changes = log[i].changes
BY DEF Entries, Pos

LEMMA SameEntries ==
  ASSUME UNCHANGED <<major, log>>
  PROVE  UNCHANGED Entries
BY DEF Entries, Position

(* What the abstract reader wants is what the stream has before it.        *)
LEMMA WantedIs ==
  ASSUME TypeInv, NEW e
  PROVE  e \in Ordered!Wanted <=>
           \E i \in DOMAIN log : seen.from <= Pos(i) /\ \E k \in 1 .. log[i].changes : e = <<i, k>>
<1>1. \A i \in DOMAIN log : i \in {j \in DOMAIN Entries : seen.from <= Entries[j].at} <=> seen.from <= Pos(i)
  BY EntriesAre
<1>2. \A i \in DOMAIN log : {i} \X (1 .. Entries[i].changes) = {i} \X (1 .. log[i].changes)
  BY EntriesAre
<1>3. ASSUME NEW i \in DOMAIN log
      PROVE  e \in {i} \X (1 .. log[i].changes) <=> \E k \in 1 .. log[i].changes : e = <<i, k>>
  OBVIOUS
<1> QED
  BY <1>1, <1>2, <1>3, EntriesAre DEF Ordered!Wanted

(* The event that follows the last one is the next that is wanted.         *)
LEMMA NextWanted ==
  ASSUME TypeInv, seen.from \in Nat, NEW l \in Nat \X Nat, NEW f \in Nat \X Nat,
         EventOK(f), Follows(l, f), l = <<0, 0>> \/ EventOK(l)
  PROVE  /\ f \in Ordered!Wanted /\ Ordered!Before(l, f)
         /\ \A e \in Ordered!Wanted : Ordered!Before(l, e) => ~Ordered!Before(e, f)
<1>1. /\ f[1] \in DOMAIN log /\ f[2] \in 1 .. log[f[1]].changes /\ seen.from <= Pos(f[1])
  BY DEF EventOK
<1>2. \A i \in DOMAIN log : i \in Nat /\ i >= 1 /\ log[i].changes \in Nat
  BY FeedIndexes, PosType DEF EntryType
<1>3. f = <<f[1], f[2]>>
  OBVIOUS
<1>4. f \in Ordered!Wanted
  BY <1>1, <1>3, WantedIs
<1>5. l[1] \in Nat /\ l[2] \in Nat /\ (l[1] # 0 => l[1] \in DOMAIN log /\ l[2] \in 1 .. log[l[1]].changes)
  BY DEF EventOK
<1>6. Ordered!Before(l, f)
  BY <1>1, <1>2, <1>5 DEF Follows, Ordered!Before
<1>7. ASSUME NEW e \in Ordered!Wanted, Ordered!Before(l, e), Ordered!Before(e, f) PROVE FALSE
  <2>0. PICK i \in DOMAIN log : seen.from <= Pos(i) /\ \E k \in 1 .. log[i].changes : e = <<i, k>>
    BY WantedIs
  <2>1. PICK k \in 1 .. log[i].changes : seen.from <= Pos(i) /\ e = <<i, k>>
    BY <2>0
  <2>2. i \in Nat /\ i >= 1 /\ k \in Nat /\ k >= 1 /\ log[i].changes \in Nat /\ k <= log[i].changes /\ Pos(i) \in Nat
    BY <1>2, <2>1, PosType
  <2>3. (l[1] < i \/ (l[1] = i /\ l[2] < k)) /\ (i < f[1] \/ (i = f[1] /\ k < f[2]))
    BY <1>7, <2>1 DEF Ordered!Before
  <2>4. CASE l[1] # 0 /\ l[2] < log[l[1]].changes
    BY <1>2, <1>5, <2>2, <2>3, <2>4 DEF Follows
  <2>5. CASE ~(l[1] # 0 /\ l[2] < log[l[1]].changes)
    <3>1. /\ f[2] = 1 /\ f[1] > l[1]
          /\ \A j \in l[1] + 1 .. f[1] - 1 : log[j].changes = 0 \/ Position(log[j]) < seen.from
      BY <2>5 DEF Follows
    <3>2. l[1] < i /\ i < f[1]
      BY <1>1, <1>2, <1>5, <2>2, <2>3, <2>5, <3>1
    <3>3. i \in l[1] + 1 .. f[1] - 1
      BY <1>1, <1>2, <1>5, <2>2, <3>2
    <3>4. Position(log[i]) < seen.from /\ Position(log[i]) = Pos(i)
      BY <2>2, <3>1, <3>3 DEF Pos
    <3> QED
      BY <2>1, <2>2, <3>4
  <2> QED
    BY <2>4, <2>5
<1> QED
  BY <1>4, <1>6, <1>7

(* A cursor that is past what was handed out.                              *)
LEMMA SplitsExactly ==
  ASSUME TypeInv, NEW p \in Nat, Splits(p, seen.last), seen.last \in Nat \X Nat,
         seen.last = <<0, 0>> \/ EventOK(seen.last)
  PROVE  Ordered!Exact(p)
<1> SUFFICES ASSUME NEW i \in DOMAIN Entries, Entries[i].changes > 0, seen.from <= Entries[i].at
             PROVE  Entries[i].at < p <=> ~Ordered!Before(seen.last, <<i, Entries[i].changes>>)
  BY DEF Ordered!Exact
<1> DEFINE l == seen.last
           n == log[i].changes
<1>1. i \in DOMAIN log /\ Entries[i].at = Pos(i) /\ Entries[i].changes = n
  BY EntriesAre
<1>2. i \in Nat /\ i >= 1 /\ n \in Nat
  BY <1>1, FeedIndexes, PosType DEF EntryType
<1>3. Pos(i) < p <=> i < l[1] \/ l = <<i, n>>
  BY <1>1 DEF Splits, Carries
<1>4. l = <<l[1], l[2]>> /\ l[1] \in Nat /\ l[2] \in Nat
  OBVIOUS
<1>5. l[1] = i => l[2] <= n
  BY <1>1, <1>2 DEF EventOK
<1> HIDE DEF n, l
<1>6. Ordered!Before(l, <<i, n>>) <=> l[1] < i \/ (l[1] = i /\ l[2] < n)
  BY DEF Ordered!Before
<1> QED
  BY <1>1, <1>2, <1>3, <1>4, <1>5, <1>6 DEF l

(* A step that hands out, processes, saves and begins nothing.             *)
Uneventful ==
  /\ UNCHANGED <<major, log, program>>
  /\ seen'.from = seen.from /\ seen'.last = seen.last /\ stream'.started = stream.started

Promised == Unbegun' /\ (Ordered!Next \/ UNCHANGED Ordered!vars)

LEMMA UneventfulPromised == ASSUME Unbegun, Uneventful PROVE Promised
<1>1. UNCHANGED Entries
  BY SameEntries DEF Uneventful
<1>2. UNCHANGED Ordered!vars
  BY <1>1 DEF Uneventful, Ordered!vars
<1>3. Unbegun'
  BY DEF Uneventful, Unbegun
<1> QED
  BY <1>2, <1>3 DEF Promised

LEMMA AttemptStays == ASSUME NEW s, NEW r, Attempt(s, r) PROVE stream' = s /\ UNCHANGED <<major, log>>
BY DEF Attempt, Leave, Wait

(* An event is handed out.                                                 *)
LEMMA YieldPromised ==
  ASSUME FeedInv, Unbegun, ~program.hand,
         NEW s \in StreamType, StreamOK(s), s.started = stream.started, s.pending # <<>>, Yield(s)
  PROVE  Promised
<1> DEFINE f == Event(Head(s.pending))
<1>0. /\ TypeInv /\ LogInv /\ seen \in SeenType /\ program \in ProgramType
  BY Facts
<1>1. s.started
  BY DEF StreamOK
<1>2. EventOK(f) /\ Follows(seen.last, f) /\ f \in Nat \X Nat
  BY <1>0, <1>1, NextHanded
<1>3. /\ seen.from # None /\ seen.from \in Nat /\ seen.last \in Nat \X Nat
      /\ seen.last = <<0, 0>> \/ EventOK(seen.last)
  BY <1>0, <1>1 DEF StreamOK, SeenType, Marks
<1>4. /\ UNCHANGED <<major, log>> /\ seen' = [seen EXCEPT !.last = f]
      /\ program' = [program EXCEPT !.hand = TRUE]
      /\ stream' = [s EXCEPT !.pending = Tail(@), !.cursor = Adopt(@, Head(s.pending).after)]
  BY DEF Yield, Leave, Wait, Event
<1>5. stream'.started /\ stream.started
  BY <1>1, <1>4 DEF StreamType
<1> HIDE DEF f
<1>6. /\ seen'.last = f /\ seen'.from = seen.from
      /\ program'.hand /\ program'.processed = program.processed
      /\ program'.origin = program.origin /\ program'.saved = program.saved
  BY <1>0, <1>4 DEF SeenType, ProgramType
<1>7. /\ f \in Ordered!Wanted /\ Ordered!Before(seen.last, f)
      /\ \A e \in Ordered!Wanted : Ordered!Before(seen.last, e) => ~Ordered!Before(e, f)
  BY <1>0, <1>2, <1>3, NextWanted
<1>8. UNCHANGED Entries
  BY <1>4, SameEntries
<1>9. Ordered!HandOut
  BY <1>3, <1>6, <1>7, <1>8 DEF Ordered!HandOut
<1> QED
  BY <1>5, <1>9 DEF Promised, Unbegun, Ordered!Next

(* The top of the loop of __anext__(), with the stream as it is by then.   *)
LEMMA LoopPromised ==
  ASSUME FeedInv, Unbegun, ~program.hand,
         NEW s \in StreamType, StreamOK(s), s.started = stream.started, Loop(s)
  PROVE  Promised
<1>0. seen \in SeenType
  BY Facts
<1>1. ASSUME NEW pc, Leave(s, pc) /\ UNCHANGED <<seen, program>> PROVE Promised
  BY <1>1, UneventfulPromised DEF Leave, Wait, Uneventful
<1>2. CASE s.pending # <<>> /\ Yield(s)
  BY <1>2, YieldPromised
<1>3. CASE BeginStart(s, "read")
  <2>1. PICK b : b = [s EXCEPT !.bound = IF @ = None THEN generation ELSE @]
    OBVIOUS
  <2>2. stream' = b /\ UNCHANGED <<major, log>>
    BY <1>3, <2>1, AttemptStays DEF BeginStart, Ask
  <2>3. seen' = [seen EXCEPT !.called = Len(log)] /\ UNCHANGED program
    BY <1>3 DEF BeginStart
  <2>4. b.started = s.started
    BY <2>1 DEF StreamType
  <2>5. seen'.from = seen.from /\ seen'.last = seen.last
    BY <1>0, <2>3 DEF SeenType
  <2> QED
    BY <2>2, <2>3, <2>4, <2>5, UneventfulPromised DEF Uneventful
<1>4. CASE Poll(s) /\ UNCHANGED <<seen, program>>
  <2>1. stream' = s /\ UNCHANGED <<major, log>>
    BY <1>4, AttemptStays DEF Poll, Ask
  <2> QED
    BY <1>4, <2>1, UneventfulPromised DEF Uneventful
<1> QED
  BY <1>1, <1>2, <1>3, <1>4 DEF Loop

(* The stream has its position.                                            *)
LEMMA BeginPromised ==
  ASSUME FeedInv, Unbegun, read.pc = "sent", read.phase # "poll",
         NEW cursor \in Marks, Begin(cursor),
         program.saved # None => cursor = program.saved
  PROVE  Promised
<1> DEFINE p == IF cursor = None THEN 0 ELSE cursor
           s == [stream EXCEPT !.started = TRUE, !.cursor = cursor]
<1>1. /\ IF read.mode = "start" THEN Leave(s, "outside") ELSE Poll(s)
      /\ seen' = [seen EXCEPT !.from = p, !.fixed = Len(log)]
      /\ program' = IF program.saved = None THEN [program EXCEPT !.origin = p] ELSE program
  BY DEF Begin
<1>2. seen.from = None /\ seen \in SeenType /\ program \in ProgramType /\ stream \in StreamType
  BY Facts DEF ReadOK, Asking, Unbegun
<1>3. p \in Nat /\ (program.saved # None => p = program.saved) /\ s.started
  BY <1>2 DEF Marks, StreamType
<1> HIDE DEF p, s
<1>4. stream' = s /\ UNCHANGED <<major, log>>
  <2>1. CASE Leave(s, "outside")
    BY <2>1 DEF Leave, Wait
  <2>2. CASE Poll(s)
    BY <2>2, AttemptStays DEF Poll, Ask
  <2> QED
    BY <1>1, <2>1, <2>2
<1>5. /\ seen'.from = p /\ seen'.last = seen.last
      /\ program'.hand = program.hand /\ program'.processed = program.processed
      /\ program'.saved = program.saved
      /\ program'.origin = IF program.saved = None THEN p ELSE program.origin
  BY <1>1, <1>2 DEF SeenType, ProgramType
<1>6. UNCHANGED Entries
  BY <1>4, SameEntries
<1>7. Ordered!Begin
  BY <1>2, <1>3, <1>5, <1>6 DEF Ordered!Begin
<1> QED
  BY <1>3, <1>4, <1>7 DEF Promised, Unbegun, Ordered!Next

LEMMA ThenPromised ==
  ASSUME Unbegun, NEW phase, NEW at, NEW low, NEW high, Then(phase, at, low, high)
  PROVE  Promised
BY AttemptStays, UneventfulPromised DEF Then, Ask, Uneventful

(* The answers of the search for the start.                                *)
LEMMA StartPromised ==
  ASSUME FeedInv, Unbegun,
         \/ ReceiveVersion \/ ReceiveCheck \/ ReceiveClock \/ ReceiveScan
         \/ ReceiveFirst \/ ReceiveDouble \/ ReceiveBisect
  PROVE  Promised
<1>0. /\ read.pc = "sent" /\ read.phase # "poll" /\ stream \in StreamType /\ stream.since \in Since
      /\ read.at \in Nat /\ read.high \in Nat
  BY Facts DEF ReceiveVersion, ReceiveCheck, ReceiveClock, ReceiveScan, ReceiveFirst, ReceiveDouble,
               ReceiveBisect, Received, StreamType, ReadType
<1>1. program.saved # None => stream.since.kind = "cursor" /\ stream.since.at = program.saved
  BY <1>0, Facts DEF ReadOK, Asking, ProgramOK
<1>2. ASSUME NEW c \in Marks, Begin(c), program.saved # None => c = program.saved PROVE Promised
  BY <1>0, <1>2, BeginPromised
<1>3. ASSUME NEW phase, NEW at, NEW low, NEW high, Then(phase, at, low, high) PROVE Promised
  BY <1>3, ThenPromised
<1>4. CASE ReceiveVersion
  BY <1>3, <1>4 DEF ReceiveVersion
<1>5. CASE ReceiveCheck
  <2>1. CASE Then("check", 0, 1, 0) \/ Then("clock", 0, 0, 0) \/ Then("first", 0, 0, 0)
    BY <1>3, <2>1
  <2>2. CASE Leave(stream, "outside") /\ UNCHANGED <<seen, program>>
    BY <2>2, UneventfulPromised DEF Leave, Wait, Uneventful
  <2>3. CASE stream.since.kind = "cursor" /\ Begin(stream.since.at)
    BY <1>0, <1>1, <1>2, <2>3 DEF Since, Marks
  <2>4. CASE stream.since.kind = "moment"
             /\ Begin(IF major >= 3 THEN VersionstampAt(stream.since.at) ELSE None)
    <3>1. VersionstampAt(stream.since.at) \in Nat
      BY <1>0, Multiples DEF Since, VersionstampAt
    <3>2. program.saved = None
      BY <1>1, <2>4
    <3> QED
      BY <1>2, <2>4, <3>1, <3>2 DEF Marks
  <2> QED
    BY <1>5, <2>1, <2>2, <2>3, <2>4 DEF ReceiveCheck
<1>6. CASE ReceiveClock
  BY <1>3, <1>6 DEF ReceiveClock
<1>7. ASSUME read.phase \notin {"version", "check"}, NEW c \in Nat, Begin(c) PROVE Promised
  <2>1. program.saved = None
    BY <1>0, <1>1, <1>7, Facts DEF ReadOK, Asking
  <2> QED
    BY <1>2, <1>7, <2>1 DEF Marks
<1>8. ASSUME read.phase \notin {"version", "check"}, NEW low, NEW high \in Nat, Bisected(low, high)
      PROVE  Promised
  BY <1>3, <1>7, <1>8 DEF Bisected
<1>9. CASE ReceiveScan
  <2>1. Past \in Nat
    BY <1>9, PastType DEF ReceiveScan
  <2> QED
    BY <1>3, <1>7, <1>9, <2>1 DEF ReceiveScan, Received
<1>10. CASE ReceiveFirst
  BY <1>3, <1>7, <1>10 DEF ReceiveFirst, Received
<1>11. CASE ReceiveDouble
  BY <1>0, <1>3, <1>7, <1>8, <1>11 DEF ReceiveDouble, Received
<1>12. CASE ReceiveBisect
  BY <1>0, <1>8, <1>12 DEF ReceiveBisect, Received
<1> QED
  BY <1>4, <1>5, <1>6, <1>9, <1>10, <1>11, <1>12

LEMMA LenIs ==
  ASSUME NEW s, NEW n \in Nat, DOMAIN s = 1 .. n
  PROVE  Len(s) = n
OBVIOUS

(* A transaction commits where no cursor that moved on is past it.         *)
LEMMA CommitPromised ==
  ASSUME FeedInv, Unbegun, Commit
  PROVE  Promised
<1>0. PICK m \in Nat : m = Len(log) + 1
  BY Facts
<1>1. /\ TypeInv /\ LogInv /\ LogInv' /\ ProgramOK /\ program \in ProgramType
      /\ Grows /\ log' \in Seq(EntryType)
      /\ UNCHANGED <<major, clock, generation, stream, read, seen, program>>
  BY Facts, CommitGrows
<1>2. Len(log) \in Nat /\ Len(log') = m /\ DOMAIN log = 1 .. Len(log) /\ DOMAIN log' = 1 .. m
  BY <1>0, <1>1, CommitIs, FeedIndexes
<1>3. /\ DOMAIN Entries = DOMAIN log /\ DOMAIN Entries' = DOMAIN log'
      /\ \A i \in DOMAIN log : Entries[i] = [at |-> Pos(i), changes |-> log[i].changes]
      /\ \A i \in DOMAIN log' : Entries'[i] = [at |-> Pos(i)', changes |-> log'[i].changes]
  BY DEF Entries, Pos
<1>4. \A i \in DOMAIN log : /\ i \in DOMAIN log' /\ i < m /\ Entries'[i] = Entries[i]
                            /\ Entries[i].at < Entries'[m].at
  <2> SUFFICES ASSUME NEW i \in DOMAIN log
               PROVE  /\ i \in DOMAIN log' /\ i < m /\ Entries'[i] = Entries[i]
                      /\ Entries[i].at < Entries'[m].at
    OBVIOUS
  <2>1. i \in DOMAIN log' /\ m \in DOMAIN log' /\ i < m
    BY <1>0, <1>2
  <2>2. log'[i] = log[i] /\ Pos(i)' = Pos(i)
    BY <1>1, GrownFeed
  <2>3. Pos(i)' < Pos(m)'
    BY <1>1, <2>1 DEF LogInv
  <2> QED
    BY <1>3, <2>1, <2>2, <2>3
<1>5. program.saved = None \/ program.saved <= program.origin \/ program.saved <= Entries'[m].at
  <2> SUFFICES ASSUME program.saved # None, Later(program.saved)
               PROVE  program.saved <= Entries'[m].at
    BY <1>1 DEF ProgramOK, Settles
  <2>1. program.saved \in Nat
    BY <1>1 DEF ProgramType, Marks
  <2>2. m \in DOMAIN log' \ DOMAIN log
    BY <1>0, <1>2
  <2> QED
    BY <1>1, <1>3, <2>1, <2>2 DEF Grows
<1>6. Len(Entries) = Len(log) /\ Len(Entries') = m
  <2>1. Len(Entries) = Len(log)
    BY <1>2, <1>3, LenIs
  <2>2. Len(Entries') = Len(log')
    BY <1>0, <1>2, <1>3, LenIs
  <2> QED
    BY <1>2, <2>1, <2>2
<1>7. Ordered!Grow
  BY <1>0, <1>1, <1>2, <1>3, <1>4, <1>5, <1>6 DEF Ordered!Grow
<1> QED
  BY <1>1, <1>7 DEF Promised, Unbegun, Ordered!Next

LEMMA OrderedStep ==
  ASSUME FeedInv, Unbegun, [Next]_vars
  PROVE  Promised
<1>0. /\ TypeInv /\ LogInv /\ seen \in SeenType /\ program \in ProgramType
      /\ stream \in StreamType /\ StreamOK(stream)
      /\ read \in ReadType /\ ReadOK(stream, read) /\ ProgramOK
  BY Facts
<1>1. CASE \/ ReceiveVersion \/ ReceiveCheck \/ ReceiveClock \/ ReceiveScan
           \/ ReceiveFirst \/ ReceiveDouble \/ ReceiveBisect
  BY <1>1, StartPromised
<1>2. CASE Opened \/ Drop \/ Backoff \/ Raise
  <2>1. stream' = stream /\ UNCHANGED <<major, log, seen, program>>
    BY <1>2, AttemptStays DEF Opened, Drop, Backoff, Raise, Leave, Wait
  <2> QED
    BY <2>1, UneventfulPromised DEF Uneventful
<1>3. CASE ReceivePage
  <2> DEFINE s == Accepted(stream, read.page)
  <2>1. /\ stream.started /\ stream.pending = <<>> /\ ~program.hand
        /\ PageOK(read.page, Place(stream), BatchSize) /\ read.page \in Seq(Nat) /\ BatchSize \in Nat
    BY <1>0, <1>3, FeedAssumption DEF ReceivePage, ReadOK, Asking, Limit, ReadType
  <2>2. s \in StreamType /\ Moves(stream, s) /\ StreamOK(s)
    BY <1>0, <2>1, AcceptedKeeps
  <2>3. \/ Wait(s, [Idle EXCEPT !.pc = "pausing"]) /\ UNCHANGED <<seen, program>>
        \/ Loop(s)
    BY <1>3 DEF ReceivePage
  <2> HIDE DEF s
  <2>4. s.started = stream.started
    BY <1>0, <2>2 DEF Moves, StreamType
  <2>5. CASE Wait(s, [Idle EXCEPT !.pc = "pausing"]) /\ UNCHANGED <<seen, program>>
    BY <2>4, <2>5, UneventfulPromised DEF Wait, Uneventful
  <2> QED
    BY <2>1, <2>2, <2>3, <2>4, <2>5, LoopPromised
<1>4. CASE EndPause \/ Read
  <2>1. Loop(stream) /\ ~program.hand
    BY <1>0, <1>4 DEF EndPause, Read, ReadOK
  <2> QED
    BY <1>0, <2>1, LoopPromised
<1>5. CASE Start
  <2>1. Loop(stream) \/ BeginStart(stream, "start")
    BY <1>5 DEF Start
  <2>2. PICK b : b = [stream EXCEPT !.bound = IF @ = None THEN generation ELSE @]
    OBVIOUS
  <2>3. stream' = b /\ UNCHANGED <<major, log>>
    BY <1>5, <2>2, AttemptStays DEF Start, BeginStart, Ask
  <2>4. seen' = [seen EXCEPT !.called = Len(log)] /\ UNCHANGED program
    BY <1>5 DEF Start, BeginStart
  <2>5. b.started = stream.started /\ seen'.from = seen.from /\ seen'.last = seen.last
    BY <1>0, <2>2, <2>4 DEF StreamType, SeenType
  <2> QED
    BY <2>3, <2>4, <2>5, UneventfulPromised DEF Uneventful
<1>6. CASE Answer \/ Tick \/ ChangeSettings \/ Stop \/ UNCHANGED vars
  <2>1. UNCHANGED <<major, log, seen, program>>
    BY <1>6 DEF Answer, Tick, ChangeSettings, Stop, vars
  <2>2. stream' = stream \/ stream' = [stream EXCEPT !.stopped = TRUE]
    BY <1>6 DEF Answer, Tick, ChangeSettings, Stop, vars
  <2>3. stream'.started = stream.started
    BY <1>0, <2>2 DEF StreamType
  <2> QED
    BY <2>1, <2>3, UneventfulPromised DEF Uneventful
<1>7. CASE Process
  <2>1. /\ program.hand /\ UNCHANGED <<major, log, stream, seen>>
        /\ program' = [program EXCEPT !.hand = FALSE, !.processed = @ \cup {seen.last}]
    BY <1>7 DEF Process
  <2>2. /\ ~program'.hand /\ program'.processed = program.processed \cup {seen.last}
        /\ program'.origin = program.origin /\ program'.saved = program.saved
    BY <1>0, <2>1 DEF ProgramType
  <2>3. UNCHANGED Entries
    BY <2>1, SameEntries
  <2>4. Ordered!Process
    BY <2>1, <2>2, <2>3 DEF Ordered!Process
  <2> QED
    BY <2>1, <2>4 DEF Promised, Unbegun, Ordered!Next
<1>8. CASE Save
  <2>1. /\ ~program.hand /\ stream.started /\ stream.cursor # None
        /\ UNCHANGED <<major, log, stream, seen>>
        /\ program' = [program EXCEPT !.saved = stream.cursor]
    BY <1>8 DEF Save
  <2>2. /\ program'.hand = program.hand /\ program'.processed = program.processed
        /\ program'.origin = program.origin /\ program'.saved = stream.cursor
    BY <1>0, <2>1 DEF ProgramType
  <2>3. /\ stream.cursor \in Nat /\ seen.from # None /\ seen.from <= stream.cursor
        /\ Splits(stream.cursor, seen.last) /\ seen.last \in Nat \X Nat
        /\ seen.last = <<0, 0>> \/ EventOK(seen.last)
    BY <1>0, <2>1 DEF StreamOK, Place, StreamType, SeenType, Marks
  <2>4. Ordered!Exact(stream.cursor)
    BY <1>0, <2>3, SplitsExactly
  <2>5. UNCHANGED Entries
    BY <2>1, SameEntries
  <2>6. Ordered!Save
    BY <2>1, <2>2, <2>3, <2>4, <2>5 DEF Ordered!Save
  <2> QED
    BY <2>1, <2>6 DEF Promised, Unbegun, Ordered!Next
<1>9. CASE Resume
  <2>1. /\ UNCHANGED <<major, log>> /\ seen' = NothingSeen
        /\ program' = [program EXCEPT !.hand = FALSE, !.streams = @ + 1]
    BY <1>9 DEF Resume
  <2>2. /\ ~program'.hand /\ program'.processed = program.processed
        /\ program'.origin = program.origin /\ program'.saved = program.saved
    BY <1>0, <2>1 DEF ProgramType
  <2>3. seen'.from = None /\ seen'.last = <<0, 0>>
    BY <2>1 DEF NothingSeen
  <2>4. UNCHANGED Entries
    BY <2>1, SameEntries
  <2>5. Ordered!Restart
    BY <2>2, <2>3, <2>4 DEF Ordered!Restart, Ordered!Nothing
  <2> QED
    BY <2>3, <2>5 DEF Promised, Unbegun, Ordered!Next
<1>10. CASE Commit
  BY <1>10, CommitPromised
<1> QED
  BY <1>1, <1>2, <1>3, <1>4, <1>5, <1>6, <1>7, <1>8, <1>9, <1>10 DEF Next, Reader

LEMMA OrderedInit == Init => Unbegun /\ Ordered!Init
<1> SUFFICES ASSUME Init PROVE Unbegun /\ Ordered!Init
  OBVIOUS
<1>1. /\ log = <<>> /\ seen.from = None /\ seen.last = <<0, 0>>
      /\ program.processed = {} /\ ~program.hand /\ program.origin = None /\ program.saved = None
  BY DEF Init, NothingSeen
<1>2. Entries = <<>>
  BY <1>1 DEF Entries
<1> QED
  BY <1>1, <1>2 DEF Unbegun, Ordered!Init, Ordered!Nothing

(* The reader, the program and the readers that resume keep the promise of *)
(* OrderedFeed, for any feed, size of page and number of crashes, restarts,*)
(* stops, drops and cancelled reads: the changes come one by one from the  *)
(* start on, a saved cursor is past exactly what was handed out, a reader  *)
(* begins at the cursor that was saved (ChangeModelStream).                *)
THEOREM FeedIsOrdered == Spec => ImplementsOrderedFeed
<1>1. Init => Unbegun /\ Ordered!Init
  BY OrderedInit
<1>2. FeedInv /\ Unbegun /\ [Next]_vars => Unbegun' /\ [Ordered!Next]_(Ordered!vars)
  BY OrderedStep DEF Promised
<1> QED
  BY <1>1, <1>2, FeedInvariant, PTL DEF Spec, ImplementsOrderedFeed, Ordered!Spec
=============================================================================
