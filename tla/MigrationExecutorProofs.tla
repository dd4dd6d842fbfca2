----------------------- MODULE MigrationExecutorProofs -----------------------
(***************************************************************************)
(* What calls of migrate() and rollback() claim, and the history they      *)
(* leave, for any files, processes, calls and faults.  A history stays     *)
(* closed because the files come in an order that puts each after its      *)
(* dependencies, which is the first part; the invariant is the second.     *)
(***************************************************************************)
EXTENDS MigrationExecutor, FiniteSetTheorems, SequenceTheorems, WellFoundedInduction, TLAPS

-----------------------------------------------------------------------------
(***************************************************************************)
(* Recursion over a number, and induction by the least counterexample.     *)
(***************************************************************************)
LEMMA LeastNumber ==
  ASSUME NEW T \in SUBSET Nat, T # {}
  PROVE  \E x \in T : \A y \in T : x <= y
<1>1. \E x \in T : \A y \in T : <<y, x>> \notin OpToRel(<, Nat)
  BY NatLessThanWellFounded, WFMin, Zenon
<1>2. PICK x \in T : \A y \in T : <<y, x>> \notin OpToRel(<, Nat)
  BY <1>1
<1>3. \A y \in T : ~(y < x)
  BY <1>2 DEF OpToRel
<1> QED
  BY <1>3

LEMMA MinIs ==
  ASSUME NEW T \in SUBSET Nat, T # {}
  PROVE  Min(T) \in T
BY LeastNumber DEF Min

(* A set of numbers that has 0, and the next of each, up to n.             *)
LEMMA UpTo ==
  ASSUME NEW n \in Nat, NEW T, 0 \in T, \A k \in 1 .. n : k - 1 \in T => k \in T
  PROVE  \A k \in 0 .. n : k \in T
<1> DEFINE U == {k \in 0 .. n : k \notin T}
<1>1. ASSUME U # {} PROVE FALSE
  <2>1. U \in SUBSET Nat
    OBVIOUS
  <2>2. PICK k \in U : \A j \in U : k <= j
    <3> HIDE DEF U
    <3> QED
      BY <1>1, <2>1, LeastNumber
  <2>3. k \in 0 .. n /\ k \notin T
    OBVIOUS
  <2>4. k # 0
    BY <2>3
  <2>5. k \in 1 .. n /\ k - 1 \in 0 .. n /\ k - 1 < k
    BY <2>3, <2>4
  <2>6. k - 1 \notin U
    BY <2>2, <2>5
  <2> QED
    BY <2>3, <2>5, <2>6
<1> QED
  BY <1>1

(* A function given by what it is at 0, and at k from what it is at k - 1. *)
Recursion(f, A, base, step, n) ==
  f \in [0 .. n -> A] /\ f[0] = base /\ \A k \in 1 .. n : f[k] = step[<<f[k - 1], k>>]

LEMMA Recursive ==
  ASSUME NEW A, NEW base \in A, NEW n \in Nat, NEW step \in [A \X (1 .. n) -> A]
  PROVE  \E f : Recursion(f, A, base, step, n)
<1> DEFINE T == {m \in 0 .. n : \E f : Recursion(f, A, base, step, m)}
<1>1. 0 \in T
  <2> DEFINE f == [k \in 0 .. 0 |-> base]
  <2>1. f \in [0 .. 0 -> A] /\ f[0] = base
    OBVIOUS
  <2>2. 1 .. 0 = {}
    OBVIOUS
  <2> HIDE DEF f
  <2>3. Recursion(f, A, base, step, 0)
    BY <2>1, <2>2 DEF Recursion
  <2> QED
    BY <2>3
<1>2. ASSUME NEW m \in 1 .. n, m - 1 \in T
      PROVE  m \in T
  <2>1. PICK f : Recursion(f, A, base, step, m - 1)
    BY <1>2
  <2>2. f \in [0 .. m - 1 -> A] /\ f[0] = base /\ \A k \in 1 .. m - 1 : f[k] = step[<<f[k - 1], k>>]
    BY <2>1 DEF Recursion
  <2>3. f[m - 1] \in A
    BY <2>2
  <2>4. step[<<f[m - 1], m>>] \in A
    BY <2>3
  <2> DEFINE next == step[<<f[m - 1], m>>]
             g == [k \in 0 .. m |-> IF k = m THEN next ELSE f[k]]
  <2>5. next \in A
    BY <2>4
  <2> HIDE DEF next
  <2>6. \A k \in 0 .. m - 1 : k # m /\ k \in 0 .. m /\ f[k] \in A
    BY <2>2
  <2>7. \A k \in 0 .. m : k = m \/ k \in 0 .. m - 1
    OBVIOUS
  <2>8. g \in [0 .. m -> A] /\ g[m] = next /\ \A k \in 0 .. m - 1 : g[k] = f[k]
    BY <2>5, <2>6, <2>7
  <2> HIDE DEF g
  <2>9. g[0] = base
    BY <2>2, <2>8
  <2>10. \A k \in 1 .. m : g[k] = step[<<g[k - 1], k>>]
    <3> TAKE k \in 1 .. m
    <3>1. CASE k = m
      BY <2>8, <3>1 DEF next
    <3>2. CASE k # m
      <4>1. k \in 1 .. m - 1 /\ k \in 0 .. m - 1 /\ k - 1 \in 0 .. m - 1
        BY <3>2
      <4> QED
        BY <2>2, <2>8, <4>1
    <3> QED
      BY <3>1, <3>2
  <2>11. Recursion(g, A, base, step, m)
    BY <2>8, <2>9, <2>10 DEF Recursion
  <2> QED
    BY <2>11
<1> HIDE DEF T
<1>3. \A k \in 0 .. n : k \in T
  BY <1>1, <1>2, UpTo
<1>4. n \in T
  BY <1>3
<1> QED
  BY <1>4 DEF T

-----------------------------------------------------------------------------
(***************************************************************************)
(* The files of a sequence that are in a set, and the order of the files.  *)
(***************************************************************************)
Taken(f, s, S) ==
  /\ f \in [0 .. Len(s) -> Seq(Migrations)] /\ f[0] = << >>
  /\ \A k \in 1 .. Len(s) : f[k] = IF s[k] \in S THEN Append(f[k - 1], s[k]) ELSE f[k - 1]

LEMMA AmongIsTaken ==
  ASSUME NEW s \in Seq(Migrations), NEW S
  PROVE  \E f : Taken(f, s, S) /\ Among(s, S) = f[Len(s)]
<1> DEFINE n == Len(s)
           A == Seq(Migrations)
           step == [x \in A \X (1 .. n) |-> IF s[x[2]] \in S THEN Append(x[1], s[x[2]]) ELSE x[1]]
           c == CHOOSE g : g = [k \in 0 .. n |-> IF k = 0 THEN << >>
                                                 ELSE IF s[k] \in S THEN Append(g[k - 1], s[k]) ELSE g[k - 1]]
<1>1. n \in Nat /\ << >> \in A /\ \A k \in 1 .. n : s[k] \in Migrations
  OBVIOUS
<1>2. step \in [A \X (1 .. n) -> A]
  <2>1. \A y \in A, k \in 1 .. n : Append(y, s[k]) \in A
    BY <1>1
  <2> HIDE DEF A
  <2> QED
    BY <2>1
<1>3. \A y \in A, k \in 1 .. n : step[<<y, k>>] = IF s[k] \in S THEN Append(y, s[k]) ELSE y
  OBVIOUS
<1> HIDE DEF step
<1>4. PICK f : Recursion(f, A, << >>, step, n)
  <2> HIDE DEF A, n
  <2> QED
    BY <1>1, <1>2, Recursive
<1>5. Taken(f, s, S)
  <2>1. /\ f \in [0 .. n -> A] /\ f[0] = << >>
        /\ \A k \in 1 .. n : f[k] = step[<<f[k - 1], k>>]
    BY <1>4 DEF Recursion
  <2>2. \A k \in 1 .. n : f[k - 1] \in A
    <3>1. \A k \in 1 .. n : k - 1 \in 0 .. n
      BY <1>1
    <3> HIDE DEF A
    <3> QED
      BY <2>1, <3>1
  <2>3. \A k \in 1 .. n : f[k] = IF s[k] \in S THEN Append(f[k - 1], s[k]) ELSE f[k - 1]
    <3> HIDE DEF A
    <3> QED
      BY <1>3, <2>1, <2>2
  <2> QED
    BY <2>1, <2>3 DEF Taken
<1>6. f = [k \in 0 .. n |-> IF k = 0 THEN << >>
                            ELSE IF s[k] \in S THEN Append(f[k - 1], s[k]) ELSE f[k - 1]]
  <2>1. f = [k \in 0 .. n |-> f[k]]
    BY <1>5 DEF Taken
  <2>2. \A k \in 0 .. n : f[k] = IF k = 0 THEN << >>
                                 ELSE IF s[k] \in S THEN Append(f[k - 1], s[k]) ELSE f[k - 1]
    <3>1. \A k \in 0 .. n : k = 0 \/ k \in 1 .. n
      BY <1>1
    <3> QED
      BY <1>5, <3>1 DEF Taken
  <2> QED
    BY <2>1, <2>2
<1>7. c = [k \in 0 .. n |-> IF k = 0 THEN << >>
                            ELSE IF s[k] \in S THEN Append(c[k - 1], s[k]) ELSE c[k - 1]]
  BY <1>6
<1>8. Among(s, S) = c[n]
  BY DEF Among
<1> HIDE DEF c
<1>9. \A k \in 0 .. n : k \in {j \in 0 .. n : c[j] = f[j]}
  <2> DEFINE T == {j \in 0 .. n : c[j] = f[j]}
  <2>1. 0 \in T
    BY <1>1, <1>6, <1>7
  <2>2. ASSUME NEW k \in 1 .. n, k - 1 \in T
        PROVE  k \in T
    <3>1. k \in 0 .. n /\ k # 0 /\ c[k - 1] = f[k - 1]
      BY <1>1, <2>2
    <3>2. c[k] = IF s[k] \in S THEN Append(c[k - 1], s[k]) ELSE c[k - 1]
      BY <1>7, <3>1
    <3>3. f[k] = IF s[k] \in S THEN Append(f[k - 1], s[k]) ELSE f[k - 1]
      BY <1>6, <3>1
    <3> QED
      BY <3>1, <3>2, <3>3
  <2> HIDE DEF T
  <2>3. \A k \in 0 .. n : k \in T
    BY <1>1, <2>1, <2>2, UpTo
  <2> QED
    BY <2>3 DEF T
<1>10. c[n] = f[n]
  BY <1>1, <1>9
<1> QED
  BY <1>5, <1>8, <1>10

(* r holds those of the first i of s that are in S, each where it comes.   *)
Selected(r, s, i, S) ==
  /\ r \in Seq(Migrations)
  /\ \A k \in 1 .. Len(r) : \E a \in 1 .. i :
       /\ r[k] = s[a] /\ s[a] \in S
       /\ \A b \in 1 .. a - 1 : s[b] \in S => \E l \in 1 .. k - 1 : r[l] = s[b]
       /\ \A b \in a + 1 .. i : s[b] \in S => \E l \in k + 1 .. Len(r) : r[l] = s[b]
  /\ \A a \in 1 .. i : s[a] \in S => \E k \in 1 .. Len(r) : r[k] = s[a]

LEMMA SelectsNext ==
  ASSUME NEW s \in Seq(Migrations), NEW S, NEW i \in 1 .. Len(s), NEW r, Selected(r, s, i - 1, S)
  PROVE  Selected(IF s[i] \in S THEN Append(r, s[i]) ELSE r, s, i, S)
<1>1. i - 1 \in Nat /\ \A b \in 1 .. i : b = i \/ b \in 1 .. i - 1
  OBVIOUS
<1>2. CASE s[i] \notin S
  <2>1. \A a \in 1 .. i - 1 : a \in 1 .. i
    OBVIOUS
  <2>2. \A a \in 1 .. i - 1 : \A b \in a + 1 .. i : s[b] \in S => b \in a + 1 .. i - 1
    <3> TAKE a \in 1 .. i - 1
    <3> TAKE b \in a + 1 .. i
    <3>1. s[b] \in S => b # i
      BY <1>2
    <3> QED
      BY <3>1
  <2>3. ASSUME NEW k \in 1 .. Len(r)
        PROVE  \E a \in 1 .. i :
                 /\ r[k] = s[a] /\ s[a] \in S
                 /\ \A b \in 1 .. a - 1 : s[b] \in S => \E l \in 1 .. k - 1 : r[l] = s[b]
                 /\ \A b \in a + 1 .. i : s[b] \in S => \E l \in k + 1 .. Len(r) : r[l] = s[b]
    <3>1. PICK a \in 1 .. i - 1 :
            /\ r[k] = s[a] /\ s[a] \in S
            /\ \A b \in 1 .. a - 1 : s[b] \in S => \E l \in 1 .. k - 1 : r[l] = s[b]
            /\ \A b \in a + 1 .. i - 1 : s[b] \in S => \E l \in k + 1 .. Len(r) : r[l] = s[b]
      BY DEF Selected
    <3>2. \A b \in a + 1 .. i : s[b] \in S => \E l \in k + 1 .. Len(r) : r[l] = s[b]
      BY <2>2, <3>1
    <3> QED
      BY <2>1, <3>1, <3>2
  <2>4. \A a \in 1 .. i : s[a] \in S => \E k \in 1 .. Len(r) : r[k] = s[a]
    BY <1>1, <1>2 DEF Selected
  <2>5. Selected(r, s, i, S)
    BY <2>3, <2>4 DEF Selected
  <2> QED
    BY <1>2, <2>5
<1>3. CASE s[i] \in S
  <2> DEFINE q == Append(r, s[i])
             n == Len(r)
  <2>1. s[i] \in Migrations /\ r \in Seq(Migrations) /\ n \in Nat
    BY DEF Selected
  <2>2. q \in Seq(Migrations) /\ Len(q) = n + 1 /\ q[n + 1] = s[i] /\ \A k \in 1 .. n : q[k] = r[k]
    BY <2>1
  <2> HIDE DEF q
  <2>3. ASSUME NEW k \in 1 .. n + 1
        PROVE  \E a \in 1 .. i :
                 /\ q[k] = s[a] /\ s[a] \in S
                 /\ \A b \in 1 .. a - 1 : s[b] \in S => \E l \in 1 .. k - 1 : q[l] = s[b]
                 /\ \A b \in a + 1 .. i : s[b] \in S => \E l \in k + 1 .. n + 1 : q[l] = s[b]
    <3>1. CASE k = n + 1
      <4>1. \A b \in 1 .. i - 1 : s[b] \in S => \E l \in 1 .. k - 1 : q[l] = s[b]
        <5>1. \A l \in 1 .. n : l \in 1 .. k - 1
          BY <2>1, <3>1
        <5> QED
          BY <2>2, <5>1 DEF Selected
      <4>2. i + 1 .. i = {} /\ i \in 1 .. i
        OBVIOUS
      <4> QED
        BY <1>3, <2>2, <3>1, <4>1, <4>2
    <3>2. CASE k # n + 1
      <4>1. k \in 1 .. n
        BY <2>1, <3>2
      <4>2. PICK a \in 1 .. i - 1 :
              /\ r[k] = s[a] /\ s[a] \in S
              /\ \A b \in 1 .. a - 1 : s[b] \in S => \E l \in 1 .. k - 1 : r[l] = s[b]
              /\ \A b \in a + 1 .. i - 1 : s[b] \in S => \E l \in k + 1 .. n : r[l] = s[b]
        BY <4>1 DEF Selected
      <4>3. \A l \in 1 .. k - 1 : l \in 1 .. n
        BY <2>1, <4>1
      <4>4. \A l \in k + 1 .. n : l \in 1 .. n /\ l \in k + 1 .. n + 1
        BY <2>1, <4>1
      <4>5. n + 1 \in k + 1 .. n + 1
        BY <2>1, <4>1
      <4>6. \A b \in a + 1 .. i : s[b] \in S => \E l \in k + 1 .. n + 1 : q[l] = s[b]
        <5> TAKE b \in a + 1 .. i
        <5>1. CASE b = i
          BY <2>2, <4>5, <5>1
        <5>2. CASE b # i
          <6>1. b \in a + 1 .. i - 1
            BY <5>2
          <6> QED
            BY <2>2, <4>2, <4>4, <6>1
        <5> QED
          BY <5>1, <5>2
      <4>7. \A b \in 1 .. a - 1 : s[b] \in S => \E l \in 1 .. k - 1 : q[l] = s[b]
        BY <2>2, <4>2, <4>3
      <4>8. a \in 1 .. i
        OBVIOUS
      <4> QED
        BY <2>2, <4>1, <4>2, <4>6, <4>7, <4>8
    <3> QED
      BY <3>1, <3>2
  <2>4. \A a \in 1 .. i : s[a] \in S => \E k \in 1 .. n + 1 : q[k] = s[a]
    <3> TAKE a \in 1 .. i
    <3>1. CASE a = i
      <4>1. n + 1 \in 1 .. n + 1
        BY <2>1
      <4> QED
        BY <2>2, <3>1, <4>1
    <3>2. CASE a # i
      <4>1. a \in 1 .. i - 1 /\ \A k \in 1 .. n : k \in 1 .. n + 1
        BY <2>1, <3>2
      <4> QED
        BY <2>2, <4>1 DEF Selected
    <3> QED
      BY <3>1, <3>2
  <2>5. Selected(q, s, i, S)
    BY <2>2, <2>3, <2>4 DEF Selected
  <2> QED
    BY <1>3, <2>5 DEF q
<1> QED
  BY <1>2, <1>3

LEMMA AmongSelects ==
  ASSUME NEW s \in Seq(Migrations), NEW S
  PROVE  Selected(Among(s, S), s, Len(s), S)
<1>1. PICK f : Taken(f, s, S) /\ Among(s, S) = f[Len(s)]
  BY AmongIsTaken
<1> DEFINE n == Len(s)
           T == {k \in 0 .. n : Selected(f[k], s, k, S)}
<1>2. n \in Nat
  OBVIOUS
<1>3. 0 \in T
  <2>1. << >> \in Seq(Migrations) /\ Len(<< >>) = 0 /\ 1 .. 0 = {} /\ 0 \in 0 .. n
    OBVIOUS
  <2>2. Selected(<< >>, s, 0, S)
    BY <2>1 DEF Selected
  <2> QED
    BY <1>1, <2>1, <2>2 DEF Taken
<1>4. ASSUME NEW k \in 1 .. n, k - 1 \in T
      PROVE  k \in T
  <2>1. Selected(f[k - 1], s, k - 1, S) /\ k \in 0 .. n
    BY <1>4
  <2>2. f[k] = IF s[k] \in S THEN Append(f[k - 1], s[k]) ELSE f[k - 1]
    BY <1>1 DEF Taken
  <2> QED
    BY <2>1, <2>2, SelectsNext
<1> HIDE DEF T
<1>5. \A k \in 0 .. n : k \in T
  BY <1>2, <1>3, <1>4, UpTo
<1> QED
  BY <1>1, <1>2, <1>5 DEF T

(* A file comes after those it depends on, and only once.                  *)
Respects(o) ==
  /\ o \in Seq(Migrations)
  /\ \A a \in 1 .. Len(o) : \A d \in Dependencies[o[a]] : \E b \in 1 .. a - 1 : o[b] = d
  /\ \A a, b \in 1 .. Len(o) : o[a] = o[b] => a = b

Ready(o) == {m \in Migrations \ Range(o) : Dependencies[m] \subseteq Range(o)}

LEMMA RespectsNext ==
  ASSUME NEW o, Respects(o)
  PROVE  Respects(IF Ready(o) = {} THEN o ELSE Append(o, Min(Ready(o))))
<1>1. CASE Ready(o) = {}
  BY <1>1
<1>2. CASE Ready(o) # {}
  <2> DEFINE m == Min(Ready(o))
             n == Len(o)
             q == Append(o, m)
  <2>1. Ready(o) \in SUBSET Nat
    BY MigrationFiles DEF Ready
  <2>2. m \in Ready(o)
    BY <1>2, <2>1, MinIs
  <2> HIDE DEF m
  <2>3. m \in Migrations /\ m \notin Range(o) /\ Dependencies[m] \subseteq Range(o)
    BY <2>2 DEF Ready
  <2>4. o \in Seq(Migrations) /\ n \in Nat
    BY DEF Respects
  <2>5. Range(o) = {o[a] : a \in 1 .. n}
    BY <2>4 DEF Range
  <2>6. q \in Seq(Migrations) /\ Len(q) = n + 1 /\ q[n + 1] = m /\ \A k \in 1 .. n : q[k] = o[k]
    BY <2>3, <2>4
  <2> HIDE DEF q
  <2>7. \A a \in 1 .. n + 1 : a = n + 1 \/ a \in 1 .. n
    BY <2>4
  <2>8. ASSUME NEW a \in 1 .. n + 1, NEW d \in Dependencies[q[a]]
        PROVE  \E b \in 1 .. a - 1 : q[b] = d
    <3>1. CASE a = n + 1
      <4>1. d \in Range(o)
        BY <2>3, <2>6, <2>8, <3>1
      <4>2. PICK b \in 1 .. n : o[b] = d
        BY <2>5, <4>1
      <4>3. b \in 1 .. a - 1
        BY <2>4, <3>1
      <4> QED
        BY <2>6, <4>2, <4>3
    <3>2. CASE a \in 1 .. n
      <4>1. PICK b \in 1 .. a - 1 : o[b] = d
        BY <2>6, <2>8, <3>2 DEF Respects
      <4>2. b \in 1 .. n
        BY <2>4, <3>2
      <4> QED
        BY <2>6, <4>1, <4>2
    <3> QED
      BY <2>7, <3>1, <3>2
  <2>9. ASSUME NEW a \in 1 .. n + 1, NEW b \in 1 .. n + 1, q[a] = q[b]
        PROVE  a = b
    <3>1. \A k \in 1 .. n : q[k] # m
      BY <2>3, <2>5, <2>6
    <3> QED
      BY <2>6, <2>7, <2>9, <3>1 DEF Respects
  <2>10. Respects(q)
    BY <2>6, <2>8, <2>9 DEF Respects
  <2> QED
    BY <1>2, <2>10 DEF q, m
<1> QED
  BY <1>1, <1>2

(* The order of the files, as it grows (order()).                          *)
LEMMA OrderGrows ==
  LET n == Cardinality(Migrations) IN
  /\ n \in Nat /\ first[0] = << >> /\ Order = first[n]
  /\ \A k \in 1 .. n : first[k] = IF Ready(first[k - 1]) = {} THEN first[k - 1]
                                  ELSE Append(first[k - 1], Min(Ready(first[k - 1])))
<1> DEFINE n == Cardinality(Migrations)
           A == Seq(Migrations)
           step == [x \in A \X (1 .. n) |-> IF Ready(x[1]) = {} THEN x[1] ELSE Append(x[1], Min(Ready(x[1])))]
<1>1. n \in Nat
  BY MigrationFiles, FS_CardinalityType
<1>2. \A o \in A : Ready(o) # {} => Min(Ready(o)) \in Migrations
  <2> SUFFICES ASSUME NEW o \in A, Ready(o) # {}
               PROVE  Min(Ready(o)) \in Migrations
    OBVIOUS
  <2>1. Ready(o) \in SUBSET Nat /\ Ready(o) \subseteq Migrations
    BY MigrationFiles DEF Ready
  <2> QED
    BY <2>1, MinIs
<1>3. step \in [A \X (1 .. n) -> A]
  BY <1>2
<1>4. \A o \in A, k \in 1 .. n :
        step[<<o, k>>] = IF Ready(o) = {} THEN o ELSE Append(o, Min(Ready(o)))
  OBVIOUS
<1>5. << >> \in A
  OBVIOUS
<1> HIDE DEF step, A, n
<1>6. PICK f : Recursion(f, A, << >>, step, n)
  BY <1>1, <1>3, <1>5, Recursive
<1>7. /\ f \in [0 .. n -> A] /\ f[0] = << >>
      /\ \A k \in 1 .. n : f[k] = step[<<f[k - 1], k>>]
  BY <1>6 DEF Recursion
<1>8. \A k \in 1 .. n : f[k] = IF Ready(f[k - 1]) = {} THEN f[k - 1]
                               ELSE Append(f[k - 1], Min(Ready(f[k - 1])))
  <2>1. \A k \in 1 .. n : k - 1 \in 0 .. n
    BY <1>1
  <2> QED
    BY <1>4, <1>7, <2>1
<1>9. f = [k \in 0 .. n |-> IF k = 0 THEN << >>
                            ELSE IF Ready(f[k - 1]) = {} THEN f[k - 1]
                                 ELSE Append(f[k - 1], Min(Ready(f[k - 1])))]
  <2>1. \A k \in 0 .. n : k = 0 \/ k \in 1 .. n
    BY <1>1
  <2>2. \A k \in 0 .. n : f[k] = IF k = 0 THEN << >>
                                 ELSE IF Ready(f[k - 1]) = {} THEN f[k - 1]
                                      ELSE Append(f[k - 1], Min(Ready(f[k - 1])))
    BY <1>7, <1>8, <2>1
  <2>3. f = [k \in 0 .. n |-> f[k]]
    BY <1>7
  <2> QED
    BY <2>2, <2>3
<1>10. first = CHOOSE g : g = [k \in 0 .. n |-> IF k = 0 THEN << >>
                                                ELSE IF Ready(g[k - 1]) = {} THEN g[k - 1]
                                                     ELSE Append(g[k - 1], Min(Ready(g[k - 1])))]
  BY DEF first, Ready, n
<1>11. first = [k \in 0 .. n |-> IF k = 0 THEN << >>
                                 ELSE IF Ready(first[k - 1]) = {} THEN first[k - 1]
                                      ELSE Append(first[k - 1], Min(Ready(first[k - 1])))]
  BY <1>9, <1>10
<1>12. \A k \in 1 .. n : k \in 0 .. n /\ k # 0
  BY <1>1
<1>13. 0 \in 0 .. n
  BY <1>1
<1>14. \A k \in 0 .. n : first[k] = IF k = 0 THEN << >>
                                    ELSE IF Ready(first[k - 1]) = {} THEN first[k - 1]
                                         ELSE Append(first[k - 1], Min(Ready(first[k - 1])))
  BY <1>11
<1>15. Order = first[n]
  BY DEF Order, n
<1> QED
  BY <1>1, <1>12, <1>13, <1>14, <1>15 DEF n

(* Every file comes once, after those it depends on, whatever the files    *)
(* are called, unless their dependencies run in a circle (order()).        *)
THEOREM OrderRespects == Respects(Order) /\ Range(Order) = Migrations
<1> DEFINE n == Cardinality(Migrations)
           T == {k \in 0 .. n : Respects(first[k])}
<1>1. n \in Nat /\ Order = first[n]
  BY OrderGrows
<1>2. 0 \in T
  <2>1. << >> \in Seq(Migrations) /\ Len(<< >>) = 0 /\ 0 \in 0 .. n
    BY <1>1
  <2>2. Respects(<< >>)
    BY <2>1 DEF Respects
  <2> QED
    BY <2>1, <2>2, OrderGrows
<1>3. ASSUME NEW k \in 1 .. n, k - 1 \in T
      PROVE  k \in T
  <2>1. Respects(first[k - 1]) /\ k \in 0 .. n
    BY <1>1, <1>3
  <2>2. first[k] = IF Ready(first[k - 1]) = {} THEN first[k - 1]
                   ELSE Append(first[k - 1], Min(Ready(first[k - 1])))
    BY OrderGrows
  <2> QED
    BY <2>1, <2>2, RespectsNext
<1> HIDE DEF T, n
<1>4. \A k \in 0 .. n : k \in T
  BY <1>1, <1>2, <1>3, UpTo
<1>5. Respects(Order)
  BY <1>1, <1>4 DEF T
<1>6. Order \in Seq(Migrations) /\ Len(Order) = n /\ DOMAIN Order = 1 .. n
  BY <1>5, NoCycle DEF Respects, n
<1>7. Order \in Injection(1 .. n, Migrations)
  <2>1. Order \in [1 .. n -> Migrations]
    BY <1>6
  <2> QED
    BY <1>5, <1>6, <2>1 DEF Respects, Injection, IsInjective
<1>8. Cardinality(1 .. n) = n
  BY <1>1, FS_Interval
<1>9. Order \in Surjection(1 .. n, Migrations)
  BY <1>7, <1>8, MigrationFiles, FS_Injection DEF n
<1>10. Range(Order) = Migrations
  BY <1>6, <1>9 DEF Surjection, Range
<1> QED
  BY <1>5, <1>10

-----------------------------------------------------------------------------
(***************************************************************************)
(* What a call plans.                                                      *)
(***************************************************************************)
LEMMA PositionIs ==
  ASSUME NEW m
  PROVE  Position(m) \in 0 .. Len(Order)
<1> DEFINE I == {i \in 1 .. Len(Order) : Order[i] = m}
<1>1. Len(Order) \in Nat /\ I \in SUBSET Nat
  BY OrderRespects DEF Respects
<1>2. Position(m) = IF I # {} THEN Min(I) ELSE 0
  BY DEF Position, SelectInSeq
<1>3. I # {} => Min(I) \in I
  <2> HIDE DEF I
  <2> QED
    BY <1>1, MinIs
<1>4. \A i \in I : i \in 0 .. Len(Order)
  BY <1>1
<1> HIDE DEF I
<1>5. 0 \in 0 .. Len(Order)
  BY <1>1
<1> QED
  BY <1>2, <1>3, <1>4, <1>5

(* Each migration of a plan depends on those seen, and on earlier ones.    *)
Follows(plan, seen) ==
  \A k \in 1 .. Len(plan) : \A d \in Dependencies[plan[k]] :
    d \in seen \/ \E j \in 1 .. k - 1 : plan[j] = d

(* Those seen that depend on one a plan undoes are undone before it.       *)
Precedes(plan, seen) ==
  \A k \in 1 .. Len(plan) : \A d \in seen :
    plan[k] \in Dependencies[d] => \E j \in 1 .. k - 1 : plan[j] = d

LEMMA PrefixFollows ==
  ASSUME NEW n \in 0 .. Len(Order), NEW seen
  PROVE  LET plan == Among(SubSeq(Order, 1, n), Migrations \ seen)
         IN  plan \in Seq(Migrations) /\ Follows(plan, seen)
<1> DEFINE s == SubSeq(Order, 1, n)
           S == Migrations \ seen
           plan == Among(s, S)
<1>1. Order \in Seq(Migrations) /\ n \in Nat /\ n <= Len(Order)
  BY OrderRespects DEF Respects
<1>2. s \in Seq(Migrations) /\ Len(s) = n /\ \A a \in 1 .. n : s[a] = Order[a] /\ s[a] \in Migrations
  BY <1>1
<1> HIDE DEF s, S
<1>3. Selected(plan, s, n, S)
  BY <1>2, AmongSelects
<1> HIDE DEF plan
<1>4. ASSUME NEW k \in 1 .. Len(plan), NEW d \in Dependencies[plan[k]], d \notin seen
      PROVE  \E j \in 1 .. k - 1 : plan[j] = d
  <2>1. PICK a \in 1 .. n :
          /\ plan[k] = s[a]
          /\ \A b \in 1 .. a - 1 : s[b] \in S => \E l \in 1 .. k - 1 : plan[l] = s[b]
    BY <1>3 DEF Selected
  <2>2. a \in 1 .. Len(Order) /\ plan[k] = Order[a]
    BY <1>1, <1>2, <2>1
  <2>3. PICK b \in 1 .. a - 1 : Order[b] = d
    BY <1>4, <2>2, OrderRespects DEF Respects
  <2>4. b \in 1 .. n
    BY <1>1, <2>1, <2>3
  <2>5. s[b] = d /\ s[b] \in S
    BY <1>2, <1>4, <2>3, <2>4 DEF S
  <2> QED
    BY <2>1, <2>3, <2>5
<1>5. plan \in Seq(Migrations) /\ Follows(plan, seen)
  BY <1>3, <1>4 DEF Selected, Follows
<1> QED
  BY <1>5 DEF plan, s, S

LEMMA WholeOrder == Order = SubSeq(Order, 1, Len(Order)) /\ Len(Order) \in 0 .. Len(Order)
<1>1. Order \in Seq(Migrations)
  BY OrderRespects DEF Respects
<1> QED
  BY <1>1

LEMMA PlanFollows ==
  ASSUME NEW seen, NEW target
  PROVE  Plan(seen, target) \in Seq(Migrations) /\ Follows(Plan(seen, target), seen)
<1>1. CASE target \in seen
  <2>1. << >> \in Seq(Migrations) /\ Len(<< >>) = 0 /\ 1 .. 0 = {}
    OBVIOUS
  <2>2. Follows(<< >>, seen)
    BY <2>1 DEF Follows
  <2> QED
    BY <1>1, <2>1, <2>2 DEF Plan
<1>2. CASE target \notin seen /\ target = None
  BY <1>2, WholeOrder, PrefixFollows DEF Plan
<1>3. CASE target \notin seen /\ target # None
  BY <1>3, PositionIs, PrefixFollows DEF Plan
<1> QED
  BY <1>1, <1>2, <1>3

LEMMA SuffixPrecedes ==
  ASSUME NEW n \in 0 .. Len(Order), NEW seen \in SUBSET Migrations
  PROVE  LET plan == Reverse(Among(SubSeq(Order, n + 1, Len(Order)), seen))
         IN  plan \in Seq(Migrations) /\ Precedes(plan, seen)
<1> DEFINE s == SubSeq(Order, n + 1, Len(Order))
           r == Among(s, seen)
           plan == Reverse(r)
           z == Len(Order) - n
<1>1. Order \in Seq(Migrations) /\ n \in Nat /\ n <= Len(Order) /\ z \in Nat /\ Len(Order) \in Nat
  BY OrderRespects DEF Respects
<1>2. s \in Seq(Migrations) /\ Len(s) = z /\ \A a \in 1 .. z : s[a] = Order[n + a]
  BY <1>1
<1> HIDE DEF s
<1>3. Selected(r, s, z, seen)
  BY <1>2, AmongSelects
<1> HIDE DEF r
<1>4. r \in Seq(Migrations) /\ Len(r) \in Nat
  BY <1>3 DEF Selected
<1>5. /\ plan \in Seq(Migrations) /\ Len(plan) = Len(r)
      /\ \A k \in 1 .. Len(r) : plan[k] = r[Len(r) - k + 1]
  <2>1. \A k \in 1 .. Len(r) : r[Len(r) - k + 1] \in Migrations
    BY <1>4
  <2> QED
    BY <1>4, <2>1 DEF Reverse
<1> HIDE DEF plan
<1>6. ASSUME NEW k \in 1 .. Len(plan), NEW d \in seen, plan[k] \in Dependencies[d]
      PROVE  \E j \in 1 .. k - 1 : plan[j] = d
  <2> DEFINE i == Len(r) - k + 1
  <2>1. i \in 1 .. Len(r) /\ plan[k] = r[i]
    BY <1>4, <1>5
  <2>2. PICK a \in 1 .. z :
          /\ r[i] = s[a]
          /\ \A b \in a + 1 .. z : s[b] \in seen => \E l \in i + 1 .. Len(r) : r[l] = s[b]
    BY <1>3, <2>1 DEF Selected
  <2>3. n + a \in 1 .. Len(Order) /\ plan[k] = Order[n + a]
    BY <1>1, <1>2, <2>1, <2>2
  <2>4. PICK c \in 1 .. Len(Order) : Order[c] = d
    <3>1. d \in Range(Order) /\ DOMAIN Order = 1 .. Len(Order)
      BY <1>1, OrderRespects
    <3> QED
      BY <3>1 DEF Range
  <2>5. PICK e \in 1 .. c - 1 : Order[e] = plan[k]
    BY <1>6, <2>4, OrderRespects DEF Respects
  <2>6. e \in 1 .. Len(Order)
    BY <1>1, <2>4, <2>5
  <2>7. e = n + a
    BY <2>3, <2>5, <2>6, OrderRespects DEF Respects
  <2>8. c - n \in a + 1 .. z /\ n + (c - n) = c
    BY <1>1, <2>2, <2>4, <2>5, <2>7
  <2>9. s[c - n] = d
    <3>1. c - n \in 1 .. z
      BY <1>1, <2>2, <2>8
    <3> QED
      BY <1>2, <2>4, <2>8, <3>1
  <2>10. PICK l \in i + 1 .. Len(r) : r[l] = d
    BY <1>6, <2>2, <2>8, <2>9
  <2> DEFINE j == Len(r) - l + 1
  <2>11. j \in 1 .. k - 1 /\ j \in 1 .. Len(r) /\ Len(r) - j + 1 = l
    BY <1>4, <1>5, <2>1, <2>10
  <2>12. plan[j] = d
    BY <1>5, <2>10, <2>11
  <2> QED
    BY <2>11, <2>12
<1>7. plan \in Seq(Migrations) /\ Precedes(plan, seen)
  BY <1>5, <1>6 DEF Precedes
<1> QED
  BY <1>7 DEF plan, r, s

LEMMA UndoPrecedes ==
  ASSUME NEW seen \in SUBSET Migrations, NEW target
  PROVE  Undo(seen, target) \in Seq(Migrations) /\ Precedes(Undo(seen, target), seen)
<1> DEFINE n == IF target = None THEN 0 ELSE Position(target)
<1>1. n \in 0 .. Len(Order)
  BY PositionIs, WholeOrder
<1>2. Undo(seen, target) = Reverse(Among(SubSeq(Order, n + 1, Len(Order)), seen))
  BY DEF Undo
<1> HIDE DEF n
<1> QED
  BY <1>1, <1>2, SuffixPrecedes

LEMMA UpgradedIs ==
  ASSUME NEW seen, NEW target
  PROVE  Upgraded(seen, target) \in Seq(Migrations)
<1> DEFINE s == IF target = None THEN Order ELSE SubSeq(Order, 1, Position(target))
           S == {m \in seen : HasData(m)}
<1>1. s \in Seq(Migrations)
  BY PositionIs, OrderRespects DEF Respects
<1> HIDE DEF s, S
<1>2. Among(s, S) \in Seq(Migrations)
  BY <1>1, AmongSelects DEF Selected
<1> QED
  BY <1>2 DEF Upgraded, s, S

-----------------------------------------------------------------------------
(***************************************************************************)
(* The invariant.                                                          *)
(***************************************************************************)
CallType == [does : {"nothing", "migrate", "rollback", "upgrade"}, target : Migrations \cup {None},
             data : BOOLEAN]

RunType(schemas) ==
  [pc : {"idle", "reading", "preparing", "data", "analyzers", "main", "checking", "compensating",
         "rebuilding"},
   call : CallType, plan : Seq(Migrations), seen : SUBSET Migrations, held : schemas,
   failure : {None, "refused", "conflict", "lost"}, phase : {None, "analyzers", "main"},
   pending : BOOLEAN, committed : SUBSET Migrations, done : SUBSET Migrations]

(* The call has read the history, and is not over.                         *)
Working(r) == r.pc \notin {"idle", "reading"}

(* What a call returns, and runs data operations of, its batches committed.*)
RunOK(r) ==
  /\ r \in RunType({r.held})
  /\ r.call.does = "nothing" => r.pc = "idle"
  /\ r.call.does = "upgrade" => r.pc \in {"idle", "reading", "data"}
  /\ Working(r) => r.plan # << >>
  /\ r.call.does # "upgrade" =>
       /\ r.done \subseteq r.committed
       /\ r.pc = "data" => Head(r.plan) \in r.committed

ExecInv ==
  /\ recorded \in SUBSET Migrations /\ crossed \in BOOLEAN
  /\ run = [p \in Processes |-> run[p]]
  /\ \A p \in Processes : RunOK(run[p])

(* A migrate() knows less than what is recorded, and no more depends on it *)
(* than it has planned; a rollback() the other way round.                  *)
Forward(r, history) ==
  r.call.does = "migrate" /\ Working(r) =>
    /\ r.seen \subseteq history /\ Follows(r.plan, r.seen)
    /\ r.pc = "data" => Head(r.plan) \in history

Backward(r, history) ==
  r.call.does = "rollback" /\ Working(r) =>
    /\ history \subseteq r.seen /\ Precedes(r.plan, r.seen)
    /\ r.pc = "data" => Head(r.plan) \notin history

Apart ==
  \A p, q \in Processes : Busy(p) /\ Busy(q) => {Does(p), Does(q)} # {"migrate", "rollback"}

(* Nothing is promised of a history a rollback() overlapped a migrate()    *)
(* in, nor of one that was broken at first.                                *)
Damaged == \E h \in Histories : HistoryBroken(h)
Loose == crossed \/ Damaged

ClosedInv ==
  Loose \/ /\ Apart /\ ~HistoryBroken(recorded)
           /\ \A p \in Processes : Forward(run[p], recorded) /\ Backward(run[p], recorded)

-----------------------------------------------------------------------------
(***************************************************************************)
(* What a step of a call keeps.                                            *)
(***************************************************************************)
LEMMA TailIs ==
  ASSUME NEW plan \in Seq(Migrations), plan # << >>
  PROVE  /\ Head(plan) \in Migrations /\ Head(plan) = plan[1] /\ 1 \in 1 .. Len(plan)
         /\ Tail(plan) \in Seq(Migrations) /\ Len(plan) \in Nat /\ Len(Tail(plan)) = Len(plan) - 1
         /\ \A k \in 1 .. Len(plan) - 1 : Tail(plan)[k] = plan[k + 1]
OBVIOUS

LEMMA FollowsNext ==
  ASSUME NEW plan \in Seq(Migrations), plan # << >>, NEW seen, Follows(plan, seen)
  PROVE  Follows(Tail(plan), seen \cup {Head(plan)})
<1> SUFFICES ASSUME NEW k \in 1 .. Len(Tail(plan)), NEW d \in Dependencies[Tail(plan)[k]],
                    d \notin seen \cup {Head(plan)}
             PROVE  \E j \in 1 .. k - 1 : Tail(plan)[j] = d
  BY DEF Follows
<1>1. k + 1 \in 1 .. Len(plan) /\ Tail(plan)[k] = plan[k + 1]
  BY TailIs
<1>2. PICK j \in 1 .. (k + 1) - 1 : plan[j] = d
  BY <1>1 DEF Follows
<1>3. j # 1
  BY <1>2, TailIs
<1>4. j - 1 \in 1 .. k - 1 /\ j - 1 \in 1 .. Len(plan) - 1 /\ (j - 1) + 1 = j
  BY <1>1, <1>2, <1>3, TailIs
<1>5. Tail(plan)[j - 1] = d
  BY <1>2, <1>4, TailIs
<1> QED
  BY <1>4, <1>5

LEMMA PrecedesNext ==
  ASSUME NEW plan \in Seq(Migrations), plan # << >>, NEW seen, Precedes(plan, seen)
  PROVE  Precedes(Tail(plan), seen \ {Head(plan)})
<1> SUFFICES ASSUME NEW k \in 1 .. Len(Tail(plan)), NEW d \in seen \ {Head(plan)},
                    Tail(plan)[k] \in Dependencies[d]
             PROVE  \E j \in 1 .. k - 1 : Tail(plan)[j] = d
  BY DEF Precedes
<1>1. k + 1 \in 1 .. Len(plan) /\ Tail(plan)[k] = plan[k + 1]
  BY TailIs
<1>2. PICK j \in 1 .. (k + 1) - 1 : plan[j] = d
  BY <1>1 DEF Precedes
<1>3. j # 1
  BY <1>2, TailIs
<1>4. j - 1 \in 1 .. k - 1 /\ j - 1 \in 1 .. Len(plan) - 1 /\ (j - 1) + 1 = j
  BY <1>1, <1>2, <1>3, TailIs
<1>5. Tail(plan)[j - 1] = d
  BY <1>2, <1>4, TailIs
<1> QED
  BY <1>4, <1>5

(* The history a call may leave, as the calls of its kind know it.         *)
Continues(p) ==
  \/ recorded' = recorded
  \/ Does(p) = "migrate" /\ recorded \subseteq recorded'
  \/ Does(p) = "rollback" /\ recorded' \subseteq recorded

LEMMA RunChanges ==
  ASSUME ExecInv, ClosedInv, NEW p \in Processes, Busy(p), NEW r, RunOK(r), r.call = run[p].call,
         run' = [run EXCEPT ![p] = r], crossed' = crossed, recorded' \in SUBSET Migrations,
         ~Loose => /\ Forward(r, recorded') /\ Backward(r, recorded')
                   /\ ~HistoryBroken(recorded') /\ Continues(p)
  PROVE  ExecInv' /\ ClosedInv'
<1>1. run' = [q \in Processes |-> run'[q]] /\ run'[p] = r /\ \A q \in Processes : q # p => run'[q] = run[q]
  BY DEF ExecInv
<1>2. ExecInv'
  BY <1>1 DEF ExecInv
<1>3. CASE Loose
  BY <1>2, <1>3 DEF ClosedInv, Loose, Damaged
<1>4. CASE ~Loose
  <2>1. Apart'
    <3>1. \A q \in Processes : Busy(q)' => Busy(q) /\ Does(q)' = Does(q)
      BY <1>1 DEF Busy, Does
    <3> QED
      BY <1>4, <3>1 DEF Apart, ClosedInv
  <2>2. ASSUME NEW q \in Processes
        PROVE  Forward(run'[q], recorded') /\ Backward(run'[q], recorded')
    <3>1. CASE q = p
      BY <1>1, <1>4, <3>1
    <3>2. CASE q # p
      <4>1. run'[q] = run[q] /\ Forward(run[q], recorded) /\ Backward(run[q], recorded)
        BY <1>1, <1>4, <3>2 DEF ClosedInv
      <4>2. Working(run[q]) => Busy(q)
        BY DEF Working, Busy
      <4>3. Working(run[q]) => {Does(p), Does(q)} # {"migrate", "rollback"}
        BY <1>4, <4>2 DEF ClosedInv, Apart
      <4>4. Continues(p)
        BY <1>4
      <4>5. Forward(run[q], recorded')
        BY <4>1, <4>3, <4>4 DEF Forward, Continues, Does
      <4>6. Backward(run[q], recorded')
        BY <4>1, <4>3, <4>4 DEF Backward, Continues, Does
      <4> QED
        BY <4>1, <4>5, <4>6
    <3> QED
      BY <3>1, <3>2
  <2> QED
    BY <1>2, <1>4, <2>1, <2>2 DEF ClosedInv, Loose, Damaged
<1> QED
  BY <1>3, <1>4

(* The call stays at its migration, or is over.                            *)
LEMMA Stays ==
  ASSUME ExecInv, ClosedInv, NEW p \in Processes, Busy(p), NEW r, RunOK(r), r.call = run[p].call,
         run' = [run EXCEPT ![p] = r], crossed' = crossed, recorded' = recorded,
         Working(r) => Working(run[p]) /\ r.plan = run[p].plan /\ r.seen = run[p].seen /\ r.pc # "data"
  PROVE  ExecInv' /\ ClosedInv'
<1>1. ~Loose => Forward(run[p], recorded) /\ Backward(run[p], recorded) /\ ~HistoryBroken(recorded)
  BY DEF ClosedInv
<1>2. ~Loose => Forward(r, recorded) /\ Backward(r, recorded)
  BY <1>1 DEF Forward, Backward
<1>3. recorded \in SUBSET Migrations
  BY DEF ExecInv
<1> QED
  BY <1>1, <1>2, <1>3, RunChanges DEF Continues

LEMMA EndsKeeps ==
  ASSUME ExecInv, ClosedInv, NEW p \in Processes, Busy(p), NEW b \in BOOLEAN,
         Ends(p, [run[p] EXCEPT !.pending = b]), crossed' = crossed, recorded' = recorded
  PROVE  ExecInv' /\ ClosedInv'
<1> DEFINE r == [run[p] EXCEPT !.pending = FALSE, !.pc = "idle", !.plan = << >>, !.seen = {}, !.held = Empty,
                               !.failure = None, !.phase = None]
<1>1. RunOK(run[p])
  BY DEF ExecInv
<1>2. run' = [run EXCEPT ![p] = r]
  BY <1>1 DEF Ends, Becomes, RunOK, RunType
<1>3. << >> \in Seq(Migrations)
  OBVIOUS
<1>4. r \in RunType({r.held}) /\ r.pc = "idle" /\ r.call = run[p].call
        /\ r.done = run[p].done /\ r.committed = run[p].committed
  BY <1>1, <1>3 DEF RunOK, RunType
<1> HIDE DEF r
<1>5. RunOK(r) /\ ~Working(r)
  BY <1>1, <1>4 DEF RunOK, Working
<1> QED
  BY <1>2, <1>4, <1>5, Stays

LEMMA CallEnds ==
  ASSUME ExecInv, ClosedInv, NEW p \in Processes, Busy(p), Ends(p, run[p]),
         crossed' = crossed, recorded' = recorded
  PROVE  ExecInv' /\ ClosedInv'
<1>1. run[p].pending \in BOOLEAN /\ run[p] = [run[p] EXCEPT !.pending = run[p].pending]
  BY DEF ExecInv, RunOK, RunType
<1> QED
  BY <1>1, EndsKeeps

LEMMA FirstPhaseIs ==
  ASSUME NEW m, NEW undone
  PROVE  FirstPhase(m, undone) \in {"main", "analyzers"}
BY DEF FirstPhase

(* On to the next migration: the current one is in the history as the call *)
(* wants it, and returned only if the call's batches committed it.         *)
LEMMA MovesOn ==
  ASSUME ExecInv, ClosedInv, NEW p \in Processes, Busy(p), NEW r, RunOK(r), Working(r),
         r.call = run[p].call, r.plan = run[p].plan, NEW done \in BOOLEAN,
         done /\ Does(p) # "upgrade" => Current(p) \in r.committed,
         run' = [run EXCEPT ![p] = Moved(p, r, done)], crossed' = crossed, recorded' \in SUBSET Migrations,
         ~Loose => /\ ~HistoryBroken(recorded') /\ Continues(p)
                   /\ Does(p) = "migrate" => /\ r.seen \cup {Current(p)} \subseteq recorded'
                                             /\ Follows(r.plan, r.seen)
                   /\ Does(p) = "rollback" => /\ recorded' \subseteq r.seen \ {Current(p)}
                                              /\ Precedes(r.plan, r.seen)
  PROVE  ExecInv' /\ ClosedInv'
<1> DEFINE n == Moved(p, r, done)
           m == Current(p)
<1>1. /\ r \in RunType({r.held}) /\ r.plan \in Seq(Migrations) /\ r.plan # << >>
      /\ m = Head(r.plan) /\ m \in Migrations /\ Tail(r.plan) \in Seq(Migrations)
      /\ Does(p) = r.call.does /\ Does(p) \in {"migrate", "rollback", "upgrade"}
  <2>1. r \in RunType({r.held}) /\ r.plan # << >> /\ r.plan \in Seq(Migrations) /\ m = Head(r.plan)
          /\ Does(p) = r.call.does
    BY DEF RunOK, RunType, Current, Does
  <2>2. Does(p) \in {"migrate", "rollback", "upgrade"}
    BY <2>1 DEF RunOK, RunType, CallType, Working
  <2> QED
    BY <2>1, <2>2, TailIs
<1>2. PICK pc, held :
        /\ pc = IF Tail(r.plan) = << >> THEN "idle"
                ELSE IF Does(p) = "upgrade" THEN "data" ELSE FirstPhase(Head(Tail(r.plan)), Undoes(p))
        /\ n = [r EXCEPT !.pc = pc, !.plan = Tail(r.plan),
                         !.seen = CASE Does(p) = "migrate" -> r.seen \cup {m}
                                    [] Does(p) = "rollback" -> r.seen \ {m}
                                    [] OTHER -> r.seen,
                         !.held = held, !.failure = None, !.phase = None, !.pending = FALSE,
                         !.done = IF done THEN r.done \cup {m} ELSE r.done]
  BY <1>1 DEF Moved, RunType
<1> HIDE DEF n, m
<1> DEFINE seen == CASE Does(p) = "migrate" -> r.seen \cup {m}
                     [] Does(p) = "rollback" -> r.seen \ {m}
                     [] OTHER -> r.seen
           all == IF done THEN r.done \cup {m} ELSE r.done
<1>3. /\ Does(p) = "migrate" => seen = r.seen \cup {m}
      /\ Does(p) = "rollback" => seen = r.seen \ {m}
      /\ Does(p) = "upgrade" => seen = r.seen
      /\ seen \in SUBSET Migrations
  <2>1. r.seen \in SUBSET Migrations
    BY <1>1 DEF RunType
  <2> QED
    BY <1>1, <2>1
<1>4. all \in SUBSET Migrations /\ (Does(p) # "upgrade" => all \subseteq r.committed)
  <2>1. r.done \in SUBSET Migrations /\ (Does(p) # "upgrade" => r.done \subseteq r.committed)
    BY <1>1 DEF RunType, RunOK
  <2> QED
    BY <1>1, <2>1 DEF m
<1>5. n = [r EXCEPT !.pc = pc, !.plan = Tail(r.plan), !.seen = seen, !.held = held, !.failure = None,
                    !.phase = None, !.pending = FALSE, !.done = all]
  BY <1>2
<1> HIDE DEF seen, all
<1>6. /\ pc \in {"idle", "data", "main", "analyzers"}
      /\ Tail(r.plan) = << >> => pc = "idle"
      /\ pc = "data" => Does(p) = "upgrade"
      /\ Does(p) = "upgrade" => pc \in {"idle", "data"}
  BY <1>2, FirstPhaseIs
<1>7. /\ n \in RunType({n.held}) /\ n.pc = pc /\ n.call = r.call /\ n.plan = Tail(r.plan) /\ n.seen = seen
      /\ n.committed = r.committed /\ n.done = all
  BY <1>1, <1>3, <1>4, <1>5, <1>6 DEF RunType
<1>8. RunOK(n)
  BY <1>1, <1>4, <1>6, <1>7 DEF RunOK, Working
<1>9. ~Loose => Forward(n, recorded') /\ Backward(n, recorded')
  <2>1. ~Loose /\ Does(p) = "migrate" => Follows(Tail(r.plan), seen) /\ seen \subseteq recorded'
    BY <1>1, <1>3, FollowsNext DEF m
  <2>2. ~Loose /\ Does(p) = "rollback" => Precedes(Tail(r.plan), seen) /\ recorded' \subseteq seen
    BY <1>1, <1>3, PrecedesNext DEF m
  <2>3. n.call.does = Does(p)
    BY <1>1, <1>7
  <2> QED
    BY <1>6, <1>7, <2>1, <2>2, <2>3 DEF Forward, Backward
<1>10. n.call = run[p].call /\ run' = [run EXCEPT ![p] = n]
  BY <1>7 DEF n
<1> QED
  BY <1>8, <1>9, <1>10, RunChanges

-----------------------------------------------------------------------------
(***************************************************************************)
(* The actions.                                                            *)
(***************************************************************************)
LEMMA BeginKeeps ==
  ASSUME ExecInv, ClosedInv, NEW p \in Processes, NEW call \in Calls, Begin(p, call)
  PROVE  ExecInv' /\ ClosedInv'
<1> DEFINE r == [Idle EXCEPT !.pc = "reading", !.call = call]
<1>1. call \in CallType /\ call.does \in {"migrate", "rollback", "upgrade"}
  BY ExecutorAssumption DEF CallType
<1>2. << >> \in Seq(Migrations)
  OBVIOUS
<1>3. /\ r \in RunType({r.held}) /\ r.pc = "reading" /\ r.call = call
      /\ r.done = {} /\ r.committed = {}
  BY <1>1, <1>2 DEF Idle, RunType
<1>4. RunOK(r) /\ ~Working(r)
  BY <1>1, <1>3 DEF RunOK, Working
<1>5. run' = [run EXCEPT ![p] = r] /\ recorded' = recorded /\ crossed' \in BOOLEAN
  BY DEF Begin, Becomes, database, ExecInv
<1> HIDE DEF r
<1>6. run' = [q \in Processes |-> run'[q]] /\ run'[p] = r /\ \A q \in Processes : q # p => run'[q] = run[q]
  BY <1>5 DEF ExecInv
<1>7. ExecInv'
  BY <1>4, <1>5, <1>6 DEF ExecInv
<1>8. ASSUME ~Loose'
      PROVE  /\ Apart' /\ ~HistoryBroken(recorded)'
             /\ \A q \in Processes : Forward(run[q], recorded)' /\ Backward(run[q], recorded)'
  <2>1. ~Loose /\ \A q \in Processes : Busy(q) => {Does(q), call.does} # {"migrate", "rollback"}
    BY <1>8 DEF Begin, Loose, Damaged
  <2>2. /\ Apart /\ ~HistoryBroken(recorded)
        /\ \A q \in Processes : Forward(run[q], recorded) /\ Backward(run[q], recorded)
    BY <2>1 DEF ClosedInv
  <2>3. Does(p)' = call.does /\ \A q \in Processes : q # p => Busy(q)' = Busy(q) /\ Does(q)' = Does(q)
    BY <1>3, <1>6 DEF Busy, Does
  <2>4. ASSUME NEW a \in Processes, NEW b \in Processes, Busy(a)', Busy(b)'
        PROVE  {Does(a)', Does(b)'} # {"migrate", "rollback"}
    <3>1. CASE a = p /\ b = p
      BY <3>1
    <3>2. CASE a = p /\ b # p
      BY <2>1, <2>3, <2>4, <3>2
    <3>3. CASE a # p /\ b = p
      BY <2>1, <2>3, <2>4, <3>3
    <3>4. CASE a # p /\ b # p
      BY <2>2, <2>3, <2>4, <3>4 DEF Apart
    <3> QED
      BY <3>1, <3>2, <3>3, <3>4
  <2>5. ASSUME NEW q \in Processes PROVE Forward(run[q], recorded)' /\ Backward(run[q], recorded)'
    <3>1. CASE q = p
      BY <1>4, <1>6, <3>1 DEF Forward, Backward
    <3>2. CASE q # p
      BY <1>5, <1>6, <2>2, <3>2 DEF Forward, Backward
    <3> QED
      BY <3>1, <3>2
  <2>6. ~HistoryBroken(recorded)'
    BY <1>5, <2>2 DEF HistoryBroken
  <2> QED
    BY <2>4, <2>5, <2>6 DEF Apart
<1> QED
  BY <1>7, <1>8 DEF ClosedInv

LEMMA ReadHistoryKeeps ==
  ASSUME ExecInv, ClosedInv, NEW p \in Processes, ReadHistory(p)
  PROVE  ExecInv' /\ ClosedInv'
<1> DEFINE plan == PlanOf(run[p].call)
           r == [run[p] EXCEPT !.pc = IF run[p].call.does = "upgrade" THEN "data" ELSE "preparing",
                               !.plan = plan, !.seen = recorded]
<1>1. /\ RunOK(run[p]) /\ recorded \in SUBSET Migrations /\ run[p].pc = "reading"
      /\ ~HistoryBroken(recorded) /\ plan # << >> /\ run' = [run EXCEPT ![p] = r]
      /\ recorded' = recorded /\ crossed' = crossed
  BY DEF ExecInv, ReadHistory, HistoryRefused, Becomes, database
<1>2. run[p].call.does \in {"migrate", "rollback", "upgrade"}
  BY <1>1 DEF RunOK, RunType, CallType
<1>3. /\ plan \in Seq(Migrations)
      /\ run[p].call.does = "migrate" => Follows(plan, recorded)
      /\ run[p].call.does = "rollback" => Precedes(plan, recorded)
  BY <1>1, <1>2, PlanFollows, UndoPrecedes, UpgradedIs DEF PlanOf
<1> HIDE DEF plan
<1>4. /\ r \in RunType({r.held}) /\ r.call = run[p].call /\ r.plan = plan /\ r.seen = recorded
      /\ r.done = run[p].done /\ r.committed = run[p].committed
      /\ r.pc = IF r.call.does = "upgrade" THEN "data" ELSE "preparing"
  BY <1>1, <1>3 DEF RunOK, RunType
<1>5. run' = [run EXCEPT ![p] = r]
  BY <1>1
<1> HIDE DEF r
<1>6. RunOK(r)
  BY <1>1, <1>2, <1>4 DEF RunOK, Working
<1>7. Forward(r, recorded) /\ Backward(r, recorded)
  BY <1>3, <1>4 DEF Forward, Backward
<1> QED
  BY <1>1, <1>4, <1>5, <1>6, <1>7, RunChanges DEF Continues, Busy

(* The call goes on at the same migration, on the history as it was.       *)
LEMMA GoesKeeps ==
  ASSUME ExecInv, ClosedInv, NEW p \in Processes, Working(run[p]), Does(p) # "upgrade",
         NEW r, r \in RunType({r.held}), r.pc \notin {"idle", "reading", "data"}, r.call = run[p].call,
         r.plan = run[p].plan, r.seen = run[p].seen, r.done = run[p].done, r.committed = run[p].committed,
         run' = [run EXCEPT ![p] = r], crossed' = crossed, recorded' = recorded
  PROVE  ExecInv' /\ ClosedInv'
<1>1. RunOK(run[p])
  BY DEF ExecInv
<1>2. RunOK(r) /\ Busy(p)
  BY <1>1 DEF RunOK, Working, Does, Busy
<1> QED
  BY <1>2, Stays DEF Working

LEMMA PrepareKeeps ==
  ASSUME ExecInv, ClosedInv, NEW p \in Processes, Prepare(p)
  PROVE  ExecInv' /\ ClosedInv'
<1>1. RunOK(run[p]) /\ run[p].pc = "preparing" /\ recorded' = recorded /\ crossed' = crossed
  BY DEF ExecInv, Prepare, database
<1>2. CASE Ends(p, run[p])
  BY <1>1, <1>2, CallEnds DEF Busy
<1>3. CASE Becomes(p, [run[p] EXCEPT !.pc = FirstPhase(Current(p), Undoes(p)), !.held = schema])
  <2>1. PICK pc \in {"main", "analyzers"} : pc = FirstPhase(Current(p), Undoes(p))
    BY FirstPhaseIs
  <2> DEFINE r == [run[p] EXCEPT !.pc = pc, !.held = schema]
  <2>2. run' = [run EXCEPT ![p] = r]
    BY <1>3, <2>1 DEF Becomes
  <2>3. /\ r \in RunType({r.held}) /\ r.pc = pc /\ r.call = run[p].call /\ r.plan = run[p].plan
        /\ r.seen = run[p].seen /\ r.done = run[p].done /\ r.committed = run[p].committed
    BY <1>1 DEF RunOK, RunType
  <2>4. Working(run[p]) /\ Does(p) # "upgrade"
    BY <1>1 DEF RunOK, Working, Does
  <2> HIDE DEF r
  <2> QED
    BY <1>1, <2>1, <2>2, <2>3, <2>4, GoesKeeps
<1> QED
  BY <1>2, <1>3 DEF Prepare

(* A batch that took effect: the history stays closed.                     *)
LEMMA BatchKeepsHistory ==
  ASSUME ExecInv, ClosedInv, NEW p \in Processes, Sending(p), TakesEffect(p)
  PROVE  /\ RunOK(run[p]) /\ Busy(p) /\ Working(run[p]) /\ Does(p) \in {"migrate", "rollback"}
         /\ recorded \in SUBSET Migrations /\ recorded' \in SUBSET Migrations
         /\ run[p].plan \in Seq(Migrations) /\ run[p].plan # << >> /\ Current(p) \in Migrations
         /\ run[p].pc = "analyzers" => recorded' = recorded
         /\ run[p].pc = "main" =>
              recorded' = IF Undoes(p) THEN recorded \ {Current(p)} ELSE recorded \cup {Current(p)}
         /\ ~Loose => ~HistoryBroken(recorded') /\ Continues(p)
<1> DEFINE m == Current(p)
<1>1. RunOK(run[p]) /\ recorded \in SUBSET Migrations /\ run[p].pc \in {"analyzers", "main"}
  BY DEF ExecInv, Sending
<1>2. Busy(p) /\ Working(run[p]) /\ Does(p) \in {"migrate", "rollback"}
  BY <1>1 DEF RunOK, RunType, CallType, Busy, Working, Does
<1>3. run[p].plan \in Seq(Migrations) /\ run[p].plan # << >>
  BY <1>1, <1>2 DEF RunOK, RunType
<1>4. m \in Migrations /\ m = run[p].plan[1] /\ 1 \in 1 .. Len(run[p].plan)
  BY <1>3, TailIs DEF Current
<1>5. recorded' = IF run[p].pc = "analyzers" THEN recorded
                  ELSE IF Undoes(p) THEN recorded \ {m} ELSE recorded \cup {m}
  BY DEF TakesEffect
<1> HIDE DEF m
<1>6. ASSUME ~Loose
      PROVE  ~HistoryBroken(recorded') /\ Continues(p)
  <2>1. ~HistoryBroken(recorded) /\ Forward(run[p], recorded) /\ Backward(run[p], recorded)
    BY <1>6 DEF ClosedInv
  <2>2. CASE run[p].pc = "analyzers"
    BY <1>5, <2>1, <2>2 DEF Continues
  <2>3. CASE run[p].pc = "main" /\ ~Undoes(p)
    <3>1. recorded' = recorded \cup {m} /\ Does(p) = "migrate"
      BY <1>2, <1>5, <2>3 DEF Undoes
    <3>2. run[p].seen \subseteq recorded /\ Follows(run[p].plan, run[p].seen)
      BY <1>2, <2>1, <3>1 DEF Forward, Does
    <3>3. \A d \in Dependencies[m] : d \in run[p].seen
      BY <1>4, <3>2 DEF Follows
    <3>4. Dependencies[m] \subseteq recorded
      BY <3>2, <3>3
    <3> QED
      BY <2>1, <3>1, <3>4 DEF HistoryBroken, Continues
  <2>4. CASE run[p].pc = "main" /\ Undoes(p)
    <3>1. recorded' = recorded \ {m} /\ Does(p) = "rollback"
      BY <1>5, <2>4 DEF Undoes
    <3>2. recorded \subseteq run[p].seen /\ Precedes(run[p].plan, run[p].seen)
      BY <1>2, <2>1, <3>1 DEF Backward, Does
    <3>3. \A d \in run[p].seen : m \notin Dependencies[d]
      BY <1>4, <3>2 DEF Precedes
    <3>4. \A d \in recorded : m \notin Dependencies[d]
      BY <3>2, <3>3
    <3> QED
      BY <2>1, <3>1, <3>4 DEF HistoryBroken, Continues
  <2> QED
    BY <1>1, <2>2, <2>3, <2>4
<1>7. recorded' \in SUBSET Migrations
  BY <1>1, <1>4, <1>5
<1> QED
  BY <1>1, <1>2, <1>3, <1>4, <1>5, <1>6, <1>7 DEF m

(* It took effect, and the call stays at its migration.                    *)
LEMMA SentStays ==
  ASSUME ExecInv, ClosedInv, NEW p \in Processes, Sending(p), TakesEffect(p), crossed' = crossed,
         NEW r, RunOK(r), r.call = run[p].call, r.plan = run[p].plan, r.seen = run[p].seen,
         r.pc = "data" => run[p].pc = "main", run' = [run EXCEPT ![p] = r]
  PROVE  ExecInv' /\ ClosedInv'
<1> DEFINE m == Current(p)
<1>1. /\ Busy(p) /\ Working(run[p]) /\ Does(p) \in {"migrate", "rollback"} /\ Does(p) = r.call.does
      /\ recorded' \in SUBSET Migrations /\ m = Head(r.plan)
      /\ run[p].pc = "analyzers" => recorded' = recorded
      /\ run[p].pc = "main" => recorded' = IF Does(p) = "rollback" THEN recorded \ {m} ELSE recorded \cup {m}
      /\ ~Loose => ~HistoryBroken(recorded') /\ Continues(p)
  BY BatchKeepsHistory DEF Does, Current, Undoes
<1>2. run[p].pc \in {"analyzers", "main"}
  BY DEF Sending
<1> HIDE DEF m
<1>3. ASSUME ~Loose
      PROVE  Forward(r, recorded') /\ Backward(r, recorded')
  <2>1. Forward(run[p], recorded) /\ Backward(run[p], recorded)
    BY <1>3 DEF ClosedInv
  <2>2. Forward(r, recorded')
    BY <1>1, <1>2, <2>1 DEF Forward
  <2>3. Backward(r, recorded')
    BY <1>1, <1>2, <2>1 DEF Backward
  <2> QED
    BY <2>2, <2>3
<1> QED
  BY <1>1, <1>3, RunChanges

LEMMA CommitsKeeps ==
  ASSUME ExecInv, ClosedInv, NEW p \in Processes, Commits(p)
  PROVE  ExecInv' /\ ClosedInv'
<1> DEFINE m == Current(p)
<1>1. Sending(p) /\ TakesEffect(p) /\ crossed' = crossed /\ run[p].pc \in {"analyzers", "main"}
  BY DEF Commits, Sending
<1>2. /\ RunOK(run[p]) /\ Busy(p) /\ Working(run[p]) /\ Does(p) \in {"migrate", "rollback"}
      /\ recorded' \in SUBSET Migrations /\ run[p].plan # << >> /\ m \in Migrations
      /\ run[p].pc = "main" => recorded' = IF Does(p) = "rollback" THEN recorded \ {m} ELSE recorded \cup {m}
      /\ ~Loose => ~HistoryBroken(recorded') /\ Continues(p)
  BY <1>1, BatchKeepsHistory DEF Undoes
<1>3. run[p] \in RunType({run[p].held}) /\ run[p].done \subseteq run[p].committed
  BY <1>2 DEF RunOK, Does
<1>4. CASE run[p].pc = "analyzers"
  <2> DEFINE r == [run[p] EXCEPT !.pending = TRUE, !.pc = "main"]
  <2>1. run' = [run EXCEPT ![p] = r]
    BY <1>3, <1>4 DEF Commits, Becomes, Noted, RunType
  <2>2. /\ r \in RunType({r.held}) /\ r.pc = "main" /\ r.call = run[p].call /\ r.plan = run[p].plan
        /\ r.seen = run[p].seen /\ r.done = run[p].done /\ r.committed = run[p].committed
    BY <1>3 DEF RunType
  <2> HIDE DEF r
  <2>3. RunOK(r)
    BY <1>2, <1>3, <2>2 DEF RunOK, Does
  <2> QED
    BY <1>1, <2>1, <2>2, <2>3, SentStays
<1>5. CASE run[p].pc = "main" /\ RunsData(p)
  <2> DEFINE r == [run[p] EXCEPT !.pending = FALSE, !.committed = run[p].committed \cup {m}, !.pc = "data"]
  <2>1. run' = [run EXCEPT ![p] = r]
    BY <1>3, <1>5 DEF Commits, Becomes, Noted, RunType
  <2>2. /\ r \in RunType({r.held}) /\ r.pc = "data" /\ r.call = run[p].call /\ r.plan = run[p].plan
        /\ r.seen = run[p].seen /\ r.done = run[p].done /\ r.committed = run[p].committed \cup {m}
    BY <1>2, <1>3 DEF RunType
  <2> HIDE DEF r
  <2>3. RunOK(r)
    BY <1>2, <1>3, <2>2 DEF RunOK, Does, Current
  <2> QED
    BY <1>1, <1>5, <2>1, <2>2, <2>3, SentStays
<1>6. CASE run[p].pc = "main" /\ ~RunsData(p)
  <2> DEFINE r == [run[p] EXCEPT !.pending = FALSE, !.committed = run[p].committed \cup {m}]
  <2>1. Noted(p) = r
    BY <1>6 DEF Noted
  <2>2. run' = [run EXCEPT ![p] = Moved(p, r, TRUE)]
    BY <1>6, <2>1 DEF Commits, Becomes
  <2>3. /\ r \in RunType({r.held}) /\ r.pc = "main" /\ r.call = run[p].call /\ r.plan = run[p].plan
        /\ r.seen = run[p].seen /\ r.done = run[p].done /\ r.committed = run[p].committed \cup {m}
    BY <1>2, <1>3, <1>6 DEF RunType
  <2> HIDE DEF r
  <2>4. RunOK(r) /\ Working(r)
    BY <1>2, <1>3, <2>3 DEF RunOK, Does, Working
  <2>5. ASSUME ~Loose
        PROVE  /\ Does(p) = "migrate" => r.seen \cup {m} \subseteq recorded' /\ Follows(r.plan, r.seen)
               /\ Does(p) = "rollback" => recorded' \subseteq r.seen \ {m} /\ Precedes(r.plan, r.seen)
    <3>1. Forward(run[p], recorded) /\ Backward(run[p], recorded)
      BY <2>5 DEF ClosedInv
    <3> QED
      BY <1>2, <1>6, <2>3, <3>1 DEF Forward, Backward, Does
  <2>6. m \in r.committed
    BY <2>3
  <2> HIDE DEF m
  <2> QED
    BY <1>1, <1>2, <2>2, <2>3, <2>4, <2>5, <2>6, MovesOn DEF m
<1> QED
  BY <1>1, <1>4, <1>5, <1>6

(* A failed batch: the call checks what it finds.                          *)
LEMMA FailsKeeps ==
  ASSUME ExecInv, ClosedInv, NEW p \in Processes, Sending(p), NEW failure \in {"refused", "conflict", "lost"},
         Becomes(p, Fails(p, failure)), crossed' = crossed, recorded' = recorded
  PROVE  ExecInv' /\ ClosedInv'
<1> DEFINE r == [run[p] EXCEPT !.pc = "checking", !.phase = run[p].pc, !.failure = failure]
<1>1. RunOK(run[p]) /\ run[p].pc \in {"analyzers", "main"}
  BY DEF ExecInv, Sending
<1>2. run[p] \in RunType({run[p].held}) /\ Working(run[p]) /\ Does(p) # "upgrade"
  BY <1>1 DEF RunOK, Working, Does
<1>3. /\ r \in RunType({r.held}) /\ r.pc = "checking" /\ r.call = run[p].call /\ r.plan = run[p].plan
      /\ r.seen = run[p].seen /\ r.done = run[p].done /\ r.committed = run[p].committed
  BY <1>1, <1>2 DEF RunType
<1>4. run' = [run EXCEPT ![p] = r]
  BY DEF Becomes, Fails
<1> HIDE DEF r
<1> QED
  BY <1>2, <1>3, <1>4, GoesKeeps

LEMMA IsRefusedKeeps ==
  ASSUME ExecInv, ClosedInv, NEW p \in Processes, IsRefused(p)
  PROVE  ExecInv' /\ ClosedInv'
<1>1. PICK failure \in {"refused", "conflict"} : Becomes(p, Fails(p, failure))
  BY DEF IsRefused
<1>2. Sending(p) /\ crossed' = crossed /\ recorded' = recorded
  BY DEF IsRefused
<1> QED
  BY <1>1, <1>2, FailsKeeps

LEMMA IsLostKeeps ==
  ASSUME ExecInv, ClosedInv, NEW p \in Processes, IsLost(p)
  PROVE  ExecInv' /\ ClosedInv'
<1>1. Sending(p) /\ crossed' = crossed /\ run[p].pc \in {"analyzers", "main"}
  BY DEF IsLost, Sending
<1>2. CASE Becomes(p, Fails(p, "lost")) /\ recorded' = recorded
  BY <1>1, <1>2, FailsKeeps
<1>3. CASE /\ TakesEffect(p)
           /\ Becomes(p, [Noted(p) EXCEPT !.pc = "checking", !.phase = run[p].pc, !.failure = "lost"])
  <2>1. RunOK(run[p]) /\ Working(run[p]) /\ Does(p) \in {"migrate", "rollback"} /\ Current(p) \in Migrations
    BY <1>1, <1>3, BatchKeepsHistory
  <2>2. run[p] \in RunType({run[p].held}) /\ run[p].done \subseteq run[p].committed /\ run[p].plan # << >>
    BY <2>1 DEF RunOK, Does
  <2>3. PICK pending \in BOOLEAN, committed \in SUBSET Migrations :
          /\ Noted(p) = [run[p] EXCEPT !.pending = pending, !.committed = committed]
          /\ run[p].committed \subseteq committed
    <3>1. CASE run[p].pc = "analyzers"
      <4>1. Noted(p) = [run[p] EXCEPT !.pending = TRUE, !.committed = run[p].committed]
        BY <2>2, <3>1 DEF Noted, RunType
      <4>2. run[p].committed \in SUBSET Migrations
        BY <2>2 DEF RunType
      <4> QED
        BY <4>1, <4>2
    <3>2. CASE run[p].pc = "main"
      <4>1. Noted(p) = [run[p] EXCEPT !.pending = FALSE, !.committed = run[p].committed \cup {Current(p)}]
        BY <3>2 DEF Noted
      <4>2. run[p].committed \cup {Current(p)} \in SUBSET Migrations
        BY <2>1, <2>2 DEF RunType
      <4> QED
        BY <4>1, <4>2
    <3> QED
      BY <1>1, <3>1, <3>2
  <2> DEFINE r == [run[p] EXCEPT !.pending = pending, !.committed = committed, !.pc = "checking",
                                 !.phase = run[p].pc, !.failure = "lost"]
  <2>4. run' = [run EXCEPT ![p] = r]
    BY <1>3, <2>2, <2>3 DEF Becomes, RunType
  <2>5. /\ r \in RunType({r.held}) /\ r.pc = "checking" /\ r.call = run[p].call /\ r.plan = run[p].plan
        /\ r.seen = run[p].seen /\ r.done = run[p].done /\ r.committed = committed
    BY <1>1, <2>2 DEF RunType
  <2> HIDE DEF r
  <2>6. RunOK(r)
    BY <2>1, <2>2, <2>3, <2>5 DEF RunOK, Does
  <2> QED
    BY <1>1, <1>3, <2>4, <2>5, <2>6, SentStays
<1> QED
  BY <1>2, <1>3 DEF IsLost

(* Skip and the end of the data operations: on, with the history as it is. *)
LEMMA PassesOn ==
  ASSUME ExecInv, ClosedInv, NEW p \in Processes, NEW done \in BOOLEAN,
         \/ run[p].pc = "checking" /\ FoundDone(p) /\ done = FALSE
         \/ run[p].pc = "data" /\ done = TRUE,
         Becomes(p, Moved(p, run[p], done)), crossed' = crossed, recorded' = recorded
  PROVE  ExecInv' /\ ClosedInv'
<1> DEFINE r == run[p]
           m == Current(p)
<1>1. /\ RunOK(r) /\ Working(r) /\ Busy(p) /\ recorded \in SUBSET Migrations
      /\ run' = [run EXCEPT ![p] = Moved(p, r, done)]
  BY DEF ExecInv, Working, Busy, Becomes
<1>2. done /\ Does(p) # "upgrade" => m \in r.committed
  BY <1>1 DEF RunOK, Does, Current
<1>3. ASSUME ~Loose
      PROVE  /\ ~HistoryBroken(recorded') /\ Continues(p)
             /\ Does(p) = "migrate" => r.seen \cup {m} \subseteq recorded' /\ Follows(r.plan, r.seen)
             /\ Does(p) = "rollback" => recorded' \subseteq r.seen \ {m} /\ Precedes(r.plan, r.seen)
  <2>1. ~HistoryBroken(recorded) /\ Forward(r, recorded) /\ Backward(r, recorded)
    BY <1>3 DEF ClosedInv
  <2>2. /\ Does(p) = "migrate" => m \in recorded
        /\ Does(p) = "rollback" => m \notin recorded
    BY <1>1, <2>1 DEF Forward, Backward, FoundDone, Does, Current
  <2> QED
    BY <1>1, <2>1, <2>2 DEF Forward, Backward, Continues, Does
<1> HIDE DEF m
<1> QED
  BY <1>1, <1>2, <1>3, MovesOn DEF m

(* What only its program counter tells apart: a compensation begins or     *)
(* goes on to the indexes.                                                 *)
LEMMA GoesOnKeeps ==
  ASSUME ExecInv, ClosedInv, NEW p \in Processes, run[p].pc \in {"checking", "compensating"},
         NEW pc \in {"compensating", "rebuilding"}, Goes(p, pc), crossed' = crossed, recorded' = recorded
  PROVE  ExecInv' /\ ClosedInv'
<1> DEFINE r == [run[p] EXCEPT !.pc = pc]
<1>1. RunOK(run[p])
  BY DEF ExecInv
<1>2. run[p] \in RunType({run[p].held}) /\ Working(run[p]) /\ Does(p) # "upgrade"
  BY <1>1 DEF RunOK, Working, Does
<1>3. /\ r \in RunType({r.held}) /\ r.pc = pc /\ r.call = run[p].call /\ r.plan = run[p].plan
      /\ r.seen = run[p].seen /\ r.done = run[p].done /\ r.committed = run[p].committed
  BY <1>2 DEF RunType
<1>4. run' = [run EXCEPT ![p] = r]
  BY DEF Goes, Becomes
<1> HIDE DEF r
<1> QED
  BY <1>2, <1>3, <1>4, GoesKeeps

LEMMA StepKeeps ==
  ASSUME ExecInv, ClosedInv, NEW p \in Processes, Step(p)
  PROVE  ExecInv' /\ ClosedInv'
<1>1. CASE ReadHistory(p)
  BY <1>1, ReadHistoryKeeps
<1>2. CASE NothingToDo(p)
  BY <1>2, CallEnds DEF NothingToDo, Busy, database
<1>3. CASE Prepare(p)
  BY <1>3, PrepareKeeps
<1>4. CASE Commits(p)
  BY <1>4, CommitsKeeps
<1>5. CASE IsRefused(p)
  BY <1>5, IsRefusedKeeps
<1>6. CASE IsLost(p)
  BY <1>6, IsLostKeeps
<1>7. CASE Skip(p)
  BY <1>7, PassesOn DEF Skip, database
<1>8. CASE Raise(p)
  <2>1. run[p].pc = "checking" /\ crossed' = crossed /\ recorded' = recorded /\ Busy(p)
    BY <1>8 DEF Raise, Busy, database
  <2>2. CASE Ends(p, run[p])
    BY <2>1, <2>2, CallEnds
  <2>3. CASE Ends(p, [run[p] EXCEPT !.pending = @ /\ run[p].failure = "conflict"])
    <3>1. PICK b \in BOOLEAN : b = (run[p].pending /\ run[p].failure = "conflict")
      OBVIOUS
    <3>2. Ends(p, [run[p] EXCEPT !.pending = b])
      BY <2>3, <3>1
    <3> QED
      BY <2>1, <3>2, EndsKeeps
  <2> QED
    BY <1>8, <2>2, <2>3 DEF Raise
<1>9. CASE StartCompensation(p)
  BY <1>9, GoesOnKeeps DEF StartCompensation, database
<1>10. CASE Compensate(p)
  <2>1. run[p].pc = "compensating" /\ crossed' = crossed /\ recorded' = recorded /\ Busy(p)
    BY <1>10 DEF Compensate, Busy
  <2>2. CASE Ends(p, [run[p] EXCEPT !.pending = FALSE])
    BY <2>1, <2>2, EndsKeeps
  <2>3. CASE Goes(p, "rebuilding")
    BY <2>1, <2>3, GoesOnKeeps
  <2> QED
    BY <1>10, <2>2, <2>3 DEF Compensate
<1>11. CASE RebuildIndexes(p)
  BY <1>11, EndsKeeps DEF RebuildIndexes, Busy
<1>12. CASE NotRestored(p)
  BY <1>12, CallEnds DEF NotRestored, Busy, database
<1>13. CASE RunData(p)
  BY <1>13, PassesOn DEF RunData, database
<1>14. CASE DataFails(p)
  BY <1>14, CallEnds DEF DataFails, Busy, database
<1>15. CASE Cancelled(p)
  BY <1>15, CallEnds DEF Cancelled, database
<1> QED
  BY <1>1, <1>2, <1>3, <1>4, <1>5, <1>6, <1>7, <1>8, <1>9, <1>10, <1>11, <1>12, <1>13, <1>14, <1>15
     DEF Step

(* A step that touches neither the calls nor the tracking table.           *)
LEMMA ElsewhereKeeps ==
  ASSUME ExecInv, ClosedInv, UNCHANGED <<recorded, run, crossed>>
  PROVE  ExecInv' /\ ClosedInv'
<1>1. ExecInv'
  BY DEF ExecInv
<1>2. ClosedInv'
  BY DEF ClosedInv, Loose, Damaged, Apart, Busy, Does
<1> QED
  BY <1>1, <1>2

LEMMA NextKeeps ==
  ASSUME ExecInv, ClosedInv, [Next]_vars
  PROVE  ExecInv' /\ ClosedInv'
<1>1. ASSUME NEW p \in Processes, Step(p) PROVE ExecInv' /\ ClosedInv'
  BY <1>1, StepKeeps
<1>2. ASSUME NEW p \in Processes, NEW call \in Calls, Begin(p, call) PROVE ExecInv' /\ ClosedInv'
  BY <1>2, BeginKeeps
<1>3. ASSUME NEW i \in ByHand, NEW a \in Analyzers, DefineByHand(i, a) PROVE ExecInv' /\ ClosedInv'
  BY <1>3, ElsewhereKeeps DEF DefineByHand
<1>4. CASE UNCHANGED vars
  BY <1>4, ElsewhereKeeps DEF vars
<1> QED
  BY <1>1, <1>2, <1>3, <1>4 DEF Next

LEMMA InitHolds ==
  ASSUME Init
  PROVE  ExecInv /\ ClosedInv
<1>1. recorded \in Histories /\ recorded \in SUBSET Migrations /\ crossed \in BOOLEAN
  BY ExecutorAssumption DEF Init
<1>2. run = [p \in Processes |-> Idle]
  BY DEF Init
<1>3. << >> \in Seq(Migrations)
  OBVIOUS
<1>4. Idle \in RunType({Idle.held}) /\ Idle.pc = "idle" /\ Idle.done = {} /\ Idle.call.does = "nothing"
  BY <1>3 DEF Idle, NoCall, RunType, CallType
<1>5. RunOK(Idle) /\ ~Working(Idle)
  BY <1>4 DEF RunOK, Working
<1>6. \A p \in Processes : run[p] = Idle
  BY <1>2
<1>7. ExecInv
  BY <1>1, <1>2, <1>5, <1>6 DEF ExecInv
<1>8. Apart /\ \A p \in Processes : Forward(run[p], recorded) /\ Backward(run[p], recorded)
  BY <1>4, <1>5, <1>6 DEF Apart, Busy, Forward, Backward
<1>9. HistoryBroken(recorded) => Damaged
  BY <1>1 DEF Damaged
<1> QED
  BY <1>7, <1>8, <1>9 DEF ClosedInv, Loose

(* Whatever the calls are and however they interleave, fail or end, the    *)
(* calls and the history stay as ExecInv and ClosedInv say (_apply()).     *)
THEOREM CallsInvariant == Spec => [](ExecInv /\ ClosedInv)
<1>1. Init => ExecInv /\ ClosedInv
  BY InitHolds
<1>2. ExecInv /\ ClosedInv /\ [Next]_vars => (ExecInv /\ ClosedInv)'
  BY NextKeeps
<1> QED
  BY <1>1, <1>2, PTL DEF Spec

(* A call of migrate() or rollback() returns, and runs the data operations *)
(* of, only migrations its own batches applied or undid: one that it found *)
(* done after a failed batch it skips (_apply(), _recorded()).             *)
THEOREM OwnWorkAlways == Spec => []OwnWork
<1>1. ExecInv => OwnWork
  <2> SUFFICES ASSUME ExecInv, NEW p \in Processes, Does(p) # "upgrade"
               PROVE  /\ run[p].done \subseteq run[p].committed
                      /\ run[p].pc = "data" => Current(p) \in run[p].committed
    BY DEF OwnWork
  <2>1. RunOK(run[p])
    BY DEF ExecInv
  <2> QED
    BY <2>1 DEF RunOK, Does, Current
<1> QED
  BY <1>1, CallsInvariant, PTL

(* From histories that are closed, and until a rollback() overlaps a       *)
(* migrate(), what is recorded has its dependencies recorded: what         *)
(* check_history() refuses (E-H1) no interleaving of calls brings about.   *)
THEOREM HistoryStaysClosed ==
  ASSUME \A h \in Histories : ~HistoryBroken(h)
  PROVE  Spec => []HistoryClosed
<1>1. ClosedInv => HistoryClosed
  BY DEF ClosedInv, Loose, Damaged, HistoryClosed
<1> QED
  BY <1>1, CallsInvariant, PTL
=============================================================================
