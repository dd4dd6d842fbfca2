------------------------ MODULE ServerClientsProofs ------------------------
(***************************************************************************)
(* Theorems of ServerClients for every value of its constants: no lock is  *)
(* left taken, no client of other settings cached, no stamp and no lost    *)
(* identity answered as another.                                           *)
(***************************************************************************)
EXTENDS ServerClients, SequenceTheorems, TLAPS

-----------------------------------------------------------------------------
(***************************************************************************)
(* What holds between the steps of calls, beside TypeOK and LocksLetGo.    *)
(***************************************************************************)
(* A call that is under way has a name, and only one sets an identity; the *)
(* stored session stays forgotten until invalidate() is over.              *)
Named(t) == task[t].pc \in Holding \cup {"waiting", "exchanging", "restoring"} => task[t].op # None

OneIdentity ==
  /\ \A t \in Tasks : /\ Named(t)
                      /\ task[t].pc = "exchanging" => Identifies(t)
                      /\ task[t].pc = "restoring" => /\ Identifies(t)
                                                     /\ token = None /\ chosen[LoopOf[t]] = None
  /\ \A t, u \in Tasks : Identifies(t) /\ Identifies(u) => t = u

(* The client a call opens: on the settings of its generation, as the      *)
(* configured user, with the stamp of the token it has sent; never for a   *)
(* get_client() on a loop that lost an identity.                           *)
Opens(t) ==
  Opening(t) =>
    /\ task[t].generation <= settings.generation
    /\ task[t].generation = settings.generation => task[t].built.on = settings.on
    /\ task[t].built.who = Configured /\ task[t].built.replayable
    /\ token # None => task[t].built.stamp = token
    /\ task[t].pc = "replaying" => task[t].sent = task[t].built.stamp
    /\ task[t].op = "get" => LoopOf[t] \notin lost

OpensRight == \A t \in Tasks : Opens(t)

(* A replayable client runs as its stamp says, or the stamp is of a token  *)
(* nobody has any more.                                                    *)
Stamped(c, held) ==
  c.replayable /\ c.who # Anonymous => c.who = c.stamp \/ c.stamp \notin {Configured, held}

Stamps == \A l \in Loops : Stamped(cached[l], token)

(* An identity set with store=False is that of the client of its loop, or  *)
(* lost, or about to be noted as lost.                                     *)
Chosen(l) ==
  chosen[l] # None =>
    \/ l \in lost
    \/ \E t \in Tasks : LoopOf[t] = l /\ task[t].pc = "discarding" /\ task[t].doomed
    \/ cached[l] # NoClient /\ cached[l].who = chosen[l] /\ ~cached[l].replayable

Choices == \A l \in Loops : Chosen(l)

-----------------------------------------------------------------------------
(***************************************************************************)
(* The lock of a loop.                                                     *)
(***************************************************************************)
(* Who the holder of a lock leaves behind.                                 *)
LEMMA Released ==
  ASSUME TypeOK, NEW t \in Tasks, Holder(t), Release(t)
  PROVE  LET l == LoopOf[t] IN
         /\ queue' \in [Loops -> Seq(Tasks)]
         /\ queue[l][1] = t
         /\ Len(queue'[l]) = Len(queue[l]) - 1
         /\ \A i \in DOMAIN queue'[l] : i + 1 \in DOMAIN queue[l] /\ queue'[l][i] = queue[l][i + 1]
         /\ \A k \in Loops \ {l} : queue'[k] = queue[k]
<1> DEFINE l == LoopOf[t]
           q == queue[l]
<1>1. l \in Loops
  BY ClientsAssumption
<1>2. q \in Seq(Tasks) /\ q # <<>>
  BY <1>1 DEF TypeOK, Holder
<1>3. /\ Tail(q) \in Seq(Tasks)
      /\ Len(Tail(q)) = Len(q) - 1
      /\ \A i \in 1 .. Len(Tail(q)) : Tail(q)[i] = q[i + 1]
  BY <1>2, HeadTailProperties
<1>4. queue' = [queue EXCEPT ![l] = Tail(q)]
  BY DEF Release
<1>5. queue'[l] = Tail(q) /\ \A k \in Loops \ {l} : queue'[k] = queue[k]
  BY <1>1, <1>4 DEF TypeOK
<1>6. queue' \in [Loops -> Seq(Tasks)]
  BY <1>1, <1>3, <1>4 DEF TypeOK
<1>7. DOMAIN q = 1 .. Len(q) /\ DOMAIN Tail(q) = 1 .. Len(Tail(q)) /\ Len(q) \in Nat
  BY <1>2, <1>3
<1>8. q[1] = t
  BY <1>2 DEF Holder
<1> HIDE DEF q
<1>9. \A i \in DOMAIN Tail(q) : i + 1 \in DOMAIN q /\ Tail(q)[i] = q[i + 1]
  BY <1>3, <1>7
<1> QED BY <1>3, <1>5, <1>6, <1>8, <1>9 DEF q

(* A step that leaves the queues alone, and every call in them.            *)
LEMMA LocksStay ==
  ASSUME TypeOK, LocksLetGo, UNCHANGED queue,
         \A u \in Tasks : task'[u].pc # task[u].pc =>
           task[u].pc \notin Holding \cup {"waiting"} /\ task'[u].pc \notin Holding,
         \A k \in Loops : cached[k] = NoClient => cached'[k] = NoClient
  PROVE  LocksLetGo'
<1>1. \A k \in Loops : \A i \in DOMAIN queue[k] : queue[k][i] \in Tasks
  BY DEF TypeOK
<1>2. ASSUME NEW k \in Loops, NEW i \in DOMAIN queue'[k], NEW j \in DOMAIN queue'[k]
      PROVE  /\ LoopOf[queue'[k][i]] = k
             /\ task'[queue'[k][i]].pc \in (IF i = 1 THEN Holding \cup {"waiting"} ELSE {"waiting"})
             /\ queue'[k][i] = queue'[k][j] => i = j
  BY <1>1, <1>2 DEF LocksLetGo, Holding
<1>3. ASSUME NEW u \in Tasks, task'[u].pc \in Holding
      PROVE  Holder(u)' /\ Mine(u)' = NoClient
  BY <1>3, ClientsAssumption DEF LocksLetGo, Holder, Mine
<1> QED BY <1>2, <1>3 DEF LocksLetGo

(* The holder of a lock goes on with it.                                   *)
LEMMA LocksHeld ==
  ASSUME TypeOK, LocksLetGo, NEW t \in Tasks, UNCHANGED queue, Holder(t),
         task'[t].pc \in Holding, cached'[LoopOf[t]] = NoClient,
         \A u \in Tasks \ {t} : task'[u].pc = task[u].pc,
         \A k \in Loops : cached[k] = NoClient => cached'[k] = NoClient
  PROVE  LocksLetGo'
<1>1. \A k \in Loops : \A i \in DOMAIN queue[k] : queue[k][i] \in Tasks
  BY DEF TypeOK
<1>2. LoopOf[t] \in Loops /\ queue[LoopOf[t]][1] = t /\ 1 \in DOMAIN queue[LoopOf[t]]
  <2>1. LoopOf[t] \in Loops
    BY ClientsAssumption
  <2>2. queue[LoopOf[t]] \in Seq(Tasks)
    BY <2>1 DEF TypeOK
  <2> QED BY <2>1, <2>2 DEF Holder
<1>3. ASSUME NEW k \in Loops, NEW i \in DOMAIN queue'[k], NEW j \in DOMAIN queue'[k]
      PROVE  /\ LoopOf[queue'[k][i]] = k
             /\ task'[queue'[k][i]].pc \in (IF i = 1 THEN Holding \cup {"waiting"} ELSE {"waiting"})
             /\ queue'[k][i] = queue'[k][j] => i = j
  <2>1. /\ LoopOf[queue[k][i]] = k
        /\ task[queue[k][i]].pc \in (IF i = 1 THEN Holding \cup {"waiting"} ELSE {"waiting"})
        /\ queue[k][i] = queue[k][j] => i = j
    BY <1>3 DEF LocksLetGo
  <2>2. queue[k][i] = t => i = 1
    BY <1>2, <1>3, <2>1 DEF LocksLetGo
  <2> QED BY <1>1, <1>3, <2>1, <2>2
<1>4. ASSUME NEW u \in Tasks, task'[u].pc \in Holding
      PROVE  Holder(u)' /\ Mine(u)' = NoClient
  BY <1>4, ClientsAssumption DEF LocksLetGo, Holder, Mine
<1> QED BY <1>3, <1>4 DEF LocksLetGo

(* The holder of a lock lets it go.                                        *)
LEMMA LocksReleased ==
  ASSUME TypeOK, LocksLetGo, NEW t \in Tasks, Holder(t), Release(t),
         task'[t].pc \notin Holding,
         \A u \in Tasks \ {t} : task'[u].pc = task[u].pc,
         \A k \in Loops \ {LoopOf[t]} : cached[k] = NoClient => cached'[k] = NoClient
  PROVE  LocksLetGo'
<1> DEFINE l == LoopOf[t]
<1>1. l \in Loops
  BY ClientsAssumption
<1>2. \A k \in Loops : queue[k] \in Seq(Tasks) /\ \A i \in DOMAIN queue[k] : queue[k][i] \in Tasks
  BY DEF TypeOK
<1>3. /\ queue' \in [Loops -> Seq(Tasks)]
      /\ queue[l][1] = t
      /\ Len(queue'[l]) = Len(queue[l]) - 1
      /\ \A i \in DOMAIN queue'[l] : i + 1 \in DOMAIN queue[l] /\ queue'[l][i] = queue[l][i + 1]
      /\ \A k \in Loops \ {l} : queue'[k] = queue[k]
  BY Released
<1>4. 1 \in DOMAIN queue[l]
  BY <1>1, <1>2 DEF Holder
<1>5. \A k \in Loops : \A i \in DOMAIN queue[k] : queue[k][i] = t => k = l /\ i = 1
  BY <1>1, <1>3, <1>4 DEF LocksLetGo
<1>6. ASSUME NEW k \in Loops, NEW i \in DOMAIN queue'[k], NEW j \in DOMAIN queue'[k]
      PROVE  /\ LoopOf[queue'[k][i]] = k
             /\ task'[queue'[k][i]].pc \in (IF i = 1 THEN Holding \cup {"waiting"} ELSE {"waiting"})
             /\ queue'[k][i] = queue'[k][j] => i = j
  <2>1. CASE k # l
    <3>1. queue'[k] = queue[k]
      BY <1>3, <2>1
    <3>2. queue[k][i] # t
      BY <1>5, <1>6, <2>1, <3>1
    <3> QED BY <1>2, <1>6, <3>1, <3>2 DEF LocksLetGo
  <2>2. CASE k = l
    <3>1. i \in Nat \ {0} /\ j \in Nat \ {0}
      <4>1. queue'[l] \in Seq(Tasks)
        BY <1>1, <1>3
      <4> QED BY <1>6, <2>2, <4>1
    <3>2. /\ i + 1 \in DOMAIN queue[l] /\ queue'[l][i] = queue[l][i + 1]
          /\ j + 1 \in DOMAIN queue[l] /\ queue'[l][j] = queue[l][j + 1]
      BY <1>3, <1>6, <2>2
    <3>3. i + 1 # 1
      BY <3>1
    <3>4. queue[l][i + 1] \in Tasks \ {t} /\ task[queue[l][i + 1]].pc = "waiting" /\ LoopOf[queue[l][i + 1]] = l
      BY <1>1, <1>2, <1>5, <3>2, <3>3 DEF LocksLetGo
    <3>5. queue[l][i + 1] = queue[l][j + 1] => i + 1 = j + 1
      BY <1>1, <3>2 DEF LocksLetGo
    <3> QED BY <2>2, <3>1, <3>2, <3>4, <3>5
  <2> QED BY <2>1, <2>2
<1>7. ASSUME NEW u \in Tasks, task'[u].pc \in Holding
      PROVE  Holder(u)' /\ Mine(u)' = NoClient
  <2>1. u # t /\ task[u].pc \in Holding
    BY <1>7
  <2>2. Holder(u) /\ Mine(u) = NoClient
    BY <2>1 DEF LocksLetGo
  <2>3. LoopOf[u] \in Loops \ {l}
    BY <2>1, <2>2, ClientsAssumption DEF Holder
  <2> QED BY <1>3, <2>2, <2>3 DEF Holder, Mine
<1> QED BY <1>6, <1>7 DEF LocksLetGo

(* A call waits for the lock, behind the others.                           *)
LEMMA LocksAppended ==
  ASSUME TypeOK, LocksLetGo, NEW t \in Tasks, task[t].pc = "idle", task'[t].pc = "waiting",
         queue' = [queue EXCEPT ![LoopOf[t]] = Append(@, t)],
         \A u \in Tasks \ {t} : task'[u].pc = task[u].pc,
         UNCHANGED cached
  PROVE  queue' \in [Loops -> Seq(Tasks)] /\ LocksLetGo'
<1> DEFINE l == LoopOf[t]
           q == queue[l]
<1>1. l \in Loops
  BY ClientsAssumption
<1>2. \A k \in Loops : queue[k] \in Seq(Tasks) /\ \A i \in DOMAIN queue[k] : queue[k][i] \in Tasks
  BY DEF TypeOK
<1>3. /\ Append(q, t) \in Seq(Tasks)
      /\ Append(q, t) # <<>>
      /\ Len(Append(q, t)) = Len(q) + 1
      /\ \A i \in 1 .. Len(q) : Append(q, t)[i] = q[i]
      /\ Append(q, t)[Len(q) + 1] = t
  <2>1. q \in Seq(Tasks)
    BY <1>1, <1>2
  <2> HIDE DEF q
  <2> QED BY <2>1, AppendProperties
<1>4. queue' \in [Loops -> Seq(Tasks)] /\ queue'[l] = Append(q, t) /\ \A k \in Loops \ {l} : queue'[k] = queue[k]
  BY <1>1, <1>3 DEF TypeOK
<1>5. Len(q) \in Nat /\ DOMAIN q = 1 .. Len(q) /\ DOMAIN queue'[l] = 1 .. Len(q) + 1
  BY <1>1, <1>2, <1>3, <1>4
<1>6. \A k \in Loops : \A i \in DOMAIN queue[k] : queue[k][i] # t
  BY DEF LocksLetGo, Holding
<1> HIDE DEF q
<1>7. ASSUME NEW k \in Loops, NEW i \in DOMAIN queue'[k], NEW j \in DOMAIN queue'[k]
      PROVE  /\ LoopOf[queue'[k][i]] = k
             /\ task'[queue'[k][i]].pc \in (IF i = 1 THEN Holding \cup {"waiting"} ELSE {"waiting"})
             /\ queue'[k][i] = queue'[k][j] => i = j
  <2>1. CASE k # l
    BY <1>2, <1>4, <1>6, <1>7, <2>1 DEF LocksLetGo
  <2>2. CASE k = l
    <3>1. /\ i \in 1 .. Len(q) + 1 /\ j \in 1 .. Len(q) + 1
          /\ queue'[l][i] = IF i = Len(q) + 1 THEN t ELSE q[i]
          /\ queue'[l][j] = IF j = Len(q) + 1 THEN t ELSE q[j]
      BY <1>3, <1>4, <1>5, <1>7, <2>2
    <3>2. ASSUME NEW m \in 1 .. Len(q)
          PROVE  /\ q[m] \in Tasks /\ q[m] # t /\ LoopOf[q[m]] = l
                 /\ task[q[m]].pc \in (IF m = 1 THEN Holding \cup {"waiting"} ELSE {"waiting"})
                 /\ \A n \in 1 .. Len(q) : q[m] = q[n] => m = n
      BY <1>1, <1>2, <1>5, <1>6, <3>2 DEF LocksLetGo, q
    <3> QED BY <1>5, <2>2, <3>1, <3>2
  <2> QED BY <2>1, <2>2
<1>8. ASSUME NEW u \in Tasks, task'[u].pc \in Holding
      PROVE  Holder(u)' /\ Mine(u)' = NoClient
  <2>1. u # t /\ Holder(u) /\ Mine(u) = NoClient
    BY <1>8 DEF LocksLetGo, Holding
  <2>2. LoopOf[u] \in Loops
    BY ClientsAssumption
  <2>3. CASE LoopOf[u] = l
    <3>1. q # <<>> /\ q[1] = u
      BY <2>1, <2>3 DEF Holder, q
    <3>2. 1 \in 1 .. Len(q)
      BY <1>1, <1>2, <1>5, <3>1 DEF q
    <3> QED BY <1>3, <1>4, <2>1, <2>3, <3>1, <3>2 DEF Holder, Mine
  <2>4. CASE LoopOf[u] # l
    BY <1>4, <2>1, <2>2, <2>4 DEF Holder, Mine
  <2> QED BY <2>3, <2>4
<1> QED BY <1>4, <1>7, <1>8 DEF LocksLetGo

(* A call that is cancelled leaves the queue, wherever it is.              *)
LEMMA LocksLeft ==
  ASSUME TypeOK, LocksLetGo, NEW t \in Tasks, Cancel(t)
  PROVE  queue' \in [Loops -> Seq(Tasks)] /\ LocksLetGo'
<1> DEFINE l == LoopOf[t]
           q == queue[l]
<1>1. l \in Loops
  BY ClientsAssumption
<1>2. \A k \in Loops : queue[k] \in Seq(Tasks) /\ \A i \in DOMAIN queue[k] : queue[k][i] \in Tasks
  BY DEF TypeOK
<1>3. PICK n \in DOMAIN q : q[n] = t /\ queue' = [queue EXCEPT ![l] = Without(@, n)]
  BY DEF Cancel
<1>4. Len(q) \in Nat /\ DOMAIN q = 1 .. Len(q)
  BY <1>1, <1>2
<1>5. /\ Without(q, n) \in Seq(Tasks)
      /\ Len(Without(q, n)) = Len(q) - 1
      /\ \A i \in 1 .. Len(q) - 1 : Without(q, n)[i] = q[IF i < n THEN i ELSE i + 1]
  <2>1. Len(q) - 1 \in Nat /\ \A i \in 1 .. Len(q) - 1 : i \in DOMAIN q /\ i + 1 \in DOMAIN q
    BY <1>3, <1>4
  <2>2. Without(q, n) \in [1 .. Len(q) - 1 -> Tasks]
    BY <1>1, <1>2, <2>1 DEF Without
  <2> QED BY <2>1, <2>2 DEF Without
<1>6. queue' \in [Loops -> Seq(Tasks)] /\ queue'[l] = Without(q, n) /\ \A k \in Loops \ {l} : queue'[k] = queue[k]
  BY <1>1, <1>3, <1>5 DEF TypeOK
<1>7. \A k \in Loops : \A i \in DOMAIN queue[k] : queue[k][i] = t => k = l /\ i = n
  BY <1>1, <1>3 DEF LocksLetGo
<1>8. task' = [task EXCEPT ![t] = Idle] /\ cached' = cached
  BY DEF Cancel, Ends
<1>9. task'[t].pc = "idle" /\ \A u \in Tasks \ {t} : task'[u] = task[u]
  BY <1>8 DEF TypeOK, Idle
<1> HIDE DEF q
<1>10. ASSUME NEW m \in 1 .. Len(q)
       PROVE  /\ q[m] \in Tasks /\ LoopOf[q[m]] = l /\ (q[m] = t => m = n)
              /\ task[q[m]].pc \in (IF m = 1 THEN Holding \cup {"waiting"} ELSE {"waiting"})
              /\ \A k \in 1 .. Len(q) : q[m] = q[k] => m = k
  BY <1>1, <1>2, <1>4, <1>7, <1>10 DEF LocksLetGo, q
<1>11. ASSUME NEW k \in Loops, NEW i \in DOMAIN queue'[k], NEW j \in DOMAIN queue'[k]
       PROVE  /\ LoopOf[queue'[k][i]] = k
              /\ task'[queue'[k][i]].pc \in (IF i = 1 THEN Holding \cup {"waiting"} ELSE {"waiting"})
              /\ queue'[k][i] = queue'[k][j] => i = j
  <2>1. CASE k # l
    BY <1>2, <1>6, <1>7, <1>9, <1>11, <2>1 DEF LocksLetGo
  <2>2. CASE k = l
    <3> DEFINE f(x) == IF x < n THEN x ELSE x + 1
    <3>1. i \in 1 .. Len(q) - 1 /\ j \in 1 .. Len(q) - 1
      BY <1>5, <1>6, <1>11, <2>2
    <3>2. queue'[l][i] = q[f(i)] /\ queue'[l][j] = q[f(j)]
      BY <1>5, <1>6, <3>1
    <3>3. /\ f(i) \in 1 .. Len(q) /\ f(j) \in 1 .. Len(q) /\ f(i) # n /\ (f(i) = 1 => i = 1)
          /\ (f(i) = f(j) => i = j)
      BY <1>3, <1>4, <3>1
    <3> HIDE DEF f
    <3>4. q[f(i)] \in Tasks \ {t} /\ LoopOf[q[f(i)]] = l /\ (q[f(i)] = q[f(j)] => f(i) = f(j))
      BY <1>10, <3>3
    <3>5. task[q[f(i)]].pc \in (IF f(i) = 1 THEN Holding \cup {"waiting"} ELSE {"waiting"})
      BY <1>10, <3>3
    <3> QED BY <1>9, <2>2, <3>2, <3>3, <3>4, <3>5
  <2> QED BY <2>1, <2>2
<1>12. ASSUME NEW u \in Tasks, task'[u].pc \in Holding
       PROVE  Holder(u)' /\ Mine(u)' = NoClient
  <2>1. u # t /\ Holder(u) /\ Mine(u) = NoClient
    BY <1>9, <1>12 DEF LocksLetGo, Holding
  <2>2. LoopOf[u] \in Loops
    BY ClientsAssumption
  <2>3. CASE LoopOf[u] = l
    <3>1. q # <<>> /\ q[1] = u
      BY <2>1, <2>3 DEF Holder, q
    <3>2. 1 \in 1 .. Len(q) /\ n # 1
      BY <1>1, <1>2, <1>3, <1>4, <2>1, <3>1 DEF q
    <3>3. n \in 2 .. Len(q)
      BY <1>3, <1>4, <3>2
    <3>4. 1 \in 1 .. Len(q) - 1 /\ queue'[l][1] = q[1]
      BY <1>4, <1>5, <1>6, <3>3
    <3>5. queue'[l] # <<>>
      BY <1>5, <1>6, <3>4
    <3> QED BY <1>1, <1>8, <2>1, <2>3, <3>1, <3>4, <3>5 DEF Holder, Mine
  <2>4. CASE LoopOf[u] # l
    BY <1>6, <1>8, <2>1, <2>2, <2>4 DEF Holder, Mine
  <2> QED BY <2>3, <2>4
<1> QED BY <1>6, <1>11, <1>12 DEF LocksLetGo
-----------------------------------------------------------------------------
(***************************************************************************)
(* Types.                                                                  *)
(***************************************************************************)
(* A call as TypeOK has it.                                                *)
Right(c) ==
  /\ c \in Call
  /\ c.op = "signin" <=> c.to # None
  /\ c.pc \in {"opening", "replaying"} <=> c.built # NoClient
  /\ c.pc = "replaying" <=> c.sent # None

LEMMA IdleRight ==
  /\ Right(Idle)
  /\ NoClient \notin Client
BY ClientsAssumption DEF Right, Idle, Call, NoClient, Client, Holding, None

LEMMA AllRight ==
  ASSUME TypeOK
  PROVE  \A t \in Tasks : Right(task[t])
BY DEF TypeOK, Right, Opening

(* Handing a client over ends the acquisition.                             *)
LEMMA HandsRight ==
  ASSUME NEW t \in Tasks, NEW call, Right(call), task \in [Tasks -> Call], Hands(t, call)
  PROVE  /\ task' \in [Tasks -> Call] /\ Right(task'[t])
         /\ task'[t].pc \in {"has", "exchanging"} /\ task'[t].op = call.op
         /\ task'[t].holds
         /\ call.op # None => (task'[t].pc = "exchanging" => call.op \in {"signin", "invalidate"})
         /\ \A u \in Tasks \ {t} : task'[u] = task[u]
<1>1. Right(Idle)
  BY IdleRight
<1> DEFINE a == Asked(call)
           c == [a EXCEPT !.pc = IF call.op = "get" THEN "has" ELSE "exchanging", !.holds = TRUE]
<1>2. Right(c)
  <2>1. /\ call.op \in {None, "get", "signin", "invalidate"} /\ call.to \in Identity \cup {None}
        /\ call.kept \in BOOLEAN
    BY DEF Right, Call
  <2>2. a \in Call
    BY <1>1, <2>1 DEF Right, Call, Asked
  <2>3. a.op = call.op /\ a.to = call.to /\ a.built = NoClient /\ a.sent = None
    BY DEF Idle, Asked
  <2> HIDE DEF a
  <2>4. c \in Call
    BY <2>2 DEF Call
  <2>5. c.pc \in {"has", "exchanging"} /\ c.op = a.op /\ c.to = a.to /\ c.built = a.built /\ c.sent = a.sent
    BY <2>2 DEF Call
  <2> QED BY <2>3, <2>4, <2>5 DEF Right
<1>3. task' = [task EXCEPT ![t] = c]
  BY DEF Hands
<1>4. task'[t] = c /\ \A u \in Tasks \ {t} : task'[u] = task[u]
  BY <1>3
<1>5. c.pc \in {"has", "exchanging"} /\ c.op = call.op /\ c.holds
  BY DEF Idle, Asked
<1>6. call.op # None => (c.pc = "exchanging" => call.op \in {"signin", "invalidate"})
  BY DEF Idle, Asked, Right, Call
<1> QED BY <1>2, <1>3, <1>4, <1>5, <1>6 DEF Right

LEMMA RetiredRight ==
  ASSUME NEW tasks \in [Tasks -> Call], NEW l
  PROVE  /\ Retired(l, tasks) \in [Tasks -> Call]
         /\ AllRetired(tasks) \in [Tasks -> Call]
         /\ \A t \in Tasks : \A c \in {Retired(l, tasks)[t], AllRetired(tasks)[t]} :
              /\ c.pc = tasks[t].pc /\ c.op = tasks[t].op /\ c.to = tasks[t].to
              /\ c.built = tasks[t].built /\ c.sent = tasks[t].sent
              /\ c.generation = tasks[t].generation /\ c.doomed = tasks[t].doomed
<1>1. \A t \in Tasks : [tasks[t] EXCEPT !.holds = FALSE] \in Call
  BY DEF Call
<1>2. \A t \in Tasks : Retired(l, tasks)[t] \in {tasks[t], [tasks[t] EXCEPT !.holds = FALSE]}
  BY DEF Retired
<1>3. \A t \in Tasks : AllRetired(tasks)[t] = [tasks[t] EXCEPT !.holds = FALSE]
  BY DEF AllRetired
<1>4. ASSUME NEW t \in Tasks, NEW c \in {tasks[t], [tasks[t] EXCEPT !.holds = FALSE]}
      PROVE  /\ c.pc = tasks[t].pc /\ c.op = tasks[t].op /\ c.to = tasks[t].to
             /\ c.built = tasks[t].built /\ c.sent = tasks[t].sent
             /\ c.generation = tasks[t].generation /\ c.doomed = tasks[t].doomed
  <2>1. tasks[t] \in Call
    OBVIOUS
  <2> QED BY <1>4, <2>1 DEF Call
<1>5. Retired(l, tasks) \in [Tasks -> Call] /\ AllRetired(tasks) \in [Tasks -> Call]
  BY <1>1 DEF Retired, AllRetired
<1>6. \A t \in Tasks : \A c \in {Retired(l, tasks)[t], AllRetired(tasks)[t]} :
        c \in {tasks[t], [tasks[t] EXCEPT !.holds = FALSE]}
  BY <1>2, <1>3
<1> HIDE DEF Retired, AllRetired
<1> QED BY <1>4, <1>5, <1>6

LEMMA AllTyped ==
  ASSUME TypeOK, task' \in [Tasks -> Call], \A u \in Tasks : Right(task'[u]),
         UNCHANGED <<settings, queue>>, cached' \in [Loops -> Client \cup {NoClient}],
         lost' \subseteq Loops, chosen' \in [Loops -> Identity \cup {None}], token' \in Identity \cup {None}
  PROVE  TypeOK'
BY DEF TypeOK, Right, Opening

LEMMA Typed ==
  ASSUME TypeOK, task' \in [Tasks -> Call], \A u \in Tasks : Right(task'[u]),
         queue' \in [Loops -> Seq(Tasks)], cached' \in [Loops -> Client \cup {NoClient}],
         UNCHANGED <<settings, lost, chosen>>, token' \in {token, None}
  PROVE  TypeOK'
BY DEF TypeOK, Right, Opening

(***************************************************************************)
(* Each action keeps the types and the locks.                              *)
(***************************************************************************)
LEMMA EnterKeeps ==
  ASSUME TypeOK, LocksLetGo, NEW t \in Tasks, NEW call, Right(call), call.pc = "waiting", Enter(t, call)
  PROVE  TypeOK' /\ LocksLetGo'
<1> USE DEF Right, Opening
<1>1. /\ task[t].pc = "idle" /\ LoopOf[t] \in Loops /\ task \in [Tasks -> Call]
      /\ UNCHANGED <<settings, token, cached, lost, chosen>>
  BY ClientsAssumption DEF Enter, TypeOK
<1>2. \A u \in Tasks : Right(task[u])
  BY AllRight
<1>3. CASE UNCHANGED <<task, queue>>
  <2>1. LocksLetGo'
    BY <1>1, <1>3, LocksStay
  <2> QED BY <1>1, <1>3, <2>1 DEF TypeOK
<1>4. CASE Hands(t, call) /\ UNCHANGED queue
  <2>1. /\ task' \in [Tasks -> Call] /\ Right(task'[t]) /\ task'[t].pc \in {"has", "exchanging"}
        /\ \A u \in Tasks \ {t} : task'[u] = task[u]
    BY <1>1, <1>4, HandsRight
  <2>2. LocksLetGo'
    BY <1>1, <1>4, <2>1, LocksStay DEF Holding
  <2>3. \A u \in Tasks : Right(task'[u])
    BY ONLY <2>1, <1>2
  <2>4. queue' \in [Loops -> Seq(Tasks)] /\ cached' \in [Loops -> Client \cup {NoClient}] /\ token' = token
    BY <1>1, <1>4 DEF TypeOK
  <2> QED BY <1>1, <2>1, <2>2, <2>3, <2>4, Typed
<1>5. CASE task' = [task EXCEPT ![t] = call] /\ queue' = [queue EXCEPT ![LoopOf[t]] = Append(@, t)]
  <2>1. task' \in [Tasks -> Call] /\ task'[t] = call /\ \A u \in Tasks \ {t} : task'[u] = task[u]
    BY <1>1, <1>5
  <2>2. queue' \in [Loops -> Seq(Tasks)] /\ LocksLetGo'
    BY <1>1, <1>5, <2>1, LocksAppended
  <2> QED BY <1>1, <2>1, <2>2 DEF TypeOK
<1> QED BY <1>3, <1>4, <1>5 DEF Enter

(* The holder of the lock opens a client, or gives up.                     *)
LEMMA ConnectKeeps ==
  ASSUME TypeOK, LocksLetGo, NEW t \in Tasks, task[t].pc \in {"waiting", "discarding"}, Holder(t),
         Mine(t) = NoClient, UNCHANGED cached, NEW losses, Connect(t, losses)
  PROVE  /\ task' \in [Tasks -> Call] /\ \A u \in Tasks : Right(task'[u])
         /\ queue' \in [Loops -> Seq(Tasks)]
         /\ LocksLetGo'
<1>1. LoopOf[t] \in Loops /\ task \in [Tasks -> Call] /\ \A u \in Tasks : Right(task[u])
  BY ClientsAssumption, AllRight DEF TypeOK
<1>2. CASE Release(t) /\ Ends(t)
  <2>1. task'[t] = Idle /\ task' \in [Tasks -> Call] /\ \A u \in Tasks \ {t} : task'[u] = task[u]
    BY <1>1, <1>2, IdleRight DEF Ends, Right
  <2>2. task'[t].pc \notin Holding
    BY <2>1 DEF Idle, Holding
  <2>3. LocksLetGo'
    BY <1>2, <2>1, <2>2, LocksReleased
  <2> QED BY <1>1, <1>2, <2>1, <2>3, IdleRight, Released
<1> DEFINE built == [on |-> settings.on, who |-> Configured, stamp |-> ReplayIdentity,
                     replayable |-> TRUE, up |-> TRUE]
           a == Asked(task[t])
           c == [a EXCEPT !.pc = "opening", !.generation = settings.generation, !.built = built]
<1>3. CASE settings.on # None /\ task' = [task EXCEPT ![t] = c] /\ UNCHANGED queue
  <2>1. built \in Client
    BY <1>3, ClientsAssumption DEF Client, Identity, ReplayIdentity, TypeOK
  <2>2. Right(Idle) /\ Right(task[t]) /\ settings.generation \in 0 .. MaxGeneration
    BY <1>1, IdleRight DEF TypeOK
  <2>3. a \in Call
    BY <2>2 DEF Right, Call, Asked
  <2>4. a.op = task[t].op /\ a.to = task[t].to /\ a.sent = None
    BY DEF Idle, Asked
  <2> HIDE DEF a, built
  <2>5. c \in Call
    BY <2>1, <2>2, <2>3 DEF Call, Holding
  <2>6. c.pc = "opening" /\ c.op = a.op /\ c.to = a.to /\ c.sent = a.sent /\ c.built = built
    BY <2>3 DEF Call
  <2>7. Right(c)
    BY <2>1, <2>2, <2>4, <2>5, <2>6, IdleRight DEF Right
  <2>8. task' \in [Tasks -> Call] /\ task'[t] = c /\ \A u \in Tasks \ {t} : task'[u] = task[u]
    BY <1>1, <1>3, <2>5
  <2>9. c.pc \in Holding
    BY <2>6 DEF Holding
  <2>10. LocksLetGo'
    BY <1>3, <2>8, <2>9, LocksHeld DEF Mine
  <2> QED BY <1>1, <1>3, <2>7, <2>8, <2>10 DEF TypeOK
<1> QED BY <1>2, <1>3 DEF Connect

LEMMA LockedKeeps ==
  ASSUME TypeOK, LocksLetGo, NEW t \in Tasks, Locked(t)
  PROVE  TypeOK' /\ LocksLetGo'
<1>1. /\ task[t].pc = "waiting" /\ Holder(t) /\ LoopOf[t] \in Loops /\ task \in [Tasks -> Call]
      /\ \A u \in Tasks : Right(task[u])
      /\ UNCHANGED <<settings, token, lost, chosen>>
  BY ClientsAssumption, AllRight DEF Locked, TypeOK
<1>2. CASE Release(t) /\ Hands(t, task[t]) /\ UNCHANGED cached
  <2>1. /\ task' \in [Tasks -> Call] /\ Right(task'[t]) /\ task'[t].pc \in {"has", "exchanging"}
        /\ \A u \in Tasks \ {t} : task'[u] = task[u]
    BY <1>1, <1>2, HandsRight
  <2>2. LocksLetGo' /\ queue' \in [Loops -> Seq(Tasks)]
    BY <1>1, <1>2, <2>1, LocksReleased, Released DEF Holding
  <2>3. \A u \in Tasks : Right(task'[u])
    BY <1>1, <2>1
  <2>4. cached' \in [Loops -> Client \cup {NoClient}]
    BY <1>2 DEF TypeOK
  <2> QED BY <1>1, <2>1, <2>2, <2>3, <2>4, Typed
<1> DEFINE retired == Retired(LoopOf[t], task)
<1>3. CASE /\ cached' = [cached EXCEPT ![LoopOf[t]] = NoClient]
           /\ task' = [retired EXCEPT ![t].pc = "discarding", ![t].doomed = ~Mine(t).replayable]
           /\ Mine(t) # NoClient
           /\ UNCHANGED queue
  <2>1. Mine(t).replayable \in BOOLEAN
    BY <1>1, <1>3 DEF TypeOK, Mine, Client
  <2>2. retired \in [Tasks -> Call]
    BY <1>1, RetiredRight
  <2>3. \A u \in Tasks : Right(retired[u]) /\ retired[u].pc = task[u].pc
    BY <1>1, <2>2, RetiredRight DEF Right
  <2> HIDE DEF retired
  <2> DEFINE c == [retired[t] EXCEPT !.pc = "discarding", !.doomed = ~Mine(t).replayable]
  <2>4. task' = [retired EXCEPT ![t] = c]
    BY <1>3, <2>2
  <2>5. c \in Call /\ c.pc = "discarding"
    BY <2>1, <2>2 DEF Call, Holding
  <2>6. c.op = retired[t].op /\ c.to = retired[t].to /\ c.built = retired[t].built /\ c.sent = retired[t].sent
    BY <2>2 DEF Call
  <2>7. Right(c)
    BY <1>1, <2>3, <2>5, <2>6 DEF Right
  <2>8. /\ task' \in [Tasks -> Call] /\ task'[t] = c
        /\ \A u \in Tasks \ {t} : task'[u] = retired[u]
    BY <2>2, <2>4, <2>5
  <2>9. cached' \in [Loops -> Client \cup {NoClient}] /\ cached'[LoopOf[t]] = NoClient
    BY <1>1, <1>3 DEF TypeOK
  <2>10. \A k \in Loops : cached[k] = NoClient => cached'[k] = NoClient
    BY <1>1, <1>3 DEF TypeOK
  <2>11. LocksLetGo'
    BY <1>1, <1>3, <2>3, <2>5, <2>8, <2>9, <2>10, LocksHeld DEF Holding
  <2> HIDE DEF c
  <2>12. \A u \in Tasks : Right(task'[u])
    BY <2>3, <2>7, <2>8
  <2>13. queue' \in [Loops -> Seq(Tasks)]
    BY <1>3 DEF TypeOK
  <2> QED BY <1>1, <2>8, <2>9, <2>11, <2>12, <2>13, Typed
<1>4. CASE ~Reuse(t) /\ ~(Mine(t) # NoClient /\ ~Mine(t).up) /\ Connect(t, lost) /\ UNCHANGED cached
  <2>1. Mine(t) = NoClient
    BY <1>1, <1>4 DEF Reuse, Alive
  <2>2. /\ task' \in [Tasks -> Call] /\ \A u \in Tasks : Right(task'[u])
        /\ queue' \in [Loops -> Seq(Tasks)] /\ LocksLetGo'
    BY <1>1, <1>4, <2>1, ConnectKeeps
  <2>3. cached' \in [Loops -> Client \cup {NoClient}]
    BY <1>4 DEF TypeOK
  <2> QED BY <1>1, <2>2, <2>3, Typed
<1> QED BY <1>2, <1>3, <1>4 DEF Locked

LEMMA DiscardedKeeps ==
  ASSUME TypeOK, LocksLetGo, NEW t \in Tasks, Discarded(t)
  PROVE  TypeOK' /\ LocksLetGo'
<1>1. Holder(t) /\ Mine(t) = NoClient /\ LoopOf[t] \in Loops
  BY ClientsAssumption DEF Discarded, LocksLetGo, Holding
<1>2. lost' \subseteq Loops
  BY <1>1 DEF Discarded, Losses, TypeOK
<1> QED BY <1>1, <1>2, ConnectKeeps DEF Discarded, TypeOK, Right, Opening

(* The client a call opened is published, or closed.                       *)
LEMMA PublishKeeps ==
  ASSUME TypeOK, LocksLetGo, NEW t \in Tasks, Opening(t), NEW client \in Client, NEW handed,
         Publish(t, client, handed), UNCHANGED <<settings, lost, chosen>>, token' \in {token, None}
  PROVE  TypeOK' /\ LocksLetGo'
<1>1. /\ Holder(t) /\ LoopOf[t] \in Loops /\ task \in [Tasks -> Call]
      /\ \A u \in Tasks : Right(task[u])
  BY ClientsAssumption, AllRight DEF Opening, TypeOK, LocksLetGo, Holding
<1>2. /\ task' \in [Tasks -> Call] /\ Right(task'[t]) /\ task'[t].pc \notin Holding
      /\ \A u \in Tasks \ {t} : task'[u] = task[u]
  <2>1. CASE Hands(t, task[t])
    BY <1>1, <2>1, HandsRight DEF Holding
  <2>2. CASE Ends(t)
    <3>1. task' \in [Tasks -> Call] /\ task'[t] = Idle /\ \A u \in Tasks \ {t} : task'[u] = task[u]
      BY <1>1, <2>2, IdleRight DEF Ends, Right
    <3>2. Idle.pc \notin Holding
      BY DEF Idle, Holding
    <3> QED BY <3>1, <3>2, IdleRight
  <2> QED BY <2>1, <2>2 DEF Publish
<1>3. /\ cached' \in [Loops -> Client \cup {NoClient}]
      /\ \A k \in Loops \ {LoopOf[t]} : cached'[k] = cached[k]
  BY <1>1 DEF TypeOK, Publish
<1>4. LocksLetGo' /\ queue' \in [Loops -> Seq(Tasks)]
  BY <1>1, <1>2, <1>3, LocksReleased, Released DEF Publish
<1>5. \A u \in Tasks : Right(task'[u])
  BY <1>1, <1>2
<1> QED BY <1>2, <1>3, <1>4, <1>5, Typed

LEMMA OpensKeep ==
  ASSUME TypeOK, LocksLetGo, NEW t \in Tasks,
         OpenFails(t) \/ Opened(t) \/ Replay(t) \/ ReplayRejected(t) \/ ReplayLost(t)
  PROVE  TypeOK' /\ LocksLetGo'
<1>1. /\ Opening(t) /\ Holder(t) /\ Mine(t) = NoClient /\ LoopOf[t] \in Loops
      /\ task \in [Tasks -> Call]
      /\ \A u \in Tasks : Right(task[u])
      /\ UNCHANGED <<settings, lost, chosen>>
  BY ClientsAssumption, AllRight
     DEF OpenFails, Opened, Replay, ReplayRejected, ReplayLost, Opening, LocksLetGo, Holding, TypeOK
<1>2. task[t].built \in Client /\ task[t].sent \in Identity \cup {None}
  BY <1>1 DEF Right, Opening, Call
<1>3. CASE OpenFails(t) \/ ReplayLost(t)
  <2>1. /\ task' \in [Tasks -> Call] /\ task'[t] = Idle /\ \A u \in Tasks \ {t} : task'[u] = task[u]
    BY <1>1, <1>3, IdleRight DEF OpenFails, ReplayLost, Ends, Right
  <2>2. Idle.pc \notin Holding
    BY DEF Idle, Holding
  <2>3. cached' \in [Loops -> Client \cup {NoClient}] /\ \A k \in Loops \ {LoopOf[t]} : cached'[k] = cached[k]
    BY <1>1, <1>3 DEF OpenFails, ReplayLost, TypeOK
  <2>4. LocksLetGo' /\ queue' \in [Loops -> Seq(Tasks)]
    BY <1>1, <1>3, <2>1, <2>2, <2>3, LocksReleased, Released DEF OpenFails, ReplayLost
  <2>5. UNCHANGED token
    BY <1>3 DEF OpenFails, ReplayLost
  <2>6. \A u \in Tasks : Right(task'[u])
    BY <1>1, <2>1, IdleRight
  <2> QED BY <1>1, <2>1, <2>3, <2>4, <2>5, <2>6, Typed
<1>4. CASE Opened(t)
  <2>1. CASE token = None
    BY <1>1, <1>2, <1>4, <2>1, PublishKeeps DEF Opened
  <2>2. CASE token # None
    <3> DEFINE c == [task[t] EXCEPT !.pc = "replaying", !.sent = token]
    <3>1. task' = [task EXCEPT ![t] = c] /\ UNCHANGED <<queue, cached, token>>
      BY <1>1, <1>4, <2>2 DEF Opened
    <3>2. c \in Call
      <4>1. task[t] \in Call
        BY <1>1
      <4>2. token \in Identity \cup {None}
        BY DEF TypeOK
      <4> QED BY ONLY <4>1, <4>2 DEF Call, Holding
    <3>3. /\ c.pc = "replaying" /\ c.sent = token
          /\ c.op = task[t].op /\ c.to = task[t].to /\ c.built = task[t].built
      BY <1>1 DEF Call
    <3>4. Right(c)
      BY <1>1, <2>2, <3>2, <3>3 DEF Right, Opening
    <3>5. task' \in [Tasks -> Call] /\ task'[t] = c /\ \A u \in Tasks \ {t} : task'[u] = task[u]
      BY <1>1, <3>1, <3>2
    <3>6. LocksLetGo'
      BY <1>1, <3>1, <3>3, <3>5, LocksHeld DEF Holding, Mine
    <3> HIDE DEF c
    <3>7. \A u \in Tasks : Right(task'[u])
      BY <1>1, <3>4, <3>5
    <3>8. queue' \in [Loops -> Seq(Tasks)] /\ cached' \in [Loops -> Client \cup {NoClient}]
      BY <3>1 DEF TypeOK
    <3> QED BY <1>1, <3>1, <3>5, <3>6, <3>7, <3>8, Typed
  <2> QED BY <2>1, <2>2
<1>5. CASE Replay(t)
  <2>1. Replayed(t) \in Client
    <3>1. task[t].sent \in Identity
      BY <1>1, <1>2, <1>5 DEF Replay, Right
    <3> QED BY <1>2, <3>1 DEF Replayed, Client
  <2> QED BY <1>1, <1>5, <2>1, PublishKeeps DEF Replay
<1>6. CASE ReplayRejected(t)
  <2>1. [task[t].built EXCEPT !.stamp = Configured] \in Client
    BY <1>2 DEF Client, Identity
  <2> QED BY <1>1, <1>6, <2>1, PublishKeeps DEF ReplayRejected
<1> QED BY <1>3, <1>4, <1>5, <1>6

(* A session takes another identity.                                       *)
LEMMA SetsRight ==
  ASSUME TypeOK, NEW t \in Tasks, Mine(t) # NoClient, NEW who \in Identity \cup {Anonymous},
         NEW stamp \in Identity, NEW replayable \in BOOLEAN, SetsIdentity(t, who, stamp, replayable)
  PROVE  /\ cached' \in [Loops -> Client \cup {NoClient}]
         /\ cached'[LoopOf[t]] \in Client
         /\ cached'[LoopOf[t]].who = who /\ cached'[LoopOf[t]].stamp = stamp
         /\ cached'[LoopOf[t]].replayable = replayable /\ cached'[LoopOf[t]].on = Mine(t).on
         /\ \A k \in Loops \ {LoopOf[t]} : cached'[k] = cached[k]
<1> DEFINE l == LoopOf[t]
           c == [cached[l] EXCEPT !.who = who, !.stamp = stamp, !.replayable = replayable]
<1>1. l \in Loops /\ cached[l] \in Client /\ cached \in [Loops -> Client \cup {NoClient}]
  BY ClientsAssumption DEF TypeOK, Mine
<1>2. cached' = [cached EXCEPT ![l] = c]
  BY <1>1 DEF SetsIdentity
<1>3. c \in Client
  BY <1>1 DEF Client
<1>4. c.who = who /\ c.stamp = stamp /\ c.replayable = replayable /\ c.on = Mine(t).on
  BY <1>1 DEF Client, Mine
<1> HIDE DEF c
<1> QED BY <1>1, <1>2, <1>3, <1>4

(* A task whose call ends.                                                 *)
LEMMA EndsRight ==
  ASSUME NEW t \in Tasks, task \in [Tasks -> Call], \A u \in Tasks : Right(task[u]), Ends(t)
  PROVE  /\ task' \in [Tasks -> Call] /\ task'[t] = Idle /\ task'[t].pc = "idle"
         /\ \A u \in Tasks \ {t} : task'[u] = task[u]
         /\ \A u \in Tasks : Right(task'[u])
<1>1. task' \in [Tasks -> Call] /\ task'[t] = Idle /\ \A u \in Tasks \ {t} : task'[u] = task[u]
  BY IdleRight DEF Ends, Right
<1>2. Idle.pc = "idle"
  BY DEF Idle
<1> QED BY <1>1, <1>2, IdleRight

LEMMA IdentityKeeps ==
  ASSUME TypeOK, LocksLetGo, NEW t \in Tasks,
         SignedIn(t) \/ Invalidated(t) \/ ExchangeFails(t) \/ Restored(t) \/ Return(t)
  PROVE  TypeOK' /\ LocksLetGo'
<1>1. /\ task[t].pc \in {"exchanging", "restoring", "has"} /\ LoopOf[t] \in Loops
      /\ task \in [Tasks -> Call] /\ \A u \in Tasks : Right(task[u])
      /\ UNCHANGED <<settings, queue>>
  BY ClientsAssumption, AllRight DEF SignedIn, Invalidated, ExchangeFails, Restored, Return, TypeOK
<1>2. Reaches(t) => Mine(t) # NoClient
  BY DEF Reaches, NoClient
<1>3. ReplayIdentity \in Identity
  BY DEF ReplayIdentity, TypeOK, Identity
<1>4. /\ task' \in [Tasks -> Call] /\ task'[t].pc \in {"idle", "restoring"}
      /\ \A u \in Tasks \ {t} : task'[u] = task[u]
      /\ \A u \in Tasks : Right(task'[u])
  <2>1. CASE Ends(t)
    BY <1>1, <2>1, EndsRight
  <2>2. CASE task' = [task EXCEPT ![t].pc = "restoring"] /\ task[t].pc = "exchanging"
    <3> DEFINE c == [task[t] EXCEPT !.pc = "restoring"]
    <3>1. task' = [task EXCEPT ![t] = c]
      BY <1>1, <2>2
    <3>2. c \in Call
      BY <1>1 DEF Call
    <3>3. /\ c.pc = "restoring" /\ c.op = task[t].op /\ c.to = task[t].to /\ c.built = task[t].built
          /\ c.sent = task[t].sent
      BY <1>1 DEF Call
    <3>4. Right(c)
      BY <1>1, <2>2, <3>2, <3>3 DEF Right
    <3> HIDE DEF c
    <3> QED BY <1>1, <3>1, <3>2, <3>3, <3>4
  <2> QED BY <2>1, <2>2 DEF SignedIn, Invalidated, ExchangeFails, Restored, Return
<1>5. /\ cached' \in [Loops -> Client \cup {NoClient}]
      /\ \A k \in Loops : cached[k] = NoClient => cached'[k] = NoClient
      /\ lost' \subseteq Loops /\ chosen' \in [Loops -> Identity \cup {None}]
      /\ token' \in Identity \cup {None}
  <2>1. CASE SignedIn(t)
    <3>1. task[t].to \in Identity /\ task[t].kept \in BOOLEAN
      BY <1>1, <2>1 DEF SignedIn, Right, Call
    <3>2. SetsIdentity(t, task[t].to, IF task[t].kept THEN task[t].to ELSE ReplayIdentity, task[t].kept)
      BY <2>1 DEF SignedIn
    <3>3. /\ cached' \in [Loops -> Client \cup {NoClient}]
          /\ \A k \in Loops \ {LoopOf[t]} : cached'[k] = cached[k]
      BY <1>2, <1>3, <2>1, <3>1, <3>2, SetsRight DEF SignedIn
    <3> QED BY <1>1, <1>2, <2>1, <3>1, <3>3 DEF SignedIn, TypeOK, Mine
  <2>2. CASE Invalidated(t)
    <3> DEFINE c == [cached[LoopOf[t]] EXCEPT !.who = Anonymous]
    <3>1. cached' = [cached EXCEPT ![LoopOf[t]] = c]
      BY <1>1, <2>2 DEF Invalidated, TypeOK
    <3>2. c \in Client
      BY <1>1, <1>2, <2>2 DEF Invalidated, Client, Mine, TypeOK
    <3> HIDE DEF c
    <3> QED BY <1>1, <1>2, <2>2, <3>1, <3>2 DEF Invalidated, TypeOK, Mine
  <2>3. CASE Restored(t)
    <3>1. Configured \in Identity
      BY DEF Identity
    <3>2. /\ cached' \in [Loops -> Client \cup {NoClient}]
          /\ \A k \in Loops \ {LoopOf[t]} : cached'[k] = cached[k]
      BY <1>2, <1>3, <2>3, <3>1, SetsRight DEF Restored
    <3> QED BY <1>1, <1>2, <2>3, <3>2 DEF Restored, TypeOK, Mine
  <2>4. CASE ExchangeFails(t) \/ Return(t)
    BY <2>4 DEF ExchangeFails, Return, TypeOK
  <2> QED BY <2>1, <2>2, <2>3, <2>4
<1>6. LocksLetGo'
  BY <1>1, <1>4, <1>5, LocksStay DEF Holding
<1> QED BY <1>1, <1>4, <1>5, <1>6, AllTyped

(* Clients are closed; calls under way go on.                              *)
LEMMA ClosesKeep ==
  ASSUME TypeOK, LocksLetGo, NEW t \in Tasks, NEW l \in Loops,
         RestoreFails(t) \/ CloseConnection(l) \/ CloseAll(t) \/ CloseRest(t)
  PROVE  TypeOK' /\ LocksLetGo'
<1>1. /\ LoopOf[t] \in Loops /\ task \in [Tasks -> Call] /\ \A u \in Tasks : Right(task[u])
      /\ UNCHANGED <<settings, token, queue>>
  BY ClientsAssumption, AllRight DEF RestoreFails, CloseConnection, CloseAll, CloseRest, TypeOK
<1>2. /\ cached' \in [Loops -> Client \cup {NoClient}]
      /\ \A k \in Loops : cached'[k] \in {cached[k], NoClient}
      /\ lost' \subseteq Loops /\ chosen' \in [Loops -> Identity \cup {None}]
  BY <1>1 DEF RestoreFails, CloseConnection, CloseAll, CloseRest, Closes, TypeOK
<1>3. ASSUME NEW tasks \in [Tasks -> Call], \A u \in Tasks : Right(tasks[u]), NEW k,
             task' \in {Retired(k, tasks), AllRetired(tasks)}
      PROVE  /\ task' \in [Tasks -> Call] /\ \A u \in Tasks : Right(task'[u])
             /\ \A u \in Tasks : task'[u].pc = tasks[u].pc
  BY <1>3, RetiredRight DEF Right
<1>4. /\ task' \in [Tasks -> Call] /\ \A u \in Tasks : Right(task'[u])
      /\ \A u \in Tasks : task'[u].pc # task[u].pc =>
           task[u].pc \in {"restoring", "idle", "closing"} /\ task'[u].pc \in {"idle", "closing"}
  <2>1. CASE CloseConnection(l)
    BY <1>1, <1>3, <2>1 DEF CloseConnection, Closes
  <2>2. CASE RestoreFails(t)
    <3> DEFINE tasks == [task EXCEPT ![t] = Idle]
    <3>1. task' = Retired(LoopOf[t], tasks)
      BY <2>2 DEF RestoreFails, Closes
    <3>2. /\ tasks \in [Tasks -> Call] /\ tasks[t] = Idle
          /\ \A u \in Tasks \ {t} : tasks[u] = task[u]
      BY <1>1, IdleRight DEF Right
    <3> HIDE DEF tasks
    <3>3. \A u \in Tasks : Right(tasks[u])
      BY <1>1, <3>2, IdleRight
    <3>4. task[t].pc = "restoring" /\ Idle.pc = "idle"
      BY <2>2 DEF RestoreFails, Idle
    <3>5. /\ task' \in [Tasks -> Call] /\ \A u \in Tasks : Right(task'[u])
          /\ \A u \in Tasks : task'[u].pc = tasks[u].pc
      BY <1>3, <3>1, <3>2, <3>3
    <3> QED BY <3>2, <3>4, <3>5
  <2>3. CASE CloseAll(t)
    <3> DEFINE tasks == Retired(LoopOf[t], task)
               c == [tasks[t] EXCEPT !.pc = "closing"]
    <3>1. tasks \in [Tasks -> Call] /\ \A u \in Tasks : Right(tasks[u]) /\ tasks[u].pc = task[u].pc
      BY <1>1, RetiredRight DEF Right
    <3> HIDE DEF tasks
    <3>2. task[t].pc = "idle" /\ task' = [tasks EXCEPT ![t] = c]
      BY <2>3, <3>1 DEF CloseAll, tasks
    <3>3. c \in Call
      BY <3>1 DEF Call
    <3>4. /\ c.pc = "closing" /\ c.op = tasks[t].op /\ c.to = tasks[t].to
          /\ c.built = tasks[t].built /\ c.sent = tasks[t].sent
      BY <3>1 DEF Call
    <3>5. Right(c)
      BY <3>1, <3>2, <3>3, <3>4 DEF Right
    <3> HIDE DEF c
    <3> QED BY <3>1, <3>2, <3>3, <3>4, <3>5
  <2>4. CASE CloseRest(t)
    <3> DEFINE tasks == AllRetired(task)
    <3>1. tasks \in [Tasks -> Call] /\ \A u \in Tasks : Right(tasks[u]) /\ tasks[u].pc = task[u].pc
      BY <1>1, RetiredRight DEF Right
    <3> HIDE DEF tasks
    <3>2. task[t].pc = "closing" /\ task' = [tasks EXCEPT ![t] = Idle]
      BY <2>4 DEF CloseRest, tasks
    <3>3. Right(Idle) /\ Idle.pc = "idle" /\ Idle \in Call
      BY IdleRight DEF Right, Idle
    <3> HIDE DEF Idle
    <3> QED BY <3>1, <3>2, <3>3
  <2> QED BY <2>1, <2>2, <2>3, <2>4
<1>5. LocksLetGo'
  BY <1>1, <1>2, <1>4, LocksStay DEF Holding
<1> QED BY <1>1, <1>2, <1>4, <1>5, AllTyped DEF TypeOK

LEMMA CancelKeeps ==
  ASSUME TypeOK, LocksLetGo, NEW t \in Tasks, Cancel(t)
  PROVE  TypeOK' /\ LocksLetGo'
<1>1. /\ task' \in [Tasks -> Call] /\ \A u \in Tasks : Right(task'[u])
      /\ UNCHANGED <<settings, token, cached, lost, chosen>>
  BY AllRight, EndsRight DEF Cancel, TypeOK
<1>2. queue' \in [Loops -> Seq(Tasks)] /\ LocksLetGo'
  BY LocksLeft
<1>3. cached' \in [Loops -> Client \cup {NoClient}]
  BY <1>1 DEF TypeOK
<1> QED BY <1>1, <1>2, <1>3, Typed

LEMMA WorldKeeps ==
  ASSUME TypeOK, LocksLetGo, ClearSession \/ ChangeSettings \/ \E l \in Loops : Drop(l)
  PROVE  TypeOK' /\ LocksLetGo'
<1>1. task \in [Tasks -> Call] /\ \A u \in Tasks : Right(task[u])
  BY AllRight DEF TypeOK
<1>2. CASE ClearSession
  <2>1. LocksLetGo'
    BY <1>2, LocksStay DEF ClearSession
  <2> QED BY <1>2, <2>1 DEF ClearSession, TypeOK, Opening
<1>3. CASE ChangeSettings
  <2>1. /\ task' \in [Tasks -> Call] /\ \A u \in Tasks : Right(task'[u])
        /\ \A u \in Tasks : task'[u].pc = task[u].pc
    BY <1>1, <1>3, RetiredRight DEF ChangeSettings, Right
  <2>2. cached' = [l \in Loops |-> NoClient] /\ UNCHANGED queue
    BY <1>3 DEF ChangeSettings, Kept
  <2>3. settings' \in [on : Settings \cup {None}, generation : 0 .. MaxGeneration]
    BY <1>3, ClientsAssumption DEF ChangeSettings, TypeOK
  <2>4. LocksLetGo'
    BY <2>1, <2>2, LocksStay
  <2>5. queue' \in [Loops -> Seq(Tasks)] /\ token' = None /\ lost' = {} /\ chosen' = [l \in Loops |-> None]
    BY <1>3 DEF ChangeSettings, TypeOK
  <2> QED BY <2>1, <2>2, <2>3, <2>4, <2>5 DEF TypeOK, Right, Opening
<1>4. ASSUME NEW l \in Loops, Drop(l)
      PROVE  TypeOK' /\ LocksLetGo'
  <2> DEFINE c == [cached[l] EXCEPT !.up = FALSE]
  <2>1. cached' = [cached EXCEPT ![l] = c] /\ cached[l] \in Client
    BY <1>4 DEF Drop, Alive, TypeOK
  <2>2. c \in Client
    BY <2>1 DEF Client
  <2>3. cached[l] # NoClient
    BY <1>4 DEF Drop, Alive
  <2> HIDE DEF c
  <2>4. /\ cached' \in [Loops -> Client \cup {NoClient}]
        /\ \A k \in Loops : cached[k] = NoClient => cached'[k] = NoClient
    BY <2>1, <2>2, <2>3 DEF TypeOK
  <2>5. LocksLetGo'
    BY <1>4, <2>4, LocksStay DEF Drop
  <2> QED BY <1>4, <2>4, <2>5 DEF Drop, TypeOK, Opening
<1> QED BY <1>2, <1>3, <1>4

(* Every step keeps the types and the locks.                               *)
LEMMA StepKeeps ==
  ASSUME TypeOK, LocksLetGo, [Next]_vars
  PROVE  TypeOK' /\ LocksLetGo'
<1>1. CASE UNCHANGED vars
  <2>1. LocksLetGo'
    BY <1>1, LocksStay DEF vars
  <2> QED BY <1>1, <2>1 DEF vars, TypeOK, Opening
<1>2. ASSUME NEW t \in Tasks, GetClient(t) \/ Signin(t) \/ Invalidate(t)
      PROVE  TypeOK' /\ LocksLetGo'
  <2>1. Right(Idle)
    BY IdleRight
  <2>2. ASSUME NEW op \in {"get", "invalidate"}, Enter(t, [Idle EXCEPT !.pc = "waiting", !.op = op])
        PROVE  TypeOK' /\ LocksLetGo'
    <3> DEFINE c == [Idle EXCEPT !.pc = "waiting", !.op = op]
    <3>1. c \in Call
      BY <2>1 DEF Right, Call
    <3>2. /\ c.pc = "waiting" /\ c.op = op /\ c.to = Idle.to /\ c.built = Idle.built
          /\ c.sent = Idle.sent
      BY <2>1 DEF Right, Call
    <3>3. Idle.to = None /\ Idle.built = NoClient /\ Idle.sent = None
      BY DEF Idle
    <3>4. Right(c)
      BY <3>1, <3>2, <3>3 DEF Right
    <3> HIDE DEF c
    <3> QED BY <2>2, <3>2, <3>4, EnterKeeps DEF c
  <2>3. ASSUME NEW s \in Signins,
               Enter(t, [Idle EXCEPT !.pc = "waiting", !.op = "signin", !.to = s.to, !.kept = s.kept])
        PROVE  TypeOK' /\ LocksLetGo'
    <3> DEFINE b == [Idle EXCEPT !.pc = "waiting", !.op = "signin"]
               c == [b EXCEPT !.to = s.to, !.kept = s.kept]
    <3>1. b \in Call /\ b.pc = "waiting" /\ b.op = "signin" /\ b.built = Idle.built /\ b.sent = Idle.sent
      BY <2>1 DEF Right, Call
    <3>2. s.to \in Identity /\ s.to # None /\ s.kept \in BOOLEAN
      BY ClientsAssumption DEF Identity
    <3>3. Idle.built = NoClient /\ Idle.sent = None
      BY DEF Idle
    <3>4. Enter(t, c)
      BY <2>3
    <3> HIDE DEF b
    <3>5. c \in Call
      BY <3>1, <3>2 DEF Call
    <3>6. /\ c.pc = "waiting" /\ c.op = "signin" /\ c.to = s.to /\ c.built = b.built /\ c.sent = b.sent
      BY <3>1 DEF Call
    <3>7. Right(c)
      BY <3>1, <3>2, <3>3, <3>5, <3>6 DEF Right
    <3> HIDE DEF c
    <3> QED BY <3>4, <3>6, <3>7, EnterKeeps
  <2> QED BY <1>2, <2>2, <2>3 DEF GetClient, Signin, Invalidate
<1>3. ASSUME NEW t \in Tasks, CloseAll(t) \/ Progress(t) \/ Cancel(t)
      PROVE  TypeOK' /\ LocksLetGo'
  <2>1. LoopOf[t] \in Loops
    BY ClientsAssumption
  <2> QED BY <1>3, <2>1, LockedKeeps, DiscardedKeeps, OpensKeep, IdentityKeeps, ClosesKeep, CancelKeeps
          DEF Progress
<1>4. ASSUME NEW l \in Loops, CloseConnection(l)
      PROVE  TypeOK' /\ LocksLetGo'
  <2>1. /\ task' = Retired(l, task) /\ task \in [Tasks -> Call] /\ \A u \in Tasks : Right(task[u])
        /\ UNCHANGED <<settings, token, queue>>
    BY <1>4, AllRight DEF CloseConnection, Closes, TypeOK
  <2>2. /\ task' \in [Tasks -> Call] /\ \A u \in Tasks : Right(task'[u])
        /\ \A u \in Tasks : task'[u].pc = task[u].pc
    BY <2>1, RetiredRight DEF Right
  <2>3. /\ cached' \in [Loops -> Client \cup {NoClient}]
        /\ \A k \in Loops : cached'[k] \in {cached[k], NoClient}
        /\ lost' \subseteq Loops /\ chosen' \in [Loops -> Identity \cup {None}]
    BY <1>4 DEF CloseConnection, Closes, TypeOK
  <2>4. LocksLetGo'
    BY <2>1, <2>2, <2>3, LocksStay
  <2> QED BY <2>1, <2>2, <2>3, <2>4, AllTyped DEF TypeOK
<1>5. CASE ClearSession \/ ChangeSettings \/ \E l \in Loops : Drop(l)
  BY <1>5, WorldKeeps
<1> QED BY <1>1, <1>2, <1>3, <1>4, <1>5 DEF Next

LEMMA InitKeeps ==
  ASSUME Init
  PROVE  TypeOK /\ LocksLetGo
<1>1. /\ settings \in [on : Settings \cup {None}, generation : 0 .. MaxGeneration]
      /\ queue \in [Loops -> Seq(Tasks)] /\ \A l \in Loops : queue[l] = <<>>
      /\ lost = {} /\ token = None
      /\ cached \in [Loops -> Client \cup {NoClient}] /\ chosen \in [Loops -> Identity \cup {None}]
  BY ClientsAssumption DEF Init
<1>2. \A t \in Tasks : task[t] = Idle
  BY DEF Init
<1>3. Idle.pc = "idle" /\ Right(Idle)
  BY IdleRight DEF Idle
<1>4. task \in [Tasks -> Call] /\ \A t \in Tasks : Right(task[t])
  BY <1>2, <1>3 DEF Right, Init
<1>5. TypeOK
  BY <1>1, <1>4 DEF TypeOK, Right, Opening
<1>6. LocksLetGo
  BY <1>1, <1>2, <1>3 DEF LocksLetGo, Holding
<1> QED BY <1>5, <1>6

(* Types hold in every reachable state: what a call sets, opens and sends  *)
(* is there when the manager uses it.                                      *)
THEOREM ClientTypes == Spec => []TypeOK
<1>1. Init => TypeOK /\ LocksLetGo
  BY InitKeeps
<1>2. TypeOK /\ LocksLetGo /\ [Next]_vars => (TypeOK /\ LocksLetGo)'
  BY StepKeeps
<1> QED BY <1>1, <1>2, PTL DEF Spec

(* The lock of a loop is held by one call that opens a client there, or is *)
(* about to, never by one that returned, failed or was cancelled: nobody   *)
(* waits for a lock forever (_acquire_client()).                           *)
THEOREM LocksAreLetGo == Spec => []LocksLetGo
<1>1. Init => TypeOK /\ LocksLetGo
  BY InitKeeps
<1>2. TypeOK /\ LocksLetGo /\ [Next]_vars => (TypeOK /\ LocksLetGo)'
  BY StepKeeps
<1> QED BY <1>1, <1>2, PTL DEF Spec

-----------------------------------------------------------------------------
(***************************************************************************)
(* What a step does to the calls under way.                                *)
(***************************************************************************)
Keeps(u) ==
  /\ task'[u].pc = task[u].pc /\ task'[u].op = task[u].op
  /\ task'[u].built = task[u].built /\ task'[u].sent = task[u].sent
  /\ task'[u].generation = task[u].generation /\ task'[u].doomed = task[u].doomed

Own(t) == GetClient(t) \/ Signin(t) \/ Invalidate(t) \/ CloseAll(t) \/ Progress(t) \/ Cancel(t)

(* The calls of the others go on as they were.                             *)
LEMMA OthersKeep ==
  ASSUME TypeOK, NEW t \in Tasks, Own(t)
  PROVE  \A u \in Tasks \ {t} : Keeps(u)
<1>1. task \in [Tasks -> Call] /\ \A u \in Tasks : Right(task[u])
  BY AllRight DEF TypeOK
<1>2. CASE \A u \in Tasks \ {t} : task'[u] = task[u]
  BY <1>2 DEF Keeps
<1>3. ASSUME NEW tasks \in [Tasks -> Call], \A u \in Tasks \ {t} : tasks[u] = task[u], NEW l,
             \/ \A u \in Tasks \ {t} : task'[u] = Retired(l, tasks)[u]
             \/ \A u \in Tasks \ {t} : task'[u] = AllRetired(tasks)[u]
      PROVE  \A u \in Tasks \ {t} : Keeps(u)
  BY <1>3, RetiredRight DEF Keeps
<1>4. ASSUME NEW call, Enter(t, call)
      PROVE  \A u \in Tasks \ {t} : task'[u] = task[u]
  BY <1>1, <1>4 DEF Enter, Hands
<1>5. CASE GetClient(t) \/ Signin(t) \/ Invalidate(t)
  BY <1>2, <1>4, <1>5 DEF GetClient, Signin, Invalidate
<1>6. CASE CloseAll(t)
  <2> DEFINE tasks == Retired(LoopOf[t], task)
  <2>1. tasks \in [Tasks -> Call]
    BY <1>1, RetiredRight
  <2> HIDE DEF tasks
  <2>2. \A u \in Tasks \ {t} : task'[u] = tasks[u]
    BY <1>6, <2>1 DEF CloseAll, tasks
  <2> QED BY <1>1, <1>3, <2>2 DEF tasks
<1>7. CASE CloseRest(t)
  <2> DEFINE tasks == AllRetired(task)
  <2>1. tasks \in [Tasks -> Call]
    BY <1>1, RetiredRight
  <2> HIDE DEF tasks
  <2>2. \A u \in Tasks \ {t} : task'[u] = tasks[u]
    BY <1>7, <2>1 DEF CloseRest, tasks
  <2> QED BY <1>1, <1>3, <2>2 DEF tasks
<1>8. CASE RestoreFails(t)
  <2> DEFINE tasks == [task EXCEPT ![t] = Idle]
  <2>1. task' = Retired(LoopOf[t], tasks)
    BY <1>8 DEF RestoreFails, Closes
  <2>2. tasks \in [Tasks -> Call] /\ \A u \in Tasks \ {t} : tasks[u] = task[u]
    BY <1>1, IdleRight DEF Right
  <2> HIDE DEF tasks
  <2> QED BY <1>3, <2>1, <2>2
<1>9. ASSUME NEW losses, Connect(t, losses)
      PROVE  \A u \in Tasks \ {t} : task'[u] = task[u]
  BY <1>1, <1>9 DEF Connect, Ends
<1>10. CASE Locked(t)
  <2>1. CASE Hands(t, task[t]) \/ Connect(t, lost)
    BY <1>1, <1>2, <1>9, <2>1 DEF Hands
  <2> DEFINE tasks == Retired(LoopOf[t], task)
  <2>2. CASE task' = [tasks EXCEPT ![t].pc = "discarding", ![t].doomed = ~Mine(t).replayable]
    <3>1. tasks \in [Tasks -> Call]
      BY <1>1, RetiredRight
    <3> HIDE DEF tasks
    <3>2. \A u \in Tasks \ {t} : task'[u] = tasks[u]
      BY <2>2, <3>1
    <3> QED BY <1>1, <1>3, <3>2 DEF tasks
  <2> QED BY <1>10, <2>1, <2>2 DEF Locked
<1>11. CASE Discarded(t)
  BY <1>2, <1>9, <1>11 DEF Discarded
<1>12. CASE OpenFails(t) \/ Opened(t) \/ Replay(t) \/ ReplayRejected(t) \/ ReplayLost(t)
  BY <1>1, <1>2, <1>12 DEF OpenFails, Opened, Replay, ReplayRejected, ReplayLost, Publish, Hands, Ends
<1>13. CASE SignedIn(t) \/ Invalidated(t) \/ ExchangeFails(t) \/ Restored(t) \/ Return(t) \/ Cancel(t)
  BY <1>1, <1>2, <1>13 DEF SignedIn, Invalidated, ExchangeFails, Restored, Return, Cancel, Ends
<1> QED BY <1>5, <1>6, <1>7, <1>8, <1>10, <1>11, <1>12, <1>13 DEF Own, Progress

(* The steps that are nobody's call keep every call under way.             *)
LEMMA AllKeep ==
  ASSUME TypeOK, ClearSession \/ ChangeSettings \/ \E l \in Loops : CloseConnection(l) \/ Drop(l)
  PROVE  \A u \in Tasks : Keeps(u)
<1>1. task \in [Tasks -> Call]
  BY DEF TypeOK
<1>2. \/ task' = task \/ task' = AllRetired(task) \/ \E l \in Loops : task' = Retired(l, task)
  BY DEF ClearSession, ChangeSettings, CloseConnection, Closes, Drop
<1> QED BY <1>1, <1>2, RetiredRight DEF Keeps

(* A step of its own leaves a call with a client to open only when it      *)
(* starts to open it, or goes on to replay the token.                      *)
Connects(t) ==
  /\ task[t].pc \in {"waiting", "discarding"} /\ Holder(t) /\ settings.on # None
  /\ task[t].op = "get" => LoopOf[t] \notin lost'
  /\ task'[t].pc = "opening" /\ task'[t].op = task[t].op /\ task'[t].generation = settings.generation
  /\ task'[t].built = [on |-> settings.on, who |-> Configured, stamp |-> ReplayIdentity,
                       replayable |-> TRUE, up |-> TRUE]
  /\ UNCHANGED <<settings, token>>

Replays(t) ==
  /\ task[t].pc = "opening" /\ task'[t].pc = "replaying" /\ task'[t].sent = token
  /\ task'[t].built = task[t].built /\ task'[t].generation = task[t].generation
  /\ task'[t].op = task[t].op
  /\ token # None /\ UNCHANGED <<settings, token, lost, cached>>

LEMMA ConnectIs ==
  ASSUME TypeOK, LocksLetGo, NEW t \in Tasks, task[t].pc \in {"waiting", "discarding"}, Holder(t),
         Connect(t, lost'), UNCHANGED <<settings, token>>
  PROVE  task'[t].pc = "idle" \/ Connects(t)
<1>1. task \in [Tasks -> Call] /\ Right(Idle) /\ Right(task[t])
  BY AllRight, IdleRight DEF TypeOK
<1>2. CASE Ends(t)
  BY <1>1, <1>2 DEF Ends, Idle
<1> DEFINE built == [on |-> settings.on, who |-> Configured, stamp |-> ReplayIdentity,
                     replayable |-> TRUE, up |-> TRUE]
           a == Asked(task[t])
           c == [a EXCEPT !.pc = "opening", !.generation = settings.generation, !.built = built]
<1>3. CASE /\ settings.on # None /\ ~(~Restores(t) /\ LoopOf[t] \in lost')
           /\ task' = [task EXCEPT ![t] = c]
  <2>1. a \in Call /\ a.op = task[t].op
    <3>1. a \in Call
      BY <1>1 DEF Asked, Right, Call
    <3> QED BY <3>1 DEF Asked, Idle
  <2> HIDE DEF a, built
  <2>2. c.pc = "opening" /\ c.op = a.op /\ c.generation = settings.generation /\ c.built = built
    BY <2>1 DEF Call
  <2>3. task'[t] = c
    BY <1>1, <1>3
  <2> QED BY <1>3, <2>1, <2>2, <2>3 DEF Connects, Restores, built
<1> QED BY <1>2, <1>3 DEF Connect

LEMMA OwnOpens ==
  ASSUME TypeOK, LocksLetGo, NEW t \in Tasks, Own(t), Opening(t)'
  PROVE  Connects(t) \/ Replays(t)
<1>1. /\ task \in [Tasks -> Call] /\ Right(Idle) /\ \A u \in Tasks : Right(task[u])
      /\ task'[t].pc \in {"opening", "replaying"}
  BY AllRight, IdleRight DEF TypeOK, Opening
<1>2. ASSUME task' = [task EXCEPT ![t] = Idle]
      PROVE  FALSE
  BY <1>1, <1>2 DEF Idle
<1>3. ASSUME NEW call, Right(call), Hands(t, call)
      PROVE  FALSE
  BY <1>1, <1>3, HandsRight
<1>4. ASSUME NEW call, Enter(t, call), call.pc = "waiting", call.op \in {"get", "signin", "invalidate"}
      PROVE  FALSE
  <2>1. task[t].pc = "idle"
    BY <1>4 DEF Enter
  <2>2. CASE UNCHANGED task
    BY <1>1, <2>1, <2>2
  <2>3. CASE task' = [task EXCEPT ![t] = call]
    BY <1>1, <1>4, <2>3
  <2>4. CASE Hands(t, call)
    <3>1. task'[t].pc \in {"has", "exchanging"}
      <4> DEFINE a == Asked(call)
                 c == [a EXCEPT !.pc = IF call.op = "get" THEN "has" ELSE "exchanging", !.holds = TRUE]
      <4>1. task'[t] = c
        BY <1>1, <2>4 DEF Hands
      <4>2. c.pc \in {"has", "exchanging"}
        BY DEF Asked, Idle
      <4> HIDE DEF c
      <4> QED BY <4>1, <4>2
    <3> QED BY <1>1, <3>1
  <2> QED BY <1>4, <2>2, <2>3, <2>4 DEF Enter
<1>5. ~(GetClient(t) \/ Signin(t) \/ Invalidate(t))
  <2>1. ~GetClient(t)
    BY <1>4 DEF GetClient, Idle
  <2>2. ~Invalidate(t)
    BY <1>4 DEF Invalidate, Idle
  <2>3. ~Signin(t)
    BY <1>4 DEF Signin, Idle
  <2> QED BY <2>1, <2>2, <2>3
<1>5a. ASSUME NEW tasks \in [Tasks -> Call], NEW pc \in {"closing", "restoring", "discarding"},
              \/ task' = [tasks EXCEPT ![t].pc = pc]
              \/ \E d : task' = [tasks EXCEPT ![t].pc = pc, ![t].doomed = d]
       PROVE  FALSE
  <2>1. task'[t].pc = pc
    <3>1. CASE task' = [tasks EXCEPT ![t].pc = pc]
      BY <3>1 DEF Call
    <3>2. ASSUME NEW d, task' = [tasks EXCEPT ![t].pc = pc, ![t].doomed = d]
          PROVE  task'[t].pc = pc
      BY <3>2 DEF Call
    <3> QED BY <1>5a, <3>1, <3>2
  <2> QED BY <1>1, <1>5a, <2>1
<1>6. ~(CloseAll(t) \/ CloseRest(t))
  <2>1. ~CloseAll(t)
    <3> SUFFICES ASSUME CloseAll(t) PROVE FALSE
      OBVIOUS
    <3> DEFINE tasks == Retired(LoopOf[t], task)
    <3>1. tasks \in [Tasks -> Call]
      BY <1>1, RetiredRight
    <3> HIDE DEF tasks
    <3>2. task' = [tasks EXCEPT ![t].pc = "closing"]
      BY DEF CloseAll, tasks
    <3> QED BY <1>1, <1>5a, <3>1, <3>2
  <2>2. ~CloseRest(t)
    <3> SUFFICES ASSUME CloseRest(t) PROVE FALSE
      OBVIOUS
    <3> DEFINE tasks == AllRetired(task)
    <3>1. tasks \in [Tasks -> Call]
      BY <1>1, RetiredRight
    <3> HIDE DEF tasks
    <3>2. task' = [tasks EXCEPT ![t] = Idle]
      BY DEF CloseRest, tasks
    <3> QED BY <1>1, <3>1, <3>2 DEF Idle
  <2> QED BY <2>1, <2>2
<1>7. ~RestoreFails(t)
  <2> SUFFICES ASSUME RestoreFails(t) PROVE FALSE
    OBVIOUS
  <2> DEFINE tasks == [task EXCEPT ![t] = Idle]
  <2>1. task' = Retired(LoopOf[t], tasks)
    BY DEF RestoreFails, Closes
  <2>2. tasks \in [Tasks -> Call] /\ tasks[t] = Idle
    BY <1>1 DEF Right
  <2> HIDE DEF tasks
  <2>3. task'[t].pc = Idle.pc
    BY <2>1, <2>2, RetiredRight
  <2> QED BY <1>1, <2>3 DEF Idle
<1>8. ~(\/ OpenFails(t) \/ ReplayLost(t) \/ SignedIn(t) \/ ExchangeFails(t) \/ Restored(t)
        \/ Return(t) \/ Cancel(t))
  BY <1>2 DEF OpenFails, ReplayLost, SignedIn, ExchangeFails, Restored, Return, Cancel, Ends
<1>9. ~Invalidated(t)
  BY <1>1, <1>5a DEF Invalidated
<1>10. ~(Replay(t) \/ ReplayRejected(t))
  BY <1>1, <1>2, <1>3 DEF Replay, ReplayRejected, Publish, Ends
<1>11. CASE Opened(t)
  <2>1. token # None /\ task' = [task EXCEPT ![t].pc = "replaying", ![t].sent = token]
    BY <1>1, <1>2, <1>3, <1>11 DEF Opened, Publish, Ends
  <2> QED BY <1>1, <1>11, <2>1 DEF Opened, Replays, Right, Call
<1>12. CASE Locked(t)
  <2>1. ~Hands(t, task[t])
    BY <1>1, <1>3
  <2>2. task' # [Retired(LoopOf[t], task) EXCEPT ![t].pc = "discarding",
                                                 ![t].doomed = ~Mine(t).replayable]
    <3> DEFINE tasks == Retired(LoopOf[t], task)
    <3>1. tasks \in [Tasks -> Call]
      BY <1>1, RetiredRight
    <3> HIDE DEF tasks
    <3>2. task' # [tasks EXCEPT ![t].pc = "discarding", ![t].doomed = ~Mine(t).replayable]
      BY <1>5a, <3>1
    <3> QED BY <3>2 DEF tasks
  <2>3. Connect(t, lost') /\ task[t].pc = "waiting" /\ Holder(t) /\ UNCHANGED <<settings, token>>
    BY <1>12, <2>1, <2>2 DEF Locked
  <2> QED BY <1>1, <2>3, ConnectIs
<1>13. CASE Discarded(t)
  <2>1. Connect(t, lost') /\ task[t].pc = "discarding" /\ Holder(t) /\ UNCHANGED <<settings, token>>
    BY <1>13 DEF Discarded, LocksLetGo, Holding
  <2> QED BY <1>1, <2>1, ConnectIs
<1> QED BY <1>5, <1>6, <1>7, <1>8, <1>9, <1>10, <1>11, <1>12, <1>13 DEF Own, Progress

(* What the steps do to the rest while a client opens.                     *)
LEMMA OwnLeaves ==
  ASSUME TypeOK, LocksLetGo, NEW t \in Tasks, Own(t)
  PROVE  /\ UNCHANGED settings
         /\ token' \in {token, None} \/ (Quiet /\ SignedIn(t))
         /\ \A u \in Tasks \ {t} : Opening(u) /\ LoopOf[u] \in lost' => LoopOf[u] \in lost
<1>1. \A u \in Tasks : LoopOf[u] \in Loops
  BY ClientsAssumption
<1>2. CASE Discarded(t)
  <2>1. Holder(t) /\ lost' \subseteq lost \cup {LoopOf[t]}
    BY <1>2 DEF Discarded, LocksLetGo, Holding, Losses
  <2>2. ASSUME NEW u \in Tasks \ {t}, Opening(u)
        PROVE  LoopOf[u] # LoopOf[t]
    BY <2>1, <2>2 DEF Opening, LocksLetGo, Holding, Holder
  <2> QED BY <1>1, <1>2, <2>1, <2>2 DEF Discarded
<1>3. CASE CloseAll(t)
  BY <1>3 DEF CloseAll
<1>4. CASE GetClient(t) \/ Signin(t) \/ Invalidate(t) \/ Cancel(t)
  BY <1>4 DEF GetClient, Signin, Invalidate, Enter, Cancel
<1>5. CASE Progress(t) /\ ~Discarded(t)
  BY <1>5 DEF Progress, Locked, OpenFails, Opened, Replay, ReplayRejected, ReplayLost, SignedIn,
              Invalidated, ExchangeFails, Restored, RestoreFails, CloseRest, Return, Closes
<1> QED BY <1>2, <1>3, <1>4, <1>5 DEF Own

(* Every step keeps what a client is opened on and as whom.                *)
LEMMA OpensStep ==
  ASSUME TypeOK, LocksLetGo, OpensRight, [Next]_vars
  PROVE  OpensRight'
<1> SUFFICES ASSUME NEW u \in Tasks, Opening(u)'
             PROVE  Opens(u)'
  BY DEF OpensRight, Opens
<1>1. ASSUME Keeps(u), UNCHANGED settings, token' \in {token, None},
             LoopOf[u] \in lost' => LoopOf[u] \in lost
      PROVE  Opens(u)'
  <2>1. Opening(u) /\ Opens(u)
    BY <1>1 DEF Keeps, Opening, OpensRight
  <2> QED BY <1>1, <2>1 DEF Keeps, Opening, Opens
<1>2. CASE UNCHANGED vars
  BY <1>1, <1>2 DEF vars, Keeps
<1>3. ASSUME NEW t \in Tasks, Own(t), t # u
      PROVE  Opens(u)'
  <2>1. Keeps(u)
    BY <1>3, OthersKeep
  <2>2. Opening(u)
    BY <2>1 DEF Keeps, Opening
  <2>3. ~Quiet
    BY <2>2 DEF Quiet
  <2> QED BY <1>1, <1>3, <2>1, <2>2, <2>3, OwnLeaves
<1>4. CASE Own(u)
  <2>1. CASE Connects(u)
    <3>1. settings.generation \in Nat
      BY ClientsAssumption DEF TypeOK
    <3> QED BY <2>1, <3>1 DEF Connects, Opens, ReplayIdentity
  <2>2. CASE Replays(u)
    <3>1. Opening(u) /\ Opens(u)
      BY <2>2 DEF Replays, Opening, OpensRight
    <3> QED BY <2>2, <3>1 DEF Replays, Opens, Opening
  <2> QED BY <1>4, <2>1, <2>2, OwnOpens
<1>5. CASE ClearSession \/ \E l \in Loops : CloseConnection(l) \/ Drop(l)
  <2>1. Keeps(u)
    BY <1>5, AllKeep
  <2> QED BY <1>1, <1>5, <2>1 DEF ClearSession, CloseConnection, Closes, Drop
<1>6. CASE ChangeSettings
  <2>1. Keeps(u)
    BY <1>6, AllKeep
  <2>2. Opening(u) /\ Opens(u)
    BY <2>1 DEF Keeps, Opening, OpensRight
  <2>3. /\ settings'.generation = settings.generation + 1 /\ settings.generation \in Nat
        /\ task[u].generation \in Nat /\ token' = None /\ lost' = {}
    <3>1. task[u] \in Call /\ settings.generation \in 0 .. MaxGeneration
      BY DEF TypeOK
    <3>2. task[u].generation \in 0 .. MaxGeneration
      BY <3>1 DEF Call
    <3> QED BY <1>6, <3>1, <3>2, ClientsAssumption DEF ChangeSettings
  <2> QED BY <2>1, <2>2, <2>3 DEF Keeps, Opens, Opening
<1> QED BY <1>2, <1>3, <1>4, <1>5, <1>6 DEF Next, Own

-----------------------------------------------------------------------------
(***************************************************************************)
(* One call at a time sets an identity.                                    *)
(***************************************************************************)
(* What a step leaves of the call of its task.                             *)
LEMMA OwnNames ==
  ASSUME TypeOK, OneIdentity, NEW t \in Tasks, Own(t)
  PROVE  /\ Named(t)'
         /\ Identifies(t)' => Identifies(t) \/ OneAtATime
         /\ task'[t].pc = "exchanging" => Identifies(t)'
         /\ task'[t].pc = "restoring" => Invalidated(t) /\ Identifies(t) /\ Identifies(t)'
<1> DEFINE Goal == /\ Named(t)'
                   /\ Identifies(t)' => Identifies(t) \/ OneAtATime
                   /\ task'[t].pc = "exchanging" => Identifies(t)'
                   /\ task'[t].pc = "restoring" => Invalidated(t) /\ Identifies(t) /\ Identifies(t)'
<1>1. /\ task \in [Tasks -> Call] /\ Right(Idle) /\ \A u \in Tasks : Right(task[u])
      /\ Idle.pc = "idle" /\ Idle.op = None
  BY AllRight, IdleRight DEF TypeOK, Idle
<1>2. ASSUME task'[t].pc \in {"idle", "closing"}, task'[t].op \in {None, task[t].op}
      PROVE  Goal
  BY <1>2 DEF Named, Holding, Identifies, None
<1>3. CASE task'[t].pc = "idle" /\ task'[t].op = None
  BY <1>2, <1>3
<1>4. ASSUME task' = [task EXCEPT ![t] = Idle]
      PROVE  Goal
  BY <1>1, <1>3, <1>4
<1>5. ASSUME NEW call, call.op \in {"get", "signin", "invalidate"}, Hands(t, call),
             call.op # "get" => Identifies(t) \/ OneAtATime
      PROVE  Goal
  <2> DEFINE a == Asked(call)
             c == [a EXCEPT !.pc = IF call.op = "get" THEN "has" ELSE "exchanging", !.holds = TRUE]
  <2>1. task'[t] = c
    BY <1>1, <1>5 DEF Hands
  <2>2. c.op = call.op /\ c.pc = IF call.op = "get" THEN "has" ELSE "exchanging"
    BY DEF Asked, Idle
  <2> HIDE DEF c
  <2> QED BY <1>5, <2>1, <2>2 DEF Named, Holding, Identifies, None
<1>6. ASSUME NEW call, Enter(t, call), call.pc = "waiting", call.op \in {"get", "signin", "invalidate"},
             call.op # "get" => OneAtATime
      PROVE  Goal
  <2>1. CASE UNCHANGED task
    BY <1>2, <1>6, <2>1 DEF Enter
  <2>2. CASE task' = [task EXCEPT ![t] = call]
    BY <1>1, <1>6, <2>2 DEF Named, Holding, Identifies, None
  <2> QED BY <1>5, <1>6, <2>1, <2>2 DEF Enter
<1>7. CASE GetClient(t)
  BY <1>6, <1>7 DEF GetClient, Idle
<1>8. CASE Invalidate(t)
  BY <1>6, <1>8 DEF Invalidate, Idle
<1>9. CASE Signin(t)
  BY <1>6, <1>9 DEF Signin, Idle
<1>10. CASE CloseAll(t)
  <2> DEFINE tasks == Retired(LoopOf[t], task)
  <2>1. tasks \in [Tasks -> Call] /\ tasks[t].op = task[t].op
    BY <1>1, RetiredRight
  <2> HIDE DEF tasks
  <2>2. task' = [tasks EXCEPT ![t].pc = "closing"]
    BY <1>10 DEF CloseAll, tasks
  <2>3. task'[t].pc = "closing" /\ task'[t].op = task[t].op
    BY <2>1, <2>2 DEF Call
  <2> QED BY <1>2, <2>3
<1>11. CASE CloseRest(t)
  <2> DEFINE tasks == AllRetired(task)
  <2>1. tasks \in [Tasks -> Call]
    BY <1>1, RetiredRight
  <2> HIDE DEF tasks
  <2>2. task' = [tasks EXCEPT ![t] = Idle]
    BY <1>11 DEF CloseRest, tasks
  <2> QED BY <1>1, <1>3, <2>1, <2>2
<1>12. CASE RestoreFails(t)
  <2> DEFINE tasks == [task EXCEPT ![t] = Idle]
  <2>1. task' = Retired(LoopOf[t], tasks)
    BY <1>12 DEF RestoreFails, Closes
  <2>2. tasks \in [Tasks -> Call] /\ tasks[t] = Idle
    BY <1>1 DEF Right
  <2> HIDE DEF tasks
  <2>3. task'[t].pc = Idle.pc /\ task'[t].op = Idle.op
    BY <2>1, <2>2, RetiredRight
  <2> QED BY <1>1, <1>3, <2>3
<1>13. CASE \/ OpenFails(t) \/ ReplayLost(t) \/ SignedIn(t) \/ ExchangeFails(t) \/ Restored(t)
            \/ Return(t) \/ Cancel(t)
  BY <1>4, <1>13 DEF OpenFails, ReplayLost, SignedIn, ExchangeFails, Restored, Return, Cancel, Ends
<1>14. CASE Invalidated(t)
  <2>1. task'[t].pc = "restoring" /\ task'[t].op = task[t].op /\ task[t].pc = "exchanging"
    BY <1>1, <1>14 DEF Invalidated, Call
  <2>2. Identifies(t)
    BY <2>1 DEF OneIdentity
  <2> QED BY <1>14, <2>1, <2>2 DEF Named, Identifies, None
<1>15. ASSUME Hands(t, task[t]), task[t].pc \in Holding \cup {"waiting"}
       PROVE  Goal
  <2>1. task[t].op \in {"get", "signin", "invalidate"}
    BY <1>1, <1>15 DEF OneIdentity, Named, Right, Call
  <2> QED BY <1>5, <1>15, <2>1 DEF Identifies
<1>16. ASSUME Connect(t, lost'), task[t].pc \in Holding \cup {"waiting"}
       PROVE  Goal
  <2>1. CASE Ends(t)
    BY <1>4, <2>1 DEF Ends
  <2>2. CASE task'[t].pc = "opening" /\ task'[t].op = task[t].op
    BY <1>16, <2>2 DEF OneIdentity, Named, Identifies
  <2> DEFINE built == [on |-> settings.on, who |-> Configured, stamp |-> ReplayIdentity,
                       replayable |-> TRUE, up |-> TRUE]
             a == Asked(task[t])
             c == [a EXCEPT !.pc = "opening", !.generation = settings.generation, !.built = built]
  <2>3. CASE task' = [task EXCEPT ![t] = c]
    <3>1. a \in Call /\ a.op = task[t].op
      <4>1. a \in Call
        BY <1>1 DEF Asked, Right, Call
      <4> QED BY <4>1 DEF Asked, Idle
    <3> HIDE DEF a, built
    <3>2. c.pc = "opening" /\ c.op = a.op
      BY <3>1 DEF Call
    <3>3. task'[t] = c
      BY <1>1, <2>3
    <3> QED BY <2>2, <3>1, <3>2, <3>3
  <2> QED BY <1>16, <2>1, <2>3 DEF Connect
<1>17. CASE Locked(t)
  <2>1. task[t].pc = "waiting"
    BY <1>17 DEF Locked
  <2>2. CASE Hands(t, task[t])
    BY <1>15, <2>1, <2>2
  <2>3. CASE Connect(t, lost) /\ UNCHANGED lost
    BY <1>16, <2>1, <2>3
  <2>4. CASE task' = [Retired(LoopOf[t], task) EXCEPT ![t].pc = "discarding",
                                                      ![t].doomed = ~Mine(t).replayable]
    <3> DEFINE tasks == Retired(LoopOf[t], task)
    <3>1. tasks \in [Tasks -> Call] /\ tasks[t].op = task[t].op
      BY <1>1, RetiredRight
    <3> HIDE DEF tasks
    <3>2. task' = [tasks EXCEPT ![t].pc = "discarding", ![t].doomed = ~Mine(t).replayable]
      BY <2>4 DEF tasks
    <3>3. task'[t].pc = "discarding" /\ task'[t].op = task[t].op
      BY <3>1, <3>2 DEF Call
    <3> QED BY <2>1, <3>3 DEF OneIdentity, Named, Holding, Identifies
  <2> QED BY <1>17, <2>2, <2>3, <2>4 DEF Locked
<1>18. CASE Discarded(t)
  <2>1. Connect(t, lost') /\ task[t].pc = "discarding"
    BY <1>18 DEF Discarded
  <2> QED BY <1>16, <2>1 DEF Holding
<1>19. CASE Opened(t)
  <2>1. CASE Hands(t, task[t])
    BY <1>15, <1>19, <2>1 DEF Opened, Holding
  <2>2. CASE Ends(t)
    BY <1>4, <2>2 DEF Ends
  <2>3. CASE task' = [task EXCEPT ![t].pc = "replaying", ![t].sent = token]
    <3>1. task'[t].pc = "replaying" /\ task'[t].op = task[t].op
      BY <1>1, <2>3 DEF Call
    <3> QED BY <1>19, <3>1 DEF Opened, OneIdentity, Named, Holding, Identifies
  <2> QED BY <1>19, <2>1, <2>2, <2>3 DEF Opened, Publish
<1>20. CASE Replay(t) \/ ReplayRejected(t)
  <2>1. CASE Hands(t, task[t])
    BY <1>15, <1>20, <2>1 DEF Replay, ReplayRejected, Holding
  <2>2. CASE Ends(t)
    BY <1>4, <2>2 DEF Ends
  <2> QED BY <1>20, <2>1, <2>2 DEF Replay, ReplayRejected, Publish
<1> QED BY <1>7, <1>8, <1>9, <1>10, <1>11, <1>12, <1>13, <1>14, <1>17, <1>18, <1>19, <1>20
        DEF Own, Progress

(* Nothing but signing in gives a loop an identity, or the manager a token. *)
LEMMA OwnChooses ==
  ASSUME TypeOK, NEW t \in Tasks, Own(t)
  PROVE  \/ SignedIn(t)
         \/ token' \in {token, None} /\ \A l \in Loops : chosen'[l] \in {chosen[l], None}
<1>1. LoopOf[t] \in Loops /\ chosen \in [Loops -> Identity \cup {None}]
  BY ClientsAssumption DEF TypeOK
<1>2. CASE CloseAll(t) \/ GetClient(t) \/ Signin(t) \/ Invalidate(t) \/ Cancel(t)
  BY <1>1, <1>2 DEF CloseAll, GetClient, Signin, Invalidate, Enter, Cancel
<1>3. CASE Progress(t) /\ ~SignedIn(t)
  BY <1>1, <1>3 DEF Progress, Locked, Discarded, OpenFails, Opened, Replay, ReplayRejected, ReplayLost,
                    Invalidated, ExchangeFails, Restored, RestoreFails, CloseRest, Return, Closes
<1> QED BY <1>2, <1>3 DEF Own

LEMMA OneStep ==
  ASSUME TypeOK, OneIdentity, [Next]_vars
  PROVE  OneIdentity'
<1>1. ASSUME \A u \in Tasks : Keeps(u), token' \in {token, None}, \A l \in Loops : chosen'[l] \in {chosen[l], None}
      PROVE  OneIdentity'
  BY <1>1, ClientsAssumption DEF OneIdentity, Keeps, Named, Identifies
<1>2. CASE UNCHANGED vars
  BY <1>1, <1>2 DEF vars, Keeps
<1>3. ASSUME NEW t \in Tasks, Own(t)
      PROVE  OneIdentity'
  <2>1. \A u \in Tasks \ {t} : Keeps(u)
    BY <1>3, OthersKeep
  <2>2. /\ Named(t)'
        /\ Identifies(t)' => Identifies(t) \/ OneAtATime
        /\ task'[t].pc = "exchanging" => Identifies(t)'
        /\ task'[t].pc = "restoring" => Invalidated(t) /\ Identifies(t) /\ Identifies(t)'
    BY <1>3, OwnNames
  <2>3. \A u \in Tasks \ {t} : Identifies(u)' <=> Identifies(u)
    BY <2>1 DEF Keeps, Identifies
  <2>4. \A u, w \in Tasks : Identifies(u)' /\ Identifies(w)' => u = w
    BY <2>2, <2>3 DEF OneIdentity, OneAtATime
  <2>5. ASSUME NEW u \in Tasks \ {t}
        PROVE  /\ Named(u)'
               /\ task'[u].pc = "exchanging" => Identifies(u)'
               /\ task'[u].pc = "restoring" => /\ Identifies(u)'
                                               /\ token' = None /\ chosen'[LoopOf[u]] = None
    <3>1. Keeps(u)
      BY <2>1
    <3>2. CASE token' \in {token, None} /\ \A l \in Loops : chosen'[l] \in {chosen[l], None}
      BY <2>3, <3>1, <3>2, ClientsAssumption DEF OneIdentity, Keeps, Named
    <3>3. CASE SignedIn(t)
      <4>1. Identifies(t)
        BY <3>3 DEF SignedIn, OneIdentity
      <4>2. task[u].pc # "restoring"
        BY <4>1 DEF OneIdentity
      <4> QED BY <2>3, <3>1, <4>2 DEF OneIdentity, Keeps, Named
    <3> QED BY <1>3, <3>2, <3>3, OwnChooses
  <2>6. task'[t].pc = "restoring" => token' = None /\ chosen'[LoopOf[t]] = None
    BY <2>2, ClientsAssumption DEF Invalidated, TypeOK
  <2> QED BY <2>2, <2>4, <2>5, <2>6 DEF OneIdentity
<1>4. CASE ClearSession \/ ChangeSettings \/ \E l \in Loops : CloseConnection(l) \/ Drop(l)
  <2>1. \A u \in Tasks : Keeps(u)
    BY <1>4, AllKeep
  <2>2. token' \in {token, None} /\ \A l \in Loops : chosen'[l] \in {chosen[l], None}
    BY <1>4 DEF ClearSession, ChangeSettings, CloseConnection, Closes, Drop, TypeOK
  <2> QED BY <1>1, <2>1, <2>2
<1> QED BY <1>2, <1>3, <1>4 DEF Next, Own

-----------------------------------------------------------------------------
(***************************************************************************)
(* The clients that are cached.                                            *)
(***************************************************************************)
(* What a step may leave in the cache of a loop: what was there, nothing,  *)
(* or a client of the settings of now whose stamp tells what it runs as.   *)
Fit(c, on, held) == c.on = on /\ Stamped(c, held)

(* The client a call publishes.                                            *)
LEMMA PublishCaches ==
  ASSUME TypeOK, LocksLetGo, OpensRight, NEW t \in Tasks, Opening(t), UNCHANGED settings,
         NEW client, Publish(t, client, TRUE) \/ Publish(t, client, FALSE), client.on = task[t].built.on,
         Stamped(client, token')
  PROVE  /\ \A k \in Loops \ {LoopOf[t]} : cached'[k] = cached[k]
         /\ cached'[LoopOf[t]] = Mine(t) \/ Fit(cached'[LoopOf[t]], settings'.on, token')
<1>1. LoopOf[t] \in Loops /\ cached \in [Loops -> Client \cup {NoClient}]
  BY ClientsAssumption DEF TypeOK
<1>2. CASE Serves(t)
  <2>1. cached' = [cached EXCEPT ![LoopOf[t]] = client]
    BY <1>2 DEF Publish
  <2>2. client.on = settings.on
    BY <1>2 DEF Serves, OpensRight, Opens
  <2> QED BY <1>1, <2>1, <2>2 DEF Fit
<1>3. CASE ~Serves(t)
  BY <1>3 DEF Publish, Mine
<1> QED BY <1>2, <1>3

LEMMA OwnCaches ==
  ASSUME TypeOK, LocksLetGo, OpensRight, OneIdentity, ServesCurrent, NEW t \in Tasks, Own(t)
  PROVE  /\ \A k \in Loops \ {LoopOf[t]} : cached'[k] \in {cached[k], NoClient}
         /\ cached'[LoopOf[t]] \in {Mine(t), NoClient} \/ Fit(cached'[LoopOf[t]], settings'.on, token')
<1>1. /\ LoopOf[t] \in Loops /\ cached \in [Loops -> Client \cup {NoClient}]
      /\ Right(task[t]) /\ UNCHANGED settings
  BY ClientsAssumption, AllRight, OwnLeaves DEF TypeOK
<1>2. CASE \A k \in Loops : cached'[k] \in {cached[k], NoClient}
  BY <1>1, <1>2 DEF Mine
<1>3. CASE \/ GetClient(t) \/ Signin(t) \/ Invalidate(t) \/ CloseAll(t) \/ Cancel(t)
           \/ Locked(t) \/ Discarded(t) \/ OpenFails(t) \/ ReplayLost(t) \/ ExchangeFails(t)
           \/ RestoreFails(t) \/ CloseRest(t) \/ Return(t)
  BY <1>1, <1>2, <1>3 DEF GetClient, Signin, Invalidate, Enter, CloseAll, Cancel, Locked, Discarded,
     OpenFails, ReplayLost, ExchangeFails, RestoreFails, Closes, CloseRest, Return
<1>4. ASSUME Opening(t)
      PROVE  /\ task[t].built \in Client /\ task[t].built.who = Configured
             /\ token # None => task[t].built.stamp = token
             /\ task[t].pc = "replaying" => task[t].sent = task[t].built.stamp
             /\ task[t].built.stamp # None
  <2>1. task[t].built \in Client
    BY <1>1, <1>4 DEF Right, Call, Opening
  <2>2. None \notin Identity
    BY ClientsAssumption DEF Identity, Configured, None
  <2> QED BY <1>4, <2>1, <2>2 DEF OpensRight, Opens, Client
<1>5. CASE Opened(t)
  <2>1. CASE token = None
    <3>1. Stamped(task[t].built, token') /\ Publish(t, task[t].built, TRUE) /\ Opening(t)
      BY <1>4, <1>5, <2>1 DEF Opened, Stamped, Opening
    <3> QED BY <1>1, <3>1, PublishCaches
  <2>2. CASE token # None
    BY <1>2, <1>5, <2>2 DEF Opened
  <2> QED BY <2>1, <2>2
<1>6. CASE Replay(t)
  <2>1. Opening(t) /\ task[t].sent = task[t].built.stamp /\ task[t].built \in Client
    BY <1>4, <1>6 DEF Replay, Opening
  <2>2. Replayed(t).on = task[t].built.on /\ Replayed(t).who = task[t].sent
        /\ Replayed(t).stamp = task[t].built.stamp
    BY <2>1 DEF Replayed, Client
  <2>3. Stamped(Replayed(t), token')
    BY <2>1, <2>2 DEF Stamped
  <2> QED BY <1>1, <1>6, <2>1, <2>2, <2>3, PublishCaches DEF Replay
<1>7. CASE ReplayRejected(t)
  <2> DEFINE c == [task[t].built EXCEPT !.stamp = Configured]
  <2>1. Opening(t) /\ task[t].built \in Client /\ task[t].built.who = Configured
    BY <1>4, <1>7 DEF ReplayRejected, Opening
  <2>2. c.on = task[t].built.on /\ c.who = Configured /\ c.stamp = Configured
    BY <2>1 DEF Client
  <2>3. Publish(t, c, FALSE)
    BY <1>7 DEF ReplayRejected
  <2> HIDE DEF c
  <2>4. Stamped(c, token')
    BY <2>2 DEF Stamped
  <2> QED BY <1>1, <2>1, <2>2, <2>3, <2>4, PublishCaches
<1>8. Reaches(t) => Mine(t) # NoClient /\ Mine(t).on = settings.on
  BY <1>1 DEF Reaches, NoClient, ServesCurrent, Mine
<1>9. ASSUME Reaches(t), NEW who \in Identity \cup {Anonymous}, NEW stamp \in Identity,
             NEW replayable \in BOOLEAN, SetsIdentity(t, who, stamp, replayable),
             replayable => who = stamp
      PROVE  /\ \A k \in Loops \ {LoopOf[t]} : cached'[k] \in {cached[k], NoClient}
             /\ Fit(cached'[LoopOf[t]], settings'.on, token')
  BY <1>1, <1>8, <1>9, SetsRight DEF Fit, Stamped
<1>10. ReplayIdentity \in Identity
  BY DEF ReplayIdentity, TypeOK, Identity
<1>11. CASE SignedIn(t)
  <2> DEFINE to == task[t].to
             kept == task[t].kept
             replay == IF kept THEN to ELSE ReplayIdentity
  <2>1. to \in Identity /\ kept \in BOOLEAN /\ Reaches(t)
    BY <1>1, <1>11 DEF SignedIn, Right, Call
  <2>2. replay \in Identity /\ (kept => to = replay)
    BY <1>10, <2>1
  <2>3. SetsIdentity(t, to, replay, kept)
    BY <1>11 DEF SignedIn
  <2> HIDE DEF to, kept, replay
  <2> QED BY <1>9, <2>1, <2>2, <2>3
<1>12. CASE Restored(t)
  <2>1. token = None
    BY <1>12 DEF Restored, OneIdentity
  <2>2. ReplayIdentity = Configured /\ Reaches(t) /\ SetsIdentity(t, Configured, ReplayIdentity, TRUE)
    BY <1>12, <2>1 DEF Restored, ReplayIdentity
  <2> QED BY <1>9, <1>10, <2>2
<1>13. CASE Invalidated(t)
  <2> DEFINE c == [Mine(t) EXCEPT !.who = Anonymous]
  <2>1. Mine(t) \in Client /\ Mine(t).on = settings.on
    BY <1>1, <1>8, <1>13 DEF Invalidated, Mine
  <2>2. c.on = settings.on /\ c.who = Anonymous
    BY <2>1 DEF Client
  <2>3. cached' = [cached EXCEPT ![LoopOf[t]] = c]
    BY <1>1, <1>13 DEF Invalidated, Mine
  <2> HIDE DEF c
  <2> QED BY <1>1, <2>2, <2>3 DEF Fit, Stamped
<1> QED BY <1>3, <1>5, <1>6, <1>7, <1>11, <1>12, <1>13 DEF Own, Progress

LEMMA ServesStep ==
  ASSUME TypeOK, LocksLetGo, OpensRight, OneIdentity, ServesCurrent, [Next]_vars
  PROVE  ServesCurrent'
<1>1. CASE UNCHANGED vars
  BY <1>1 DEF vars, ServesCurrent
<1>2. ASSUME NEW t \in Tasks, Own(t)
      PROVE  ServesCurrent'
  <2>1. UNCHANGED settings
    BY <1>2, OwnLeaves
  <2> QED BY <1>2, <2>1, OwnCaches DEF ServesCurrent, Fit, Mine
<1>3. ASSUME NEW l \in Loops, CloseConnection(l) \/ Drop(l)
      PROVE  ServesCurrent'
  <2>1. /\ cached \in [Loops -> Client \cup {NoClient}]
        /\ UNCHANGED settings
    BY <1>3 DEF TypeOK, CloseConnection, Drop
  <2>2. CASE CloseConnection(l)
    BY <2>1, <2>2 DEF CloseConnection, Closes, ServesCurrent
  <2>3. CASE Drop(l)
    <3> DEFINE c == [cached[l] EXCEPT !.up = FALSE]
    <3>1. cached[l] \in Client /\ cached' = [cached EXCEPT ![l] = c]
      BY <2>1, <2>3 DEF Drop, Alive
    <3>2. c.on = cached[l].on /\ cached[l] # NoClient
      BY <2>3, <3>1 DEF Client, Drop, Alive
    <3> HIDE DEF c
    <3> QED BY <2>1, <3>1, <3>2 DEF ServesCurrent
  <2> QED BY <1>3, <2>2, <2>3
<1>4. CASE ClearSession
  BY <1>4 DEF ClearSession, ServesCurrent
<1>5. CASE ChangeSettings
  BY <1>5 DEF ChangeSettings, Kept, ServesCurrent
<1> QED BY <1>1, <1>2, <1>3, <1>4, <1>5 DEF Next, Own

(* A token the manager forgets is no stamp of a client it will compare     *)
(* with, and the one it takes is new.                                      *)
LEMMA StampsStep ==
  ASSUME TypeOK, LocksLetGo, OpensRight, OneIdentity, ServesCurrent, Stamps, [Next]_vars
  PROVE  Stamps'
<1>1. /\ cached \in [Loops -> Client \cup {NoClient}] /\ None \notin Identity
      /\ NoClient.stamp = None /\ NoClient.who = None
  BY ClientsAssumption DEF TypeOK, Identity, Configured, None, NoClient
<1>2. ASSUME NEW l \in Loops, NEW held, held \in {token, None} \/ cached[l].stamp # held
      PROVE  Stamped(cached[l], held)
  <2>1. Stamped(cached[l], token) /\ cached[l].stamp \in Identity \cup {None}
    BY <1>1 DEF Stamps, Client
  <2>2. CASE cached[l] \in Client
    <3>1. cached[l].stamp \in Identity
      BY <2>2 DEF Client
    <3> QED BY <1>1, <1>2, <2>1, <3>1 DEF Stamped
  <2>3. CASE cached[l] = NoClient
    BY <1>1, <2>3 DEF Stamped
  <2> QED BY <1>1, <2>2, <2>3
<1>3. \A held : Stamped(NoClient, held)
  BY <1>1 DEF Stamped
<1>4. CASE UNCHANGED vars
  BY <1>4 DEF vars, Stamps
<1>5. ASSUME NEW t \in Tasks, Own(t)
      PROVE  Stamps'
  <2>1. \A l \in Loops : cached'[l] \in {cached[l], NoClient} \/ Stamped(cached'[l], token')
    BY <1>5, OwnCaches DEF Fit, Mine
  <2>2. \A l \in Loops : token' \in {token, None} \/ cached[l].stamp # token'
    <3>1. SignedIn(t) => token' = token \/ \A l \in Loops : cached[l].stamp # token'
      BY DEF SignedIn, Fresh
    <3> QED BY <1>5, <3>1, OwnLeaves
  <2> QED BY <1>2, <1>3, <2>1, <2>2 DEF Stamps
<1>6. CASE \E l \in Loops : CloseConnection(l)
  BY <1>1, <1>2, <1>3, <1>6 DEF CloseConnection, Closes, Stamps
<1>7. ASSUME NEW l \in Loops, Drop(l)
      PROVE  Stamps'
  <2> DEFINE c == [cached[l] EXCEPT !.up = FALSE]
  <2>1. cached[l] \in Client /\ cached' = [cached EXCEPT ![l] = c] /\ UNCHANGED token
    BY <1>1, <1>7 DEF Drop, Alive
  <2>2. c.who = cached[l].who /\ c.stamp = cached[l].stamp /\ c.replayable = cached[l].replayable
    BY <2>1 DEF Client
  <2> HIDE DEF c
  <2>3. Stamped(c, token)
    BY <2>2 DEF Stamps, Stamped
  <2> QED BY <1>1, <2>1, <2>3 DEF Stamps
<1>8. CASE ClearSession
  BY <1>2, <1>8 DEF ClearSession, Stamps
<1>9. CASE ChangeSettings
  BY <1>3, <1>9 DEF ChangeSettings, Kept, Stamps
<1> QED BY <1>4, <1>5, <1>6, <1>7, <1>8, <1>9 DEF Next, Own

-----------------------------------------------------------------------------
(***************************************************************************)
(* The inductive invariant.                                                *)
(***************************************************************************)
Inv == TypeOK /\ LocksLetGo /\ OpensRight /\ OneIdentity /\ ServesCurrent /\ Stamps

LEMMA InvHolds == Spec => []Inv
<1>1. ASSUME Init
      PROVE  Inv
  <2>1. TypeOK /\ LocksLetGo
    BY <1>1, InitKeeps
  <2>2. Idle.pc = "idle" /\ Idle.op = None /\ \A t \in Tasks : task[t] = Idle
    BY <1>1 DEF Init, Idle
  <2>3. OpensRight
    BY <2>2 DEF OpensRight, Opens, Opening
  <2>4. OneIdentity
    BY <2>2 DEF OneIdentity, Named, Identifies, Holding, None
  <2>5. \A l \in Loops : cached[l] = NoClient
    BY <1>1 DEF Init
  <2>6. NoClient.who = None /\ NoClient.stamp = None /\ token = None
    BY <1>1 DEF NoClient, Init
  <2>7. ServesCurrent /\ Stamps
    BY <2>5, <2>6 DEF ServesCurrent, Stamps, Stamped
  <2> QED BY <2>1, <2>3, <2>4, <2>7 DEF Inv
<1>2. Inv /\ [Next]_vars => Inv'
  BY StepKeeps, OpensStep, OneStep, ServesStep, StampsStep DEF Inv
<1> QED BY <1>1, <1>2, PTL DEF Spec

(* A cached client was opened on the settings the name has now, whatever   *)
(* calls were opening one while the settings changed (_publish(),          *)
(* _retire_server_clients()).                                              *)
THEOREM ServesCurrentSettings == Spec => []ServesCurrent
<1>1. Inv => ServesCurrent
  BY DEF Inv
<1> QED BY <1>1, InvHolds, PTL

(* A client that carries the stamp of the identity a reconnect restores    *)
(* runs as that identity (_stamp_identity(), _replay_identity()).          *)
THEOREM StampsTell == Spec => []StampTells
<1>1. Inv => StampTells
  BY DEF Inv, Stamps, Stamped, StampTells, ReplayIdentity
<1> QED BY <1>1, InvHolds, PTL

-----------------------------------------------------------------------------
(***************************************************************************)
(* The identity the program chose for a loop.                              *)
(***************************************************************************)
(* A task cancelled between discarding a dead client and noting what was   *)
(* lost would leave the loop without its note: the code needs this not to  *)
(* happen.                                                                 *)
NotCutShort == "discarding" \notin CancelledAt

SameClient(c, d) == c # NoClient /\ c.who = d.who /\ c.replayable = d.replayable

LEMMA ChosenStays ==
  ASSUME NEW l \in Loops, Chosen(l), chosen'[l] \in {chosen[l], None}, l \in lost => l \in lost',
         cached[l] = NoClient \/ SameClient(cached'[l], cached[l]),
         \A u \in Tasks : task[u].pc = "discarding" => Keeps(u)
  PROVE  Chosen(l)'
BY DEF Chosen, SameClient, Keeps

LEMMA ChoicesOwn ==
  ASSUME NotCutShort, Inv, Choices, NEW t \in Tasks, Own(t)
  PROVE  Choices'
<1> USE DEF Inv
<1>1. /\ LoopOf[t] \in Loops /\ cached \in [Loops -> Client \cup {NoClient}]
      /\ Right(task[t]) /\ Right(Idle) /\ task \in [Tasks -> Call]
      /\ chosen \in [Loops -> Identity \cup {None}] /\ lost \subseteq Loops
  BY ClientsAssumption, AllRight, IdleRight DEF TypeOK
<1>2. \A u \in Tasks \ {t} : Keeps(u)
  BY OthersKeep
<1>3. ASSUME task[t].pc # "discarding"
      PROVE  \A u \in Tasks : task[u].pc = "discarding" => Keeps(u)
  BY <1>2, <1>3
<1>4. ASSUME NEW l \in Loops, chosen'[l] = None
      PROVE  Chosen(l)'
  BY <1>4 DEF Chosen
<1>5. ASSUME NEW l \in Loops, task[t].pc # "discarding", chosen'[l] = chosen[l],
             l \in lost => l \in lost', cached'[l] = cached[l]
      PROVE  Chosen(l)'
  BY <1>3, <1>5, ChosenStays DEF Choices, SameClient
<1>6. CASE task[t].pc # "discarding" /\ UNCHANGED <<chosen, lost, cached>>
  BY <1>5, <1>6 DEF Choices
<1>7. CASE GetClient(t) \/ Signin(t) \/ Invalidate(t)
  BY <1>6, <1>7 DEF GetClient, Signin, Invalidate, Enter
<1>8. CASE Cancel(t)
  BY <1>6, <1>8 DEF Cancel, NotCutShort
<1>9. CASE ExchangeFails(t) \/ Return(t) \/ ReplayLost(t)
  BY <1>6, <1>9 DEF ExchangeFails, Return, ReplayLost
<1>10. CASE CloseAll(t) \/ CloseRest(t)
  BY <1>4, <1>10 DEF CloseAll, CloseRest, Choices
<1>11. CASE RestoreFails(t)
  BY <1>1, <1>4, <1>5, <1>11 DEF RestoreFails, Closes, Choices
<1>12. CASE OpenFails(t) \/ Opened(t) \/ Replay(t) \/ ReplayRejected(t)
  <2>1. /\ Opening(t) /\ Mine(t) = NoClient /\ task[t].pc # "discarding"
        /\ UNCHANGED <<chosen, lost>> /\ \A k \in Loops \ {LoopOf[t]} : cached'[k] = cached[k]
    BY <1>1, <1>12 DEF OpenFails, Opened, Replay, ReplayRejected, Publish, Opening, LocksLetGo, Holding
  <2>2. Chosen(LoopOf[t])'
    BY <1>1, <1>3, <2>1, ChosenStays DEF Choices, Mine
  <2> QED BY <1>5, <2>1, <2>2 DEF Choices
<1>13. CASE SignedIn(t)
  <2> DEFINE to == task[t].to
             kept == task[t].kept
             replay == IF kept THEN to ELSE ReplayIdentity
  <2>1. to \in Identity /\ kept \in BOOLEAN /\ Reaches(t) /\ replay \in Identity
    BY <1>1, <1>13 DEF SignedIn, Right, Call, ReplayIdentity, TypeOK, Identity
  <2>2. SetsIdentity(t, to, replay, kept) /\ Mine(t) # NoClient
    BY <1>13, <2>1 DEF SignedIn, Reaches, NoClient
  <2>3. /\ task[t].pc # "discarding" /\ lost' = lost \ {LoopOf[t]}
        /\ chosen' = [chosen EXCEPT ![LoopOf[t]] = IF kept THEN None ELSE to]
    BY <1>13 DEF SignedIn
  <2> HIDE DEF to, kept, replay
  <2>4. /\ cached'[LoopOf[t]] \in Client
        /\ cached'[LoopOf[t]].who = to /\ cached'[LoopOf[t]].replayable = kept
        /\ \A k \in Loops \ {LoopOf[t]} : cached'[k] = cached[k]
    BY <2>1, <2>2, SetsRight
  <2>5. Chosen(LoopOf[t])'
    BY <1>1, <2>1, <2>3, <2>4, IdleRight DEF Chosen
  <2> QED BY <1>1, <1>5, <2>3, <2>4, <2>5 DEF Choices
<1>14. CASE Invalidated(t)
  BY <1>1, <1>4, <1>5, <1>14 DEF Invalidated, Choices
<1>15. CASE Restored(t)
  <2>1. /\ chosen[LoopOf[t]] = None /\ task[t].pc # "discarding" /\ UNCHANGED chosen
        /\ lost' = lost \ {LoopOf[t]}
        /\ \A k \in Loops \ {LoopOf[t]} : cached'[k] = cached[k]
    BY <1>1, <1>15 DEF Restored, OneIdentity, SetsIdentity
  <2> QED BY <1>4, <1>5, <2>1 DEF Choices
<1>16. CASE Locked(t)
  <2>1. CASE UNCHANGED cached
    BY <1>6, <1>16, <2>1 DEF Locked
  <2> DEFINE tasks == Retired(LoopOf[t], task)
  <2>2. CASE /\ cached' = [cached EXCEPT ![LoopOf[t]] = NoClient] /\ Mine(t) # NoClient
             /\ task' = [tasks EXCEPT ![t].pc = "discarding", ![t].doomed = ~Mine(t).replayable]
    <3>1. tasks \in [Tasks -> Call]
      BY <1>1, RetiredRight
    <3> HIDE DEF tasks
    <3>2. task'[t].pc = "discarding" /\ task'[t].doomed = ~Mine(t).replayable
      BY <2>2, <3>1 DEF Call
    <3>3. task[t].pc # "discarding" /\ UNCHANGED <<chosen, lost>>
      BY <1>16 DEF Locked
    <3>4. Chosen(LoopOf[t])'
      <4>1. Chosen(LoopOf[t])
        BY <1>1 DEF Choices
      <4>2. \A u \in Tasks : task[u].pc = "discarding" => Keeps(u)
        BY <1>3, <3>3
      <4> QED BY <1>1, <3>2, <3>3, <4>1, <4>2 DEF Chosen, Keeps, Mine
    <3>5. \A k \in Loops \ {LoopOf[t]} : cached'[k] = cached[k]
      BY <1>1, <2>2
    <3> QED BY <1>5, <3>3, <3>4, <3>5 DEF Choices
  <2> QED BY <1>16, <2>1, <2>2 DEF Locked
<1>17. CASE Discarded(t)
  <2>1. task[t].pc = "discarding" /\ UNCHANGED <<chosen, cached>> /\ lost' = Losses(t)
    BY <1>17 DEF Discarded
  <2>2. lost \subseteq lost' /\ (task[t].doomed => LoopOf[t] \in lost')
    BY <2>1 DEF Losses
  <2> QED BY <1>2, <2>1, <2>2 DEF Choices, Chosen, Keeps
<1> QED BY <1>7, <1>8, <1>9, <1>10, <1>11, <1>12, <1>13, <1>14, <1>15, <1>16, <1>17 DEF Own, Progress

LEMMA ChoicesStep ==
  ASSUME NotCutShort, Inv, Choices, [Next]_vars
  PROVE  Choices'
<1>1. ASSUME \A u \in Tasks : Keeps(u), UNCHANGED lost, NEW l \in Loops, UNCHANGED chosen[l],
             cached'[l] = cached[l]
      PROVE  Chosen(l)'
  BY <1>1, ChosenStays DEF Choices, SameClient
<1>2. CASE UNCHANGED vars
  BY <1>1, <1>2 DEF vars, Keeps, Choices
<1>3. CASE ClearSession
  BY <1>1, <1>3, AllKeep DEF Inv, ClearSession, Choices
<1>4. CASE ChangeSettings
  BY <1>4 DEF ChangeSettings, Choices, Chosen
<1>5. ASSUME NEW l \in Loops, CloseConnection(l)
      PROVE  Choices'
  <2>1. \A u \in Tasks : Keeps(u)
    BY <1>5, AllKeep DEF Inv
  <2>2. /\ chosen' = [chosen EXCEPT ![l] = None] /\ cached' = [cached EXCEPT ![l] = NoClient]
        /\ lost' = lost \ {l} /\ chosen \in [Loops -> Identity \cup {None}]
    BY <1>5 DEF CloseConnection, Closes, Inv, TypeOK
  <2>3. Chosen(l)'
    BY <2>2 DEF Chosen
  <2>4. ASSUME NEW k \in Loops \ {l}
        PROVE  Chosen(k)'
    <3>1. k \in lost => k \in lost'
      BY <2>2
    <3>2. chosen'[k] = chosen[k]
      BY <2>2
    <3>3. cached'[k] = cached[k]
      BY <2>2 DEF Inv, TypeOK
    <3> QED BY <2>1, <3>1, <3>2, <3>3, ChosenStays DEF Choices, SameClient
  <2> QED BY <2>3, <2>4 DEF Choices
<1>6. ASSUME NEW l \in Loops, Drop(l)
      PROVE  Choices'
  <2> DEFINE c == [cached[l] EXCEPT !.up = FALSE]
  <2>1. /\ cached[l] \in Client /\ cached' = [cached EXCEPT ![l] = c]
        /\ cached \in [Loops -> Client \cup {NoClient}]
        /\ UNCHANGED <<chosen, lost, task>>
    BY <1>6 DEF Drop, Alive, Inv, TypeOK
  <2>2. c \in Client /\ c.who = cached[l].who /\ c.replayable = cached[l].replayable
    BY <2>1 DEF Client
  <2> HIDE DEF c
  <2>3. SameClient(cached'[l], cached[l])
    BY <2>1, <2>2, IdleRight DEF SameClient
  <2>4. \A u \in Tasks : Keeps(u)
    BY <2>1 DEF Keeps
  <2>5. ASSUME NEW k \in Loops
        PROVE  Chosen(k)'
    <3>1. cached[k] = NoClient \/ SameClient(cached'[k], cached[k])
      BY <2>1, <2>3 DEF SameClient
    <3> QED BY <2>1, <2>4, <3>1, ChosenStays DEF Choices
  <2> QED BY <2>5 DEF Choices
<1>7. ASSUME NEW t \in Tasks, Own(t)
      PROVE  Choices'
  BY <1>7, ChoicesOwn
<1> QED BY <1>2, <1>3, <1>4, <1>5, <1>6, <1>7 DEF Next, Own

(* Who gets a client: it is there already, or the call has opened it.      *)
LEMMA OwnGets ==
  ASSUME TypeOK, NEW t \in Tasks, Own(t), Got(t)
  PROVE  /\ UNCHANGED chosen
         /\ \/ Alive(Mine(t)) /\ UNCHANGED cached /\ (task[t].pc = "waiting" \/ LoopOf[t] \notin lost)
            \/ Opening(t) /\ task[t].op = "get"
<1>1. /\ task \in [Tasks -> Call] /\ Right(Idle) /\ \A u \in Tasks : Right(task[u])
      /\ Idle.pc = "idle" /\ task'[t].pc = "has"
  BY AllRight, IdleRight DEF TypeOK, Idle, Got
<1>2. ASSUME task' = [task EXCEPT ![t] = Idle]
      PROVE  FALSE
  BY <1>1, <1>2
<1>3. ASSUME NEW call, Hands(t, call)
      PROVE  call.op = "get"
  <2> DEFINE c == [Asked(call) EXCEPT !.pc = IF call.op = "get" THEN "has" ELSE "exchanging", !.holds = TRUE]
  <2>1. task'[t] = c
    BY <1>1, <1>3 DEF Hands
  <2>2. c.pc = IF call.op = "get" THEN "has" ELSE "exchanging"
    BY DEF Asked, Idle
  <2> HIDE DEF c
  <2> QED BY <1>1, <2>1, <2>2
<1>4. ASSUME NEW call, Enter(t, call), call.pc = "waiting"
      PROVE  Hands(t, call) /\ call.op = "get" /\ Alive(Mine(t)) /\ LoopOf[t] \notin lost /\ UNCHANGED <<cached, chosen>>
  <2>1. ~UNCHANGED task
    BY <1>1, <1>4 DEF Enter
  <2>2. task' # [task EXCEPT ![t] = call]
    BY <1>1, <1>4
  <2> QED BY <1>3, <1>4, <2>1, <2>2 DEF Enter, Mine
<1>5. CASE GetClient(t) \/ Signin(t) \/ Invalidate(t)
  <2>1. PICK call : Enter(t, call) /\ call.pc = "waiting"
    <3>1. CASE GetClient(t)
      <4> DEFINE c == [Idle EXCEPT !.pc = "waiting", !.op = "get"]
      <4>1. c.pc = "waiting" /\ Enter(t, c)
        BY <3>1 DEF Idle, GetClient
      <4> HIDE DEF c
      <4> QED BY <4>1
    <3>2. CASE Invalidate(t)
      <4> DEFINE c == [Idle EXCEPT !.pc = "waiting", !.op = "invalidate"]
      <4>1. c.pc = "waiting" /\ Enter(t, c)
        BY <3>2 DEF Idle, Invalidate
      <4> HIDE DEF c
      <4> QED BY <4>1
    <3>3. CASE Signin(t)
      <4>1. PICK s \in Signins :
              Enter(t, [Idle EXCEPT !.pc = "waiting", !.op = "signin", !.to = s.to, !.kept = s.kept])
        BY <3>3 DEF Signin
      <4> DEFINE c == [Idle EXCEPT !.pc = "waiting", !.op = "signin", !.to = s.to, !.kept = s.kept]
      <4>2. c.pc = "waiting" /\ Enter(t, c)
        BY <4>1 DEF Idle
      <4> HIDE DEF c
      <4> QED BY <4>2
    <3> QED BY <1>5, <3>1, <3>2, <3>3
  <2> QED BY <1>4, <2>1
<1>6. CASE Locked(t)
  <2>1. ~Connect(t, lost)
    <3> SUFFICES ASSUME Connect(t, lost) PROVE FALSE
      OBVIOUS
    <3> DEFINE built == [on |-> settings.on, who |-> Configured, stamp |-> ReplayIdentity,
                         replayable |-> TRUE, up |-> TRUE]
               a == Asked(task[t])
               c == [a EXCEPT !.pc = "opening", !.generation = settings.generation, !.built = built]
    <3>1. task' = [task EXCEPT ![t] = c]
      BY <1>2 DEF Connect, Ends
    <3>2. a \in Call
      BY <1>1 DEF Asked, Right, Call
    <3> HIDE DEF a, built
    <3>3. c.pc = "opening"
      BY <3>2 DEF Call
    <3> QED BY <1>1, <3>1, <3>3
  <2>2. task' # [Retired(LoopOf[t], task) EXCEPT ![t].pc = "discarding",
                                                 ![t].doomed = ~Mine(t).replayable]
    <3> DEFINE tasks == Retired(LoopOf[t], task)
    <3>1. tasks \in [Tasks -> Call]
      BY <1>1, RetiredRight
    <3> HIDE DEF tasks
    <3>2. task' # [tasks EXCEPT ![t].pc = "discarding", ![t].doomed = ~Mine(t).replayable]
      <4> SUFFICES ASSUME task' = [tasks EXCEPT ![t].pc = "discarding", ![t].doomed = ~Mine(t).replayable]
                   PROVE  FALSE
        OBVIOUS
      <4>1. task'[t].pc = "discarding"
        BY <3>1 DEF Call
      <4> QED BY <1>1, <4>1
    <3> QED BY <3>2 DEF tasks
  <2> QED BY <1>6, <2>1, <2>2 DEF Locked, Reuse
<1>7. CASE Opened(t) \/ Replay(t)
  <2>1. Opening(t) /\ UNCHANGED chosen
    BY <1>7 DEF Opened, Replay, Opening
  <2>2. ~Ends(t)
    BY <1>2 DEF Ends
  <2>3. task' # [task EXCEPT ![t].pc = "replaying", ![t].sent = token]
    <3> SUFFICES ASSUME task' = [task EXCEPT ![t].pc = "replaying", ![t].sent = token] PROVE FALSE
      OBVIOUS
    <3>1. task'[t].pc = "replaying"
      BY <1>1 DEF Call
    <3> QED BY <1>1, <3>1
  <2>4. Hands(t, task[t])
    BY <1>7, <2>2, <2>3 DEF Opened, Replay, Publish
  <2> QED BY <1>3, <2>1, <2>4
<1>8. ~Discarded(t)
  <2> SUFFICES ASSUME Discarded(t) PROVE FALSE
    OBVIOUS
  <2> DEFINE built == [on |-> settings.on, who |-> Configured, stamp |-> ReplayIdentity,
                       replayable |-> TRUE, up |-> TRUE]
             a == Asked(task[t])
             c == [a EXCEPT !.pc = "opening", !.generation = settings.generation, !.built = built]
  <2>1. task' = [task EXCEPT ![t] = c]
    BY <1>2 DEF Discarded, Connect, Ends
  <2>2. a \in Call
    BY <1>1 DEF Asked, Right, Call
  <2> HIDE DEF a, built
  <2>3. c.pc = "opening"
    BY <2>2 DEF Call
  <2> QED BY <1>1, <2>1, <2>3
<1>9. ~(\/ OpenFails(t) \/ ReplayRejected(t) \/ ReplayLost(t) \/ SignedIn(t) \/ ExchangeFails(t)
        \/ Restored(t) \/ Return(t) \/ Cancel(t))
  BY <1>2 DEF OpenFails, ReplayRejected, Publish, ReplayLost, SignedIn, ExchangeFails, Restored, Return,
              Cancel, Ends
<1>10. ~Invalidated(t)
  BY <1>1 DEF Invalidated, Call
<1>11. ~RestoreFails(t)
  <2> SUFFICES ASSUME RestoreFails(t) PROVE FALSE
    OBVIOUS
  <2> DEFINE tasks == [task EXCEPT ![t] = Idle]
  <2>1. task' = Retired(LoopOf[t], tasks)
    BY DEF RestoreFails, Closes
  <2>2. tasks \in [Tasks -> Call] /\ tasks[t] = Idle
    BY <1>1 DEF Right
  <2> HIDE DEF tasks
  <2> QED BY <1>1, <2>1, <2>2, RetiredRight
<1>12. ~CloseRest(t)
  <2> SUFFICES ASSUME CloseRest(t) PROVE FALSE
    OBVIOUS
  <2> DEFINE tasks == AllRetired(task)
  <2>1. tasks \in [Tasks -> Call]
    BY <1>1, RetiredRight
  <2> HIDE DEF tasks
  <2>2. task' = [tasks EXCEPT ![t] = Idle]
    BY DEF CloseRest, tasks
  <2> QED BY <1>1, <2>1, <2>2
<1>13. ~CloseAll(t)
  <2> SUFFICES ASSUME CloseAll(t) PROVE FALSE
    OBVIOUS
  <2> DEFINE tasks == Retired(LoopOf[t], task)
  <2>1. tasks \in [Tasks -> Call]
    BY <1>1, RetiredRight
  <2> HIDE DEF tasks
  <2>2. task' = [tasks EXCEPT ![t].pc = "closing"]
    BY DEF CloseAll, tasks
  <2>3. task'[t].pc = "closing"
    BY <2>1, <2>2 DEF Call
  <2> QED BY <1>1, <2>3
<1> QED BY <1>5, <1>6, <1>7, <1>8, <1>9, <1>10, <1>11, <1>12, <1>13 DEF Own, Progress

GotChosen(t) ==
  \/ chosen[LoopOf[t]] = None
  \/ cached'[LoopOf[t]].who = chosen[LoopOf[t]]
  \/ (task[t].pc = "waiting" /\ LoopOf[t] \in lost)

LEMMA GetsChosen ==
  ASSUME Inv, Choices, [Next]_vars, NEW t \in Tasks, Got(t)
  PROVE  GotChosen(t)
<1> USE DEF Inv, GotChosen
<1>1. ~Keeps(t) /\ ~UNCHANGED vars
  BY DEF Keeps, Got, vars
<1>2. Own(t)
  <2>1. \A u \in Tasks \ {t} : ~Own(u)
    BY <1>1, OthersKeep
  <2>2. ~(ClearSession \/ ChangeSettings \/ \E l \in Loops : CloseConnection(l) \/ Drop(l))
    BY <1>1, AllKeep
  <2> QED BY <1>1, <2>1, <2>2 DEF Next, Own
<1>3. LoopOf[t] \in Loops /\ Chosen(LoopOf[t])
  BY ClientsAssumption DEF Choices
<1>4. ASSUME NEW u \in Tasks, LoopOf[u] = LoopOf[t], task[u].pc = "discarding"
      PROVE  Mine(t) = NoClient /\ ~Opening(t)
  <2>1. Holder(u) /\ Mine(u) = NoClient
    BY <1>4 DEF LocksLetGo, Holding
  <2>2. Opening(t) => Holder(t)
    BY DEF LocksLetGo, Holding, Opening
  <2> QED BY <1>4, <2>1, <2>2 DEF Mine, Holder, Opening
<1>5. CASE Alive(Mine(t)) /\ UNCHANGED cached /\ (task[t].pc = "waiting" \/ LoopOf[t] \notin lost)
  BY <1>3, <1>4, <1>5 DEF Chosen, Alive, Mine
<1>6. CASE Opening(t) /\ task[t].op = "get"
  <2>1. LoopOf[t] \notin lost
    BY <1>6 DEF OpensRight, Opens
  <2>2. cached[LoopOf[t]] = NoClient
    BY <1>6 DEF LocksLetGo, Opening, Holding, Mine
  <2> QED BY <1>3, <1>4, <1>6, <2>1, <2>2 DEF Chosen
<1> QED BY <1>2, <1>5, <1>6, OwnGets

(* Whoever gets a client of a loop gets the identity the program set there *)
(* with store=False, never the configured user in its place                *)
(* (get_client()), as long as no task is cut short while it discards a     *)
(* dead client.                                                            *)
THEOREM GetsAsChosen ==
  ASSUME NotCutShort
  PROVE  Spec => AsChosen
<1>1. Init => Choices
  BY DEF Init, Choices, Chosen
<1>2. Inv /\ Choices /\ [Next]_vars => Choices'
  BY ChoicesStep
<1>3. Inv /\ Choices /\ [Next]_vars => [\A t \in Tasks : Got(t) => GotChosen(t)]_vars
  BY GetsChosen
<1>4. Spec => [][\A t \in Tasks : Got(t) => GotChosen(t)]_vars
  BY <1>1, <1>2, <1>3, InvHolds, PTL DEF Spec
<1> QED BY <1>4 DEF AsChosen, GotChosen

=============================================================================
