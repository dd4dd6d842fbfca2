-------------------------- MODULE LiveStreamProofs --------------------------
(***************************************************************************)
(* A live stream loses no subscription, keeps nobody waiting for ever and  *)
(* hands its notifications out in order, for every value of the constants: *)
(* the invariant behind the properties of LiveStream.tla, and its proof.   *)
(***************************************************************************)
EXTENDS LiveStream, SequenceTheorems, TLAPS

-----------------------------------------------------------------------------
(***************************************************************************)
(* The invariant, in parts: the types, the references between the records, *)
(* who may be doing what at once, a LIVE SELECT and its answer, the queue  *)
(* of the reader, what wakes it, and whose permissions its queries have.   *)
(***************************************************************************)
Identities   == {Configured} \cup {s.to : s \in Signins}
IdentityType == [as : Identities, kept : BOOLEAN]
ClientType   == [net : {"up", "closing", "down"}, runs : Identities, stamp : IdentityType]
QueryType    == [client : Nat, alive : BOOLEAN, runs : Identities, raced : BOOLEAN]
ManagerType  == [cached : Nat, replay : Identities, lost : BOOLEAN]
StreamType   == [live_id : Nat, stopping : BOOLEAN, starts : Nat, identity : IdentityType]
TaskType     == [pc : {"off", "begin", "waiting", "acquiring", "selecting", "backoff"}, old : Nat,
                 attempt : Nat, as : Identities, client : Nat, id : Nat, raced : BOOLEAN, cancelled : BOOLEAN]
KillType     == [by : Callers, id : Nat, client : Nat, answer : {"none", "done", "refused"}]
OrphanType   == [client : Nat, id : Nat, raced : BOOLEAN, run : Nat]
AuthType     == [pc : {"off", "sent", "signed"}, client : Nat, to : Identities, kept : BOOLEAN, count : Nat]
ReaderType   == [open : BOOLEAN, id : Nat, client : Nat, registered : BOOLEAN, watching : BOOLEAN,
                 parked : BOOLEAN, queue : Seq(Int), pushed : Nat, got : Int]

TypeInv ==
  /\ clients \in Seq(ClientType) /\ queries \in Seq(QueryType)
  /\ manager \in ManagerType /\ stream \in StreamType /\ reader \in ReaderType
  /\ resub \in TaskType /\ start \in TaskType
  /\ stop \in {"off", "cancelling", "killing"}
  /\ kills \subseteq KillType /\ orphans \subseteq OrphanType
  /\ auth \in AuthType /\ named \subseteq Nat

Known ==
  /\ manager.cached <= Len(clients)
  /\ stream.live_id <= Len(queries) /\ reader.id <= Len(queries)
  /\ resub.id <= Len(queries) /\ resub.old <= Len(queries) /\ start.id <= Len(queries)
  /\ resub.pc = "selecting" => resub.client \in DOMAIN clients
  /\ start.pc = "selecting" => start.client \in DOMAIN clients
  /\ auth.pc # "off" => auth.client \in DOMAIN clients
  /\ \A k \in kills : k.id \in DOMAIN queries /\ k.client \in DOMAIN clients
  /\ \A o \in orphans : o.id <= Len(queries) /\ o.client \in DOMAIN clients
  /\ reader.registered => reader.open /\ reader.id # None
  /\ reader.watching => reader.client \in DOMAIN clients
  /\ \A q \in DOMAIN queries : queries[q].alive => queries[q].client \in DOMAIN clients /\ ~Down(queries[q].client)

Roles ==
  /\ \A c \in DOMAIN clients : clients[c].net = "up" => c = manager.cached
  /\ stream.live_id # None => reader.open /\ reader.id = stream.live_id
  /\ start.pc # "off" => stop = "off" /\ auth.pc = "off" /\ stream.live_id = None
  /\ start.pc \in {"acquiring", "selecting"} => resub.pc = "off" /\ ~stream.stopping
  /\ stop # "off" => stream.stopping
  /\ resub.cancelled => resub.pc # "off" /\ (stop = "cancelling" \/ start.pc = "waiting")
  /\ resub.pc # "off" => /\ resub.old # None /\ ~queries[resub.old].alive
                         /\ reader.open => reader.id = resub.old
                         /\ reader.registered => stream.live_id # None
  /\ \A k \in kills : k.by = "stop" => stop = "killing" /\ stream.live_id \in {None, k.id}
  /\ \A j, k \in kills : j.by = "stop" /\ k.by = "stop" => j = k

(* A LIVE SELECT is known to its caller alone. *)
Private(id) ==
  /\ id # stream.live_id
  /\ \A k \in kills : k.id # id
  /\ \A o \in orphans : o.id # id

Asked(t) ==
  /\ t.pc # "selecting" => t.id = None
  /\ t.id # None => Private(t.id) /\ (IF Down(t.client) THEN ~queries[t.id].alive
                                       ELSE queries[t.id].alive /\ queries[t.id].client = t.client)
Ended == reader.pushed - reader.got < Len(reader.queue)

Buffer ==
  /\ reader.open =>
       /\ reader.got <= reader.pushed /\ reader.pushed - reader.got <= Len(reader.queue)
       /\ ~reader.registered \/ stream.live_id = None => Ended
  /\ InOrder
  /\ reader.registered /\ Ended =>
       /\ ~queries[reader.id].alive
       /\ stream.live_id # None => \E k \in kills : k.id = reader.id /\ k.answer # "none"
       /\ resub.id # None /\ ~resub.cancelled => ~StillWanted(resub.old)
  /\ reader.parked /\ ~reader.open => reader.queue # <<>>

Wakes ==
  /\ reader.registered /\ queries[reader.id].alive => reader.watching /\ queries[reader.id].client = reader.client
  /\ reader.registered /\ stream.live_id # None /\ stream.stopping => stop # "off"
  /\ reader.registered /\ stream.live_id # None =>
       \/ queries[reader.id].alive
       \/ reader.watching /\ Down(reader.client)
       \/ resub.pc # "off" \/ stop # "off"
       \/ \E k \in kills : k.id = reader.id

Same ==
  /\ \A c \in DOMAIN clients :
       clients[c].net # "down" /\ clients[c].stamp.kept /\ ~(auth.pc = "signed" /\ auth.client = c)
         => clients[c].runs = clients[c].stamp.as
  /\ auth.pc = "signed" => Down(auth.client) \/ clients[auth.client].runs = auth.to
  /\ resub.pc = "selecting" /\ ~resub.cancelled =>
       /\ stream.identity.kept
       /\ resub.id = None /\ ~resub.raced =>
            auth.pc = "off" /\ clients[resub.client].stamp = stream.identity
       /\ resub.id # None =>
            (queries[resub.id].alive /\ ~queries[resub.id].raced => queries[resub.id].runs = stream.identity.as)
  /\ start.pc = "selecting" =>
       /\ start.id = None => clients[start.client].stamp = stream.identity
       /\ start.id # None =>
            (queries[start.id].alive /\ stream.identity.kept => queries[start.id].runs = stream.identity.as)
  /\ SameIdentity


LiveInv == TypeInv /\ Known /\ Roles /\ Asked(resub) /\ Asked(start) /\ Buffer /\ Wakes /\ Same

TypesOK ==
  /\ Len(clients) \in Nat /\ DOMAIN clients = 1 .. Len(clients) /\ \A c \in DOMAIN clients : clients[c] \in ClientType
  /\ Len(queries) \in Nat /\ DOMAIN queries = 1 .. Len(queries) /\ \A q \in DOMAIN queries : queries[q] \in QueryType
  /\ manager.cached \in Nat /\ manager.replay \in Identities /\ manager.lost \in BOOLEAN
  /\ stream.live_id \in Nat /\ stream.stopping \in BOOLEAN /\ stream.starts \in Nat /\ stream.identity \in IdentityType
  /\ reader.open \in BOOLEAN /\ reader.id \in Nat /\ reader.client \in Nat /\ reader.registered \in BOOLEAN
  /\ reader.watching \in BOOLEAN /\ reader.parked \in BOOLEAN /\ reader.pushed \in Nat /\ reader.got \in Int
  /\ reader.queue \in Seq(Int) /\ Len(reader.queue) \in Nat /\ DOMAIN reader.queue = 1 .. Len(reader.queue)
  /\ \A i \in DOMAIN reader.queue : reader.queue[i] \in Int
  /\ resub.id \in Nat /\ resub.old \in Nat /\ resub.client \in Nat /\ resub.cancelled \in BOOLEAN /\ resub.raced \in BOOLEAN
  /\ start.id \in Nat /\ start.client \in Nat /\ start.raced \in BOOLEAN
  /\ auth.client \in Nat
  /\ \A k \in kills : k \in KillType
  /\ \A o \in orphans : o \in OrphanType

-----------------------------------------------------------------------------
(***************************************************************************)
(* Facts about the operators of the model.                                 *)
(***************************************************************************)
LEMMA Types == ASSUME TypeInv PROVE TypesOK
<1>1. clients \in Seq(ClientType) /\ queries \in Seq(QueryType)
  BY DEF TypeInv
<1>2. /\ Len(clients) \in Nat /\ DOMAIN clients = 1 .. Len(clients) /\ \A c \in DOMAIN clients : clients[c] \in ClientType
      /\ Len(queries) \in Nat /\ DOMAIN queries = 1 .. Len(queries) /\ \A q \in DOMAIN queries : queries[q] \in QueryType
  BY <1>1
<1>3. /\ manager.cached \in Nat /\ manager.replay \in Identities /\ manager.lost \in BOOLEAN
      /\ stream.live_id \in Nat /\ stream.stopping \in BOOLEAN /\ stream.starts \in Nat /\ stream.identity \in IdentityType
  BY DEF TypeInv, ManagerType, StreamType
<1>4. /\ reader.open \in BOOLEAN /\ reader.id \in Nat /\ reader.client \in Nat /\ reader.registered \in BOOLEAN
      /\ reader.watching \in BOOLEAN /\ reader.parked \in BOOLEAN /\ reader.pushed \in Nat /\ reader.got \in Int
      /\ reader.queue \in Seq(Int)
  BY DEF TypeInv, ReaderType
<1>5. /\ Len(reader.queue) \in Nat /\ DOMAIN reader.queue = 1 .. Len(reader.queue)
      /\ \A i \in DOMAIN reader.queue : reader.queue[i] \in Int
  BY <1>4
<1>6. /\ resub.id \in Nat /\ resub.old \in Nat /\ resub.client \in Nat /\ resub.cancelled \in BOOLEAN /\ resub.raced \in BOOLEAN
      /\ start.id \in Nat /\ start.client \in Nat /\ start.raced \in BOOLEAN
      /\ auth.client \in Nat
  BY DEF TypeInv, TaskType, AuthType
<1>7. /\ \A k \in kills : k \in KillType
      /\ \A o \in orphans : o \in OrphanType
  BY DEF TypeInv
<1> QED
  BY <1>2, <1>3, <1>4, <1>5, <1>6, <1>7 DEF TypesOK

LEMMA IdleType == Idle \in TaskType /\ Idle.pc = "off" /\ Idle.id = None /\ Idle.old = None /\ ~Idle.cancelled /\ ~Idle.raced
<1>1. 0 \in Nat /\ Configured \in Identities
  BY DEF Identities
<1> QED
  BY <1>1 DEF Idle, TaskType, None

LEMMA Queued ==
  ASSUME NEW q \in Seq(Int), NEW x \in Int
  PROVE  /\ Append(q, x) \in Seq(Int) /\ Len(Append(q, x)) = Len(q) + 1
         /\ DOMAIN Append(q, x) = 1 .. Len(q) + 1 /\ DOMAIN q = 1 .. Len(q) /\ Len(q) \in Nat
         /\ \A i \in DOMAIN q : Append(q, x)[i] = q[i]
         /\ Append(q, x)[Len(q) + 1] = x
BY AppendProperties

LEMMA ClientChanged ==
  ASSUME clients \in Seq(ClientType), NEW c \in DOMAIN clients, NEW name \in Identities,
         clients' = [clients EXCEPT ![c].runs = name]
  PROVE  /\ clients' \in Seq(ClientType) /\ Len(clients') = Len(clients) /\ DOMAIN clients' = DOMAIN clients
         /\ \A d \in DOMAIN clients : clients'[d].net = clients[d].net /\ clients'[d].stamp = clients[d].stamp
         /\ \A d \in DOMAIN clients : d # c => clients'[d] = clients[d]
         /\ clients'[c].runs = name
<1>1. DOMAIN clients = 1 .. Len(clients) /\ Len(clients) \in Nat
  OBVIOUS
<1>2. \A d \in DOMAIN clients : clients[d] \in ClientType
  OBVIOUS
<1>3. /\ DOMAIN clients' = DOMAIN clients
      /\ \A d \in DOMAIN clients : d # c => clients'[d] = clients[d]
      /\ clients'[c] = [clients[c] EXCEPT !.runs = name]
  OBVIOUS
<1>4. clients'[c] \in ClientType /\ clients'[c].net = clients[c].net /\ clients'[c].stamp = clients[c].stamp
      /\ clients'[c].runs = name
  BY <1>2, <1>3 DEF ClientType
<1>5. \A d \in DOMAIN clients : clients'[d] \in ClientType
  BY <1>2, <1>3, <1>4
<1>6. clients' = [d \in 1 .. Len(clients) |-> clients'[d]]
  BY <1>1
<1> QED
  BY <1>1, <1>3, <1>4, <1>5, <1>6

LEMMA ReleasedIs ==
  ASSUME NEW r \in ReaderType, NEW id \in Nat
  PROVE  /\ Released(r, id) \in ReaderType
         /\ r.registered /\ r.id = id =>
              /\ ~Released(r, id).registered /\ Released(r, id).queue = Append(r.queue, End)
              /\ Released(r, id).open = r.open /\ Released(r, id).id = r.id /\ Released(r, id).client = r.client
              /\ Released(r, id).watching = r.watching /\ Released(r, id).parked = r.parked
              /\ Released(r, id).pushed = r.pushed /\ Released(r, id).got = r.got
         /\ ~(r.registered /\ r.id = id) => Released(r, id) = r
<1>1. End \in Int /\ r.queue \in Seq(Int)
  BY DEF End, ReaderType
<1>2. Append(r.queue, End) \in Seq(Int)
  BY <1>1
<1>3. \A s \in Seq(Int) : [r EXCEPT !.registered = FALSE, !.queue = s] \in ReaderType
  BY DEF ReaderType
<1>4. CASE r.registered /\ r.id = id
  <2>1. Released(r, id) = [r EXCEPT !.registered = FALSE, !.queue = Append(r.queue, End)]
    BY <1>4 DEF Released
  <2>2. Released(r, id) \in ReaderType
    BY <1>2, <1>3, <2>1
  <2>3. /\ ~Released(r, id).registered /\ Released(r, id).queue = Append(r.queue, End)
        /\ Released(r, id).open = r.open /\ Released(r, id).id = r.id /\ Released(r, id).client = r.client
        /\ Released(r, id).watching = r.watching /\ Released(r, id).parked = r.parked
        /\ Released(r, id).pushed = r.pushed /\ Released(r, id).got = r.got
    BY <2>1 DEF ReaderType
  <2> QED
    BY <1>4, <2>2, <2>3
<1>5. CASE ~(r.registered /\ r.id = id)
  BY <1>5 DEF Released
<1> QED
  BY <1>4, <1>5

LEMMA NoReaderIs ==
  /\ NoReader \in ReaderType
  /\ NoReader.open = FALSE /\ NoReader.registered = FALSE /\ NoReader.watching = FALSE /\ NoReader.parked = FALSE
  /\ NoReader.id = None /\ NoReader.queue = <<>> /\ NoReader.pushed = 0 /\ NoReader.got = 0
<1>1. NoReader \in ReaderType
  BY DEF NoReader, ReaderType, None
<1>2. /\ NoReader.open = FALSE /\ NoReader.registered = FALSE /\ NoReader.watching = FALSE /\ NoReader.parked = FALSE
      /\ NoReader.id = None /\ NoReader.queue = <<>> /\ NoReader.pushed = 0 /\ NoReader.got = 0
  BY DEF NoReader
<1> QED
  BY <1>1, <1>2

LEMMA DetachedIs ==
  ASSUME NEW r \in ReaderType
  PROVE  /\ Detached(r) \in ReaderType
         /\ ~Detached(r).open /\ ~Detached(r).registered /\ ~Detached(r).watching /\ Detached(r).id = None
         /\ Detached(r).parked = r.parked
         /\ Detached(r).queue = IF r.parked THEN r.queue ELSE <<>>
<1> DEFINE q == IF r.parked THEN r.queue ELSE <<>>
<1>1. q \in Seq(Int) /\ r.parked \in BOOLEAN
  BY DEF ReaderType
<1>2. Detached(r) = [NoReader EXCEPT !.parked = r.parked, !.queue = q]
  BY DEF Detached
<1> HIDE DEF q
<1>3. NoReader \in ReaderType
  BY NoReaderIs
<1>4. NoReader.open = FALSE /\ NoReader.registered = FALSE /\ NoReader.watching = FALSE /\ NoReader.id = None
  BY NoReaderIs
<1>5. /\ Detached(r) \in ReaderType /\ Detached(r).parked = r.parked /\ Detached(r).queue = q
      /\ ~Detached(r).open /\ ~Detached(r).registered /\ ~Detached(r).watching /\ Detached(r).id = None
  BY <1>1, <1>2, <1>3, <1>4 DEF ReaderType
<1> QED
  BY <1>5 DEF q

LEMMA ReboundIs ==
  ASSUME NEW r \in ReaderType, NEW c \in Nat, NEW id \in Nat
  PROVE  /\ Rebound(r, c, id) \in ReaderType
         /\ Rebound(r, c, id).registered /\ Rebound(r, c, id).watching
         /\ Rebound(r, c, id).client = c /\ Rebound(r, c, id).id = id
         /\ Rebound(r, c, id).open = r.open /\ Rebound(r, c, id).parked = r.parked
         /\ Rebound(r, c, id).queue = r.queue /\ Rebound(r, c, id).pushed = r.pushed
         /\ Rebound(r, c, id).got = r.got
BY DEF Rebound, ReaderType

(* The end, or the loss, is put behind what was pushed.                    *)
LEMMA EndAppended ==
  ASSUME LiveInv, TypesOK, NEW x \in {End, Loss}, reader'.queue = Append(reader.queue, x),
         UNCHANGED <<reader.open, reader.pushed, reader.got>>
  PROVE  /\ InOrder' /\ reader'.queue # <<>>
         /\ reader.open => /\ Ended' /\ reader'.got <= reader'.pushed
                           /\ reader'.pushed - reader'.got <= Len(reader'.queue)
<1> DEFINE q == reader.queue
           n == Len(q)
           m == reader.pushed - reader.got
<1>1. /\ q \in Seq(Int) /\ x \in Int /\ n \in Nat /\ reader.pushed \in Int /\ reader.got \in Int /\ m \in Int
  BY DEF TypesOK, End, Loss
<1>2. /\ Len(reader'.queue) = n + 1 /\ DOMAIN reader'.queue = 1 .. n + 1
      /\ \A i \in 1 .. n : reader'.queue[i] = q[i]
      /\ reader'.queue[n + 1] = x
  BY <1>1, Queued
<1>3. reader'.pushed - reader'.got = m
  OBVIOUS
<1>4. reader.open => m <= n /\ reader.got <= reader.pushed /\ InOrder
  BY DEF LiveInv, Buffer
<1>5. DOMAIN q = 1 .. n
  BY <1>1
<1> HIDE DEF q, n, m
<1>6. reader.open => \A i \in 1 .. n : IF i <= m THEN q[i] = reader.got + i ELSE q[i] \in {End, Loss}
  BY <1>4, <1>5 DEF InOrder, q, n, m
<1>7. reader.open => \A i \in 1 .. n + 1 : IF i <= m THEN reader'.queue[i] = reader.got + i
                                                    ELSE reader'.queue[i] \in {End, Loss}
  <2> SUFFICES ASSUME reader.open, NEW i \in 1 .. n + 1
               PROVE  IF i <= m THEN reader'.queue[i] = reader.got + i
                                ELSE reader'.queue[i] \in {End, Loss}
    OBVIOUS
  <2>1. CASE i \in 1 .. n
    BY <1>2, <1>6, <2>1
  <2>2. CASE i = n + 1
    <3>1. ~(i <= m)
      BY <1>1, <1>4, <2>2
    <3>2. reader'.queue[i] = x
      BY <1>2, <2>2
    <3> QED
      BY <3>1, <3>2
  <2>3. i \in 1 .. n \/ i = n + 1
    <3>1. n \in Nat
      BY <1>1
    <3> QED
      BY <3>1
  <2> QED
    BY <2>1, <2>2, <2>3
<1>8. InOrder'
  BY <1>2, <1>3, <1>7 DEF InOrder
<1>9. reader'.queue # <<>>
  <2>1. Len(reader'.queue) # 0 /\ Len(<<>>) = 0
    BY <1>1, <1>2
  <2> QED
    BY <2>1
<1> QED
  BY <1>1, <1>2, <1>3, <1>4, <1>8, <1>9 DEF Ended

LEMMA Stamped ==
  ASSUME clients \in Seq(ClientType), NEW c \in DOMAIN clients, NEW id \in IdentityType,
         clients' = [clients EXCEPT ![c].stamp = id]
  PROVE  /\ clients' \in Seq(ClientType) /\ Len(clients') = Len(clients) /\ DOMAIN clients' = DOMAIN clients
         /\ \A d \in DOMAIN clients : clients'[d].net = clients[d].net /\ clients'[d].runs = clients[d].runs
         /\ \A d \in DOMAIN clients : d # c => clients'[d] = clients[d]
         /\ clients'[c].stamp = id
<1>1. DOMAIN clients = 1 .. Len(clients) /\ Len(clients) \in Nat
  OBVIOUS
<1>2. \A d \in DOMAIN clients : clients[d] \in ClientType
  OBVIOUS
<1>3. /\ DOMAIN clients' = DOMAIN clients
      /\ \A d \in DOMAIN clients : d # c => clients'[d] = clients[d]
      /\ clients'[c] = [clients[c] EXCEPT !.stamp = id]
  OBVIOUS
<1>4. clients'[c] \in ClientType /\ clients'[c].net = clients[c].net /\ clients'[c].runs = clients[c].runs
      /\ clients'[c].stamp = id
  BY <1>2, <1>3 DEF ClientType
<1>5. \A d \in DOMAIN clients : clients'[d] \in ClientType
  BY <1>2, <1>3, <1>4
<1>6. clients' = [d \in 1 .. Len(clients) |-> clients'[d]]
  BY <1>1
<1> QED
  BY <1>1, <1>3, <1>4, <1>5, <1>6

LEMMA CachedKnown == ASSUME TypesOK, Known, manager.cached # None PROVE manager.cached \in DOMAIN clients
BY DEF TypesOK, Known, None

LEMMA NoneKnown == ASSUME TypesOK PROVE None <= Len(queries) /\ None <= Len(clients)
BY DEF TypesOK, None

LEMMA KillIs ==
  ASSUME TypesOK, NEW by \in Callers, NEW id \in Nat, NEW k, k = [by |-> by, id |-> id, client |-> manager.cached, answer |-> "none"]
  PROVE  k \in KillType /\ k.by = by /\ k.id = id /\ k.client = manager.cached /\ k.answer = "none"
<1>1. manager.cached \in Nat
  BY DEF TypesOK
<1> QED
  BY <1>1 DEF KillType

LEMMA KillSent ==
  ASSUME TypesOK, NEW by \in Callers, NEW id \in Nat, Kill(by, id)
  PROVE  /\ kills \subseteq kills'
         /\ \A k \in kills' : k \in kills \/ /\ k \in KillType /\ k.by = by /\ k.id = id /\ k.answer = "none"
                                             /\ k.client = manager.cached /\ manager.cached # None /\ Served
         /\ Served => \E k \in kills' : k.by = by /\ k.id = id /\ k.client = manager.cached /\ k.answer = "none"
         /\ ~Served => kills' = kills
<1> DEFINE new == [by |-> by, id |-> id, client |-> manager.cached, answer |-> "none"]
<1>1. kills' = IF Served THEN kills \cup {new} ELSE kills
  BY DEF Kill
<1>2. new \in KillType /\ new.by = by /\ new.id = id /\ new.client = manager.cached /\ new.answer = "none"
  BY KillIs
<1>3. Served => manager.cached # None
  BY DEF Served
<1> HIDE DEF new
<1> QED
  BY <1>1, <1>2, <1>3

LEMMA GoneIs == Gone \in QueryType /\ ~Gone.alive /\ Gone.client = None
<1>1. 0 \in Nat /\ Configured \in Identities
  BY DEF Identities
<1> QED
  BY <1>1 DEF Gone, QueryType, None

LEMMA NetChanged ==
  ASSUME clients \in Seq(ClientType), NEW c \in DOMAIN clients,
         clients' = [clients EXCEPT ![c].net = IF @ = "up" THEN "closing" ELSE @]
  PROVE  /\ clients' \in Seq(ClientType) /\ Len(clients') = Len(clients) /\ DOMAIN clients' = DOMAIN clients
         /\ \A d \in DOMAIN clients : clients'[d].stamp = clients[d].stamp /\ clients'[d].runs = clients[d].runs
         /\ \A d \in DOMAIN clients : d # c => clients'[d] = clients[d]
         /\ clients'[c].net = IF clients[c].net = "up" THEN "closing" ELSE clients[c].net
<1> DEFINE net == IF clients[c].net = "up" THEN "closing" ELSE clients[c].net
<1>1. DOMAIN clients = 1 .. Len(clients) /\ Len(clients) \in Nat
  OBVIOUS
<1>2. \A d \in DOMAIN clients : clients[d] \in ClientType
  OBVIOUS
<1>3. /\ DOMAIN clients' = DOMAIN clients
      /\ \A d \in DOMAIN clients : d # c => clients'[d] = clients[d]
      /\ clients'[c] = [clients[c] EXCEPT !.net = net]
  OBVIOUS
<1>4. net \in {"up", "closing", "down"}
  BY <1>2 DEF ClientType
<1> HIDE DEF net
<1>5. /\ clients'[c] \in ClientType /\ clients'[c].runs = clients[c].runs /\ clients'[c].stamp = clients[c].stamp
      /\ clients'[c].net = net
  BY <1>2, <1>3, <1>4 DEF ClientType
<1>6. \A d \in DOMAIN clients : clients'[d] \in ClientType
  BY <1>2, <1>3, <1>5
<1>7. clients' = [d \in 1 .. Len(clients) |-> clients'[d]]
  BY <1>1
<1> QED
  BY <1>1, <1>3, <1>5, <1>6, <1>7 DEF net

LEMMA ClientDropped ==
  ASSUME clients \in Seq(ClientType), NEW c \in DOMAIN clients,
         clients' = [clients EXCEPT ![c].net = "down", ![c].runs = Configured]
  PROVE  /\ clients' \in Seq(ClientType) /\ Len(clients') = Len(clients) /\ DOMAIN clients' = DOMAIN clients
         /\ \A d \in DOMAIN clients : d # c => clients'[d] = clients[d]
         /\ clients'[c].net = "down" /\ clients'[c].stamp = clients[c].stamp
<1>1. DOMAIN clients = 1 .. Len(clients) /\ Len(clients) \in Nat
  OBVIOUS
<1>2. \A d \in DOMAIN clients : clients[d] \in ClientType
  OBVIOUS
<1>3. /\ DOMAIN clients' = DOMAIN clients
      /\ \A d \in DOMAIN clients : d # c => clients'[d] = clients[d]
      /\ clients'[c] = [clients[c] EXCEPT !.net = "down", !.runs = Configured]
  OBVIOUS
<1>4. Configured \in Identities
  BY DEF Identities
<1>5. clients'[c] \in ClientType /\ clients'[c].stamp = clients[c].stamp /\ clients'[c].net = "down"
  BY <1>2, <1>3, <1>4 DEF ClientType
<1>6. \A d \in DOMAIN clients : clients'[d] \in ClientType
  BY <1>2, <1>3, <1>5
<1>7. clients' = [d \in 1 .. Len(clients) |-> clients'[d]]
  BY <1>1
<1>8. clients' \in Seq(ClientType)
  <2>1. [d \in 1 .. Len(clients) |-> clients'[d]] \in Seq(ClientType)
    BY <1>1, <1>6
  <2> QED
    BY <1>7, <2>1
<1>9. Len(clients') = Len(clients)
  BY <1>1, <1>3, <1>8
<1> QED
  BY <1>3, <1>5, <1>8, <1>9

NewReader(c, id) == Rebound([NoReader EXCEPT !.open = TRUE], c, id)

LEMMA NewReaderIs ==
  ASSUME NEW c \in Nat, NEW id \in Nat
  PROVE  /\ NewReader(c, id) \in ReaderType
         /\ NewReader(c, id).open /\ NewReader(c, id).registered /\ NewReader(c, id).watching
         /\ ~NewReader(c, id).parked /\ NewReader(c, id).client = c /\ NewReader(c, id).id = id
         /\ NewReader(c, id).queue = <<>> /\ NewReader(c, id).pushed = 0 /\ NewReader(c, id).got = 0
<1> DEFINE new == [NoReader EXCEPT !.open = TRUE]
<1>1. /\ new \in ReaderType /\ new.open = TRUE /\ new.parked = FALSE
      /\ new.queue = <<>> /\ new.pushed = 0 /\ new.got = 0
  BY NoReaderIs DEF ReaderType
<1> HIDE DEF new
<1>2. NewReader(c, id) = Rebound(new, c, id)
  BY DEF NewReader, new
<1>3. PICK r \in ReaderType : r = new
  BY <1>1
<1>4. /\ Rebound(r, c, id) \in ReaderType /\ Rebound(r, c, id).open = r.open /\ Rebound(r, c, id).registered
      /\ Rebound(r, c, id).watching /\ Rebound(r, c, id).parked = r.parked
      /\ Rebound(r, c, id).client = c /\ Rebound(r, c, id).id = id
      /\ Rebound(r, c, id).queue = r.queue /\ Rebound(r, c, id).pushed = r.pushed /\ Rebound(r, c, id).got = r.got
  BY ReboundIs
<1>5. NewReader(c, id) = Rebound(r, c, id)
  BY <1>2, <1>3
<1> QED
  BY <1>1, <1>3, <1>4, <1>5

LEMMA Dequeued ==
  ASSUME NEW q \in Seq(Int), q # <<>>
  PROVE  /\ Tail(q) \in Seq(Int) /\ Head(q) \in Int /\ Len(q) \in Nat /\ Len(q) >= 1
         /\ Len(Tail(q)) = Len(q) - 1 /\ DOMAIN Tail(q) = 1 .. Len(q) - 1 /\ DOMAIN q = 1 .. Len(q)
         /\ Head(q) = q[1]
         /\ \A i \in 1 .. Len(q) - 1 : Tail(q)[i] = q[i + 1]
<1>1. Len(q) \in Nat /\ Len(q) >= 1
  BY EmptySeq
<1>2. /\ Tail(q) \in Seq(Int) /\ Head(q) \in Int /\ Len(Tail(q)) = Len(q) - 1
      /\ \A i \in 1 .. Len(Tail(q)) : Tail(q)[i] = q[i + 1]
  BY HeadTailProperties
<1>3. DOMAIN Tail(q) = 1 .. Len(Tail(q)) /\ DOMAIN q = 1 .. Len(q) /\ Head(q) = q[1]
  BY <1>2
<1> QED
  BY <1>1, <1>2, <1>3

LEMMA NoneIsNoQuery == ASSUME TypesOK PROVE None \notin DOMAIN queries
BY DEF TypesOK, None

LEMMA IdsKnown ==
  ASSUME LiveInv, TypesOK
  PROVE  /\ resub.id # None => resub.id \in DOMAIN queries
         /\ resub.old # None => resub.old \in DOMAIN queries
         /\ start.id # None => start.id \in DOMAIN queries
         /\ reader.id # None => reader.id \in DOMAIN queries
         /\ stream.live_id # None => stream.live_id \in DOMAIN queries
<1>1. /\ resub.id \in Nat /\ resub.old \in Nat /\ start.id \in Nat /\ reader.id \in Nat /\ stream.live_id \in Nat
      /\ DOMAIN queries = 1 .. Len(queries) /\ Len(queries) \in Nat
  BY DEF TypesOK
<1>2. /\ resub.id <= Len(queries) /\ resub.old <= Len(queries) /\ start.id <= Len(queries)
      /\ reader.id <= Len(queries) /\ stream.live_id <= Len(queries)
  BY DEF LiveInv, Known
<1>3. \A id \in Nat : id <= Len(queries) /\ id # 0 => id \in 1 .. Len(queries)
  BY <1>1
<1> QED
  BY <1>1, <1>2, <1>3 DEF None

LEMMA Counting == ASSUME TypesOK PROVE stream.starts + 1 \in Nat /\ reader.pushed + 1 \in Nat
<1>1. stream.starts \in Nat /\ reader.pushed \in Nat
  BY DEF TypesOK
<1> QED
  BY <1>1

LEMMA StreamForgets ==
  ASSUME stream \in StreamType
  PROVE  /\ [stream EXCEPT !.live_id = None] \in StreamType
         /\ [stream EXCEPT !.live_id = None].live_id = None
         /\ [stream EXCEPT !.live_id = None].stopping = stream.stopping
         /\ [stream EXCEPT !.live_id = None].starts = stream.starts
         /\ [stream EXCEPT !.live_id = None].identity = stream.identity
<1> None \in Nat
  BY DEF None
<1> QED
  BY DEF StreamType

-----------------------------------------------------------------------------
(***************************************************************************)
(* A client is acquired: the connection the program has, or a fresh one.   *)
(***************************************************************************)
Connects ==
  /\ clients' \in Seq(ClientType) /\ manager' \in ManagerType /\ manager'.cached <= Len(clients')
  /\ DOMAIN clients \subseteq DOMAIN clients' /\ Len(clients) <= Len(clients')
  /\ \A c \in DOMAIN clients : clients'[c] = clients[c]
  /\ \A c \in DOMAIN clients' \ DOMAIN clients :
       clients'[c].net = "up" /\ clients'[c].stamp.kept /\ clients'[c].runs = clients'[c].stamp.as
  /\ \A c \in DOMAIN clients' : clients'[c].net = "up" => c = manager'.cached

LEMMA FreshClient ==
  ASSUME clients \in Seq(ClientType), NEW id \in Identities,
         clients' = Append(clients, [net |-> "up", runs |-> id, stamp |-> [as |-> id, kept |-> TRUE]])
  PROVE  /\ clients' \in Seq(ClientType) /\ Len(clients) \in Nat /\ Len(clients') = Len(clients) + 1
         /\ DOMAIN clients = 1 .. Len(clients) /\ DOMAIN clients' = 1 .. Len(clients) + 1
         /\ \A c \in DOMAIN clients : clients'[c] = clients[c]
         /\ clients'[Len(clients) + 1].net = "up" /\ clients'[Len(clients) + 1].stamp.kept
         /\ clients'[Len(clients) + 1].runs = clients'[Len(clients) + 1].stamp.as
<1> DEFINE new == [net |-> "up", runs |-> id, stamp |-> [as |-> id, kept |-> TRUE]]
<1>1. new \in ClientType /\ new.net = "up" /\ new.stamp.kept /\ new.runs = new.stamp.as
  BY DEF ClientType, IdentityType
<1> HIDE DEF new
<1>2. /\ clients' \in Seq(ClientType) /\ Len(clients') = Len(clients) + 1
      /\ \A c \in 1 .. Len(clients) : clients'[c] = clients[c]
      /\ clients'[Len(clients) + 1] = new
  BY <1>1, AppendProperties DEF new
<1>3. DOMAIN clients' = 1 .. Len(clients) + 1 /\ DOMAIN clients = 1 .. Len(clients) /\ Len(clients) \in Nat
  BY <1>2
<1> QED
  BY <1>1, <1>2, <1>3

LEMMA Unserved == ASSUME LiveInv, TypesOK, ~Served PROVE \A c \in DOMAIN clients : clients[c].net # "up"
<1>1. None \notin DOMAIN clients
  BY DEF TypesOK, None
<1>2. \A c \in DOMAIN clients : clients[c].net = "up" => c = manager.cached
  BY DEF LiveInv, Roles
<1> QED
  BY <1>1, <1>2 DEF Served, Dead

(* The client may change, and then to a fresh one that is the cached one.  *)
LEMMA Connecting ==
  ASSUME LiveInv, NEW as \in Identities, NEW wanted, NEW restoring,
         NEW a \in Acquisitions(as, wanted, restoring), clients' = a.clients, manager' = a.manager
  PROVE  /\ Connects
         /\ a.error = "none" => a.client = manager'.cached /\ a.client \in DOMAIN clients' /\ clients'[a.client].net = "up"
<1> DEFINE Is(cs, m, c, error) == [clients |-> cs, manager |-> m, client |-> c, error |-> error]
           Fresh(id) == Append(clients, [net |-> "up", runs |-> id, stamp |-> [as |-> id, kept |-> TRUE]])
           n == Len(clients) + 1
           room == n <= MaxClients /\ Settled
           lost == [manager EXCEPT !.lost = Lost, !.cached = IF Served THEN @ ELSE None]
<1>1. /\ clients \in Seq(ClientType) /\ manager \in ManagerType /\ Len(clients) \in Nat /\ DOMAIN clients = 1 .. Len(clients)
      /\ manager.cached <= Len(clients) /\ manager.cached \in Nat
  BY Types DEF LiveInv, TypeInv, Known, TypesOK
<1>2. Lost \in BOOLEAN
  BY <1>1 DEF Lost, ManagerType
<1>3a. lost \in ManagerType /\ lost.cached = IF Served THEN manager.cached ELSE None
  BY <1>1, <1>2 DEF ManagerType, None
<1>3. /\ \A i \in Nat : [lost EXCEPT !.cached = i] \in ManagerType /\ [lost EXCEPT !.cached = i].cached = i
      /\ \A i \in Nat, id \in Identities : [lost EXCEPT !.cached = i, !.replay = id] \in ManagerType
                                           /\ [lost EXCEPT !.cached = i, !.replay = id].cached = i
  BY <1>1, <1>2 DEF ManagerType, None
<1> HIDE DEF lost
<1>4. ~Served => \A c \in DOMAIN clients : clients[c].net # "up"
  BY Types, Unserved DEF LiveInv
<1>5. ASSUME a.clients = clients, a.manager = lost PROVE Connects
  <2>1. \A c \in DOMAIN clients : clients[c].net = "up" => c = lost.cached
    BY <1>3a, <1>4 DEF LiveInv, Roles
  <2>2. lost.cached <= Len(clients)
    BY <1>1, <1>3a DEF None
  <2>3. clients' = clients /\ manager' = lost
    BY <1>5
  <2> QED
    BY <1>1, <1>3a, <2>1, <2>2, <2>3 DEF Connects
<1>6. CASE Served /\ a = Is(clients, manager, manager.cached, "none")
  <2>1. manager.cached \in DOMAIN clients /\ clients[manager.cached].net = "up"
    BY <1>1, <1>6 DEF Served, Dead, None
  <2>2. a.clients = clients /\ a.manager = manager /\ a.client = manager.cached
    BY <1>6
  <2> QED
    BY <1>1, <2>1, <2>2 DEF Connects, LiveInv, Roles
<1>7. ASSUME NEW id \in Identities, a.clients = Fresh(id), a.manager \in ManagerType, a.manager.cached = n, ~Served
      PROVE  Connects /\ n = manager'.cached /\ n \in DOMAIN clients' /\ clients'[n].net = "up"
  <2>1. /\ clients' \in Seq(ClientType) /\ Len(clients) \in Nat /\ Len(clients') = Len(clients) + 1
        /\ DOMAIN clients = 1 .. Len(clients) /\ DOMAIN clients' = 1 .. Len(clients) + 1
        /\ \A c \in DOMAIN clients : clients'[c] = clients[c]
        /\ clients'[n].net = "up" /\ clients'[n].stamp.kept
        /\ clients'[n].runs = clients'[n].stamp.as
    BY <1>1, <1>7, FreshClient
  <2>2. \A c \in DOMAIN clients' : c \in DOMAIN clients \/ c = n
    BY <2>1
  <2>3. n \in DOMAIN clients' /\ DOMAIN clients \subseteq DOMAIN clients' /\ Len(clients) <= Len(clients') /\ n <= Len(clients')
    BY <2>1
  <2> QED
    BY <1>4, <1>7, <2>1, <2>2, <2>3 DEF Connects
<1>8. CASE ~Served /\ a = Is(Fresh(as), [lost EXCEPT !.cached = n], n, "none")
  <2>1. n \in Nat
    BY <1>1
  <2>2. a.clients = Fresh(as) /\ a.manager \in ManagerType /\ a.manager.cached = n /\ a.client = n
    BY <1>3, <1>8, <2>1
  <2> QED
    BY <1>7, <1>8, <2>2
<1>9. CASE ~Served /\ a = Is(Fresh(Configured), [lost EXCEPT !.cached = n, !.replay = Configured], None, "final")
  <2>1. n \in Nat /\ Configured \in Identities
    BY <1>1 DEF Identities
  <2>2. a.clients = Fresh(Configured) /\ a.manager \in ManagerType /\ a.manager.cached = n /\ a.error = "final"
    BY <1>3, <1>9, <2>1
  <2> QED
    BY <1>7, <1>9, <2>1, <2>2
<1>10. \/ a = Is(clients, lost, None, "final") \/ a = Is(clients, lost, None, "transient")
       \/ Served /\ a = Is(clients, manager, manager.cached, "none")
       \/ ~Served /\ a = Is(Fresh(as), [lost EXCEPT !.cached = n], n, "none")
       \/ ~Served /\ a = Is(Fresh(Configured), [lost EXCEPT !.cached = n, !.replay = Configured], None, "final")
  BY DEF Acquisitions, When, lost
<1>11. CASE a = Is(clients, lost, None, "final") \/ a = Is(clients, lost, None, "transient")
  <2>1. a.clients = clients /\ a.manager = lost /\ a.error # "none"
    BY <1>11
  <2> QED
    BY <1>5, <2>1
<1> QED
  BY <1>6, <1>8, <1>9, <1>10, <1>11

LEMMA SameClients ==
  ASSUME LiveInv, TypesOK, clients' = clients, manager' \in ManagerType, manager'.cached = manager.cached
  PROVE  Connects
BY DEF Connects, LiveInv, TypeInv, Known, Roles

-----------------------------------------------------------------------------
(***************************************************************************)
(* A step of the resubscription keeps the invariant.                       *)
(***************************************************************************)
LEMMA ConnectsKeeps ==
  ASSUME LiveInv, Connects, UNCHANGED <<queries, stream, reader, resub, start, stop, kills, orphans,
                                        auth, named>>
  PROVE  LiveInv'
<1>0. TypeInv /\ TypesOK
  BY Types DEF LiveInv
<1>1. /\ Connects
      /\ UNCHANGED <<queries, stream, reader, resub, start, stop, kills, orphans, auth, named>>
  OBVIOUS
<1>2. TypeInv'
  <2>9. clients' \in Seq(ClientType) /\ manager' \in ManagerType
    BY <1>1 DEF Connects
  <2> QED
    BY <1>0, <1>1, <2>9 DEF TypeInv
<1>3. Known'
  BY <1>0, <1>1, NoneKnown DEF LiveInv, Known, Down, Connects
<1>4. Roles'
  BY <1>0, <1>1, NoneKnown DEF LiveInv, Roles, Connects
<1>5. Asked(resub)'
  BY <1>0, <1>1, NoneKnown DEF LiveInv, Asked, Private, Down, Roles, Connects, Known
<1>6. Asked(start)'
  BY <1>0, <1>1, NoneKnown DEF LiveInv, Asked, Private, Down, Roles, Connects, Known
<1>7. Buffer'
  BY <1>0, <1>1, NoneKnown DEF LiveInv, Buffer, Ended, InOrder, StillWanted, Connects
<1>8. Wakes'
  BY <1>0, <1>1, NoneKnown DEF LiveInv, Wakes, Down, Connects, Known
<1>9. Same'
  <2>9. \A c \in DOMAIN clients' :
          clients'[c].net # "down" /\ clients'[c].stamp.kept /\ ~(auth.pc = "signed" /\ auth.client = c)
            => clients'[c].runs = clients'[c].stamp.as
    <3>1. \A c \in DOMAIN clients' : c \in DOMAIN clients \/ c \in DOMAIN clients' \ DOMAIN clients
      OBVIOUS
    <3> QED
      BY <1>1, <3>1 DEF Connects, LiveInv, Same
  <2>8. auth.pc = "signed" => Down(auth.client)' \/ clients'[auth.client].runs = auth.to
    <3>1. auth.pc = "signed" => auth.client \in DOMAIN clients
      BY DEF LiveInv, Known
    <3> QED
      BY <1>1, <3>1 DEF Connects, LiveInv, Same, Down
  <2> QED
    BY <1>0, <1>1, <2>8, <2>9, NoneKnown DEF LiveInv, Same, SameIdentity, Resubscribed, Known,
       Connects
<1> QED
  BY <1>2, <1>3, <1>4, <1>5, <1>6, <1>7, <1>8, <1>9 DEF LiveInv

LEMMA AbandonKeeps ==
  ASSUME LiveInv, Connects, resub.pc # "off", ~resub.cancelled, ~StillWanted(resub.old), resub' = Idle,
         UNCHANGED <<queries, stream, reader, start, stop, kills, orphans, auth, named>>
  PROVE  LiveInv'
<1>0. TypeInv /\ TypesOK
  BY Types DEF LiveInv
<1>1. /\ Connects
      /\ ~StillWanted(resub.old) /\ resub.pc # "off" /\ ~resub.cancelled
      /\ resub'.pc = "off" /\ resub'.id = None /\ resub'.old = None /\ ~resub'.cancelled /\ resub' = Idle
      /\ UNCHANGED <<queries, stream, reader, start, stop, kills, orphans, auth, named>>
  BY IdleType
<1>2. TypeInv'
  <2>9. clients' \in Seq(ClientType) /\ manager' \in ManagerType
    BY <1>1 DEF Connects
  <2> QED
    BY <1>0, <1>1, <2>9, IdleType DEF TypeInv
<1>3. Known'
  BY <1>0, <1>1, NoneKnown DEF LiveInv, Known, Down, Connects
<1>4. Roles'
  BY <1>0, <1>1, NoneKnown DEF LiveInv, Roles, Connects
<1>5. Asked(resub)'
  BY <1>0, <1>1, NoneKnown DEF LiveInv, Asked, Private, Down, Roles, Connects, Known
<1>6. Asked(start)'
  BY <1>0, <1>1, NoneKnown DEF LiveInv, Asked, Private, Down, Roles, Connects, Known
<1>7. Buffer'
  BY <1>0, <1>1, NoneKnown DEF LiveInv, Buffer, Ended, InOrder, StillWanted, Connects, Roles
<1>8. Wakes'
  BY <1>0, <1>1, NoneKnown DEF LiveInv, Wakes, Down, Connects, Known, Roles, StillWanted, Connects
<1>9. Same'
  <2>9. \A c \in DOMAIN clients' :
          clients'[c].net # "down" /\ clients'[c].stamp.kept /\ ~(auth.pc = "signed" /\ auth.client = c)
            => clients'[c].runs = clients'[c].stamp.as
    <3>1. \A c \in DOMAIN clients' : c \in DOMAIN clients \/ c \in DOMAIN clients' \ DOMAIN clients
      OBVIOUS
    <3> QED
      BY <1>1, <3>1 DEF Connects, LiveInv, Same
  <2>8. auth.pc = "signed" => Down(auth.client)' \/ clients'[auth.client].runs = auth.to
    <3>1. auth.pc = "signed" => auth.client \in DOMAIN clients
      BY DEF LiveInv, Known
    <3> QED
      BY <1>1, <3>1 DEF Connects, LiveInv, Same, Down
  <2> QED
    BY <1>0, <1>1, <2>8, <2>9, NoneKnown DEF LiveInv, Same, SameIdentity, Resubscribed, Known,
       Connects
<1> QED
  BY <1>2, <1>3, <1>4, <1>5, <1>6, <1>7, <1>8, <1>9 DEF LiveInv

LEMMA BackoffKeeps ==
  ASSUME LiveInv, Connects, resub.pc # "off", ~resub.cancelled,
         resub' = [resub EXCEPT !.pc = "backoff", !.client = None, !.id = None, !.raced = FALSE],
         UNCHANGED <<queries, stream, reader, start, stop, kills, orphans, auth, named>>
  PROVE  LiveInv'
<1>0. TypeInv /\ TypesOK
  BY Types DEF LiveInv
<1>1. /\ Connects
      /\ resub.pc # "off" /\ ~resub.cancelled
      /\ resub'.pc = "backoff" /\ resub'.id = None
      /\ UNCHANGED <<resub.old, resub.attempt, resub.as, resub.cancelled>>
      /\ UNCHANGED <<queries, stream, reader, start, stop, kills, orphans, auth, named>>
  BY <1>0 DEF TypeInv, TaskType
<1>2. TypeInv'
  <2>9. clients' \in Seq(ClientType) /\ manager' \in ManagerType
    BY <1>1 DEF Connects
  <2>1. resub' \in TaskType
    BY <1>0 DEF TypeInv, TaskType, None
  <2> QED
    BY <1>0, <1>1, <2>1, <2>9 DEF TypeInv
<1>3. Known'
  BY <1>0, <1>1, NoneKnown DEF LiveInv, Known, Down, Connects
<1>4. Roles'
  BY <1>0, <1>1, NoneKnown DEF LiveInv, Roles, Connects
<1>5. Asked(resub)'
  BY <1>0, <1>1, NoneKnown DEF LiveInv, Asked, Private, Down, Roles, Connects, Known
<1>6. Asked(start)'
  BY <1>0, <1>1, NoneKnown DEF LiveInv, Asked, Private, Down, Roles, Connects, Known
<1>7. Buffer'
  BY <1>0, <1>1, NoneKnown DEF LiveInv, Buffer, Ended, InOrder, StillWanted, Connects, Roles
<1>8. Wakes'
  BY <1>0, <1>1, NoneKnown DEF LiveInv, Wakes, Down, Connects, Known
<1>9. Same'
  <2>9. \A c \in DOMAIN clients' :
          clients'[c].net # "down" /\ clients'[c].stamp.kept /\ ~(auth.pc = "signed" /\ auth.client = c)
            => clients'[c].runs = clients'[c].stamp.as
    <3>1. \A c \in DOMAIN clients' : c \in DOMAIN clients \/ c \in DOMAIN clients' \ DOMAIN clients
      OBVIOUS
    <3> QED
      BY <1>1, <3>1 DEF Connects, LiveInv, Same
  <2>8. auth.pc = "signed" => Down(auth.client)' \/ clients'[auth.client].runs = auth.to
    <3>1. auth.pc = "signed" => auth.client \in DOMAIN clients
      BY DEF LiveInv, Known
    <3> QED
      BY <1>1, <3>1 DEF Connects, LiveInv, Same, Down
  <2> QED
    BY <1>0, <1>1, <2>8, <2>9, NoneKnown DEF LiveInv, Same, SameIdentity, Resubscribed, Known,
       Connects
<1> QED
  BY <1>2, <1>3, <1>4, <1>5, <1>6, <1>7, <1>8, <1>9 DEF LiveInv

LEMMA AcquiringKeeps ==
  ASSUME LiveInv, Connects, resub.pc \in {"begin", "backoff"}, ~resub.cancelled,
         resub' = [resub EXCEPT !.pc = "acquiring", !.attempt = Counted(@), !.as = manager.replay],
         UNCHANGED <<queries, stream, reader, start, stop, kills, orphans, auth, named>>
  PROVE  LiveInv'
<1>0. TypeInv /\ TypesOK
  BY Types DEF LiveInv
<1>1. /\ Connects
      /\ resub.pc \in {"begin", "backoff"} /\ ~resub.cancelled
      /\ resub'.pc = "acquiring"
      /\ UNCHANGED <<resub.old, resub.client, resub.id, resub.raced, resub.cancelled>>
      /\ UNCHANGED <<queries, stream, reader, start, stop, kills, orphans, auth, named>>
  BY <1>0 DEF TypeInv, TaskType
<1>2. TypeInv'
  <2>9. clients' \in Seq(ClientType) /\ manager' \in ManagerType
    BY <1>1 DEF Connects
  <2>7. resub \in TaskType
    BY DEF LiveInv, TypeInv
  <2>6. resub.attempt \in Nat
    BY <2>7 DEF TaskType
  <2>5. resub.attempt + 1 \in Nat
    BY <2>6
  <2>0. resub.attempt + 1 \in Nat /\ manager.replay \in Identities
    BY <1>0, <2>5 DEF TypesOK
  <2>1. resub' \in TaskType
    BY <1>0, <2>0 DEF TypeInv, TaskType, Counted
  <2> QED
    BY <1>0, <1>1, <2>1, <2>9 DEF TypeInv
<1>3. Known'
  BY <1>0, <1>1, NoneKnown DEF LiveInv, Known, Down, Connects
<1>4. Roles'
  BY <1>0, <1>1, NoneKnown DEF LiveInv, Roles, Connects, Asked
<1>5. Asked(resub)'
  BY <1>0, <1>1, NoneKnown DEF LiveInv, Asked, Private, Down, Roles, Connects, Known
<1>6. Asked(start)'
  BY <1>0, <1>1, NoneKnown DEF LiveInv, Asked, Private, Down, Roles, Connects, Known
<1>7. Buffer'
  BY <1>0, <1>1, NoneKnown DEF LiveInv, Buffer, Ended, InOrder, StillWanted, Connects, Roles
<1>8. Wakes'
  BY <1>0, <1>1, NoneKnown DEF LiveInv, Wakes, Down, Connects, Known
<1>9. Same'
  <2>9. \A c \in DOMAIN clients' :
          clients'[c].net # "down" /\ clients'[c].stamp.kept /\ ~(auth.pc = "signed" /\ auth.client = c)
            => clients'[c].runs = clients'[c].stamp.as
    <3>1. \A c \in DOMAIN clients' : c \in DOMAIN clients \/ c \in DOMAIN clients' \ DOMAIN clients
      OBVIOUS
    <3> QED
      BY <1>1, <3>1 DEF Connects, LiveInv, Same
  <2>8. auth.pc = "signed" => Down(auth.client)' \/ clients'[auth.client].runs = auth.to
    <3>1. auth.pc = "signed" => auth.client \in DOMAIN clients
      BY DEF LiveInv, Known
    <3> QED
      BY <1>1, <3>1 DEF Connects, LiveInv, Same, Down
  <2> QED
    BY <1>0, <1>1, <2>8, <2>9, NoneKnown DEF LiveInv, Same, SameIdentity, Resubscribed, Known,
       Connects
<1> QED
  BY <1>2, <1>3, <1>4, <1>5, <1>6, <1>7, <1>8, <1>9 DEF LiveInv

LEMMA SelectingKeeps ==
  ASSUME LiveInv, Connects, resub.pc = "acquiring", ~resub.cancelled, NEW c \in DOMAIN clients', clients'[c].net = "up",
         clients'[c].stamp = stream.identity, stream.identity.kept,
         resub' = [resub EXCEPT !.pc = "selecting", !.client = c, !.raced = auth.pc # "off"],
         UNCHANGED <<queries, stream, reader, start, stop, kills, orphans, auth, named>>
  PROVE  LiveInv'
<1>0. TypeInv /\ TypesOK
  BY Types DEF LiveInv
<1>1. /\ Connects
      /\ resub.pc = "acquiring" /\ ~resub.cancelled /\ resub.id = None
      /\ resub'.pc = "selecting" /\ resub'.client = c /\ resub'.id = None
      /\ resub'.raced = (auth.pc # "off") /\ c \in DOMAIN clients' /\ clients'[c].stamp = stream.identity /\ stream.identity.kept
      /\ UNCHANGED <<resub.old, resub.attempt, resub.as, resub.cancelled>>
      /\ UNCHANGED <<queries, stream, reader, start, stop, kills, orphans, auth, named>>
  <2>1. resub.id = None
    BY DEF LiveInv, Asked
  <2>2. /\ resub'.pc = "selecting" /\ resub'.client = c /\ resub'.id = resub.id
        /\ resub'.raced = (auth.pc # "off")
        /\ UNCHANGED <<resub.old, resub.attempt, resub.as, resub.cancelled>>
    BY <1>0 DEF TypeInv, TaskType
  <2> QED
    BY <2>1, <2>2
<1>2. TypeInv'
  <2>9. clients' \in Seq(ClientType) /\ manager' \in ManagerType
    BY <1>1 DEF Connects
  <2>1. c \in Nat
    BY <1>1 DEF Connects
  <2>2. resub' \in TaskType
    BY <1>0, <2>1 DEF TypeInv, TaskType
  <2> QED
    BY <1>0, <1>1, <2>2, <2>9 DEF TypeInv
<1>3. Known'
  BY <1>0, <1>1, NoneKnown DEF LiveInv, Known, Down, Connects
<1>4. Roles'
  BY <1>0, <1>1, NoneKnown DEF LiveInv, Roles, Connects
<1>5. Asked(resub)'
  BY <1>0, <1>1, NoneKnown DEF LiveInv, Asked, Private, Down, Roles, Connects, Known
<1>6. Asked(start)'
  BY <1>0, <1>1, NoneKnown DEF LiveInv, Asked, Private, Down, Roles, Connects, Known
<1>7. Buffer'
  BY <1>0, <1>1, NoneKnown DEF LiveInv, Buffer, Ended, InOrder, StillWanted, Connects, Roles
<1>8. Wakes'
  BY <1>0, <1>1, NoneKnown DEF LiveInv, Wakes, Down, Connects, Known
<1>9. Same'
  <2>9. \A d \in DOMAIN clients' :
          clients'[d].net # "down" /\ clients'[d].stamp.kept /\ ~(auth.pc = "signed" /\ auth.client = d)
            => clients'[d].runs = clients'[d].stamp.as
    <3>1. \A d \in DOMAIN clients' : d \in DOMAIN clients \/ d \in DOMAIN clients' \ DOMAIN clients
      OBVIOUS
    <3> QED
      BY <1>1, <3>1 DEF Connects, LiveInv, Same
  <2>8. auth.pc = "signed" => Down(auth.client)' \/ clients'[auth.client].runs = auth.to
    <3>1. auth.pc = "signed" => auth.client \in DOMAIN clients
      BY DEF LiveInv, Known
    <3> QED
      BY <1>1, <3>1 DEF Connects, LiveInv, Same, Down
  <2>1. /\ resub'.id = None /\ clients'[resub'.client].stamp = stream'.identity /\ stream'.identity.kept
        /\ ~resub'.raced => auth'.pc = "off"
    BY <1>1 DEF TypesOK
  <2>2. start'.pc # "selecting"
    BY <1>1 DEF LiveInv, Roles
  <2>3. SameIdentity'
    BY <1>0, <1>1 DEF LiveInv, Same, SameIdentity, Resubscribed
  <2> QED
    BY <1>1, <2>1, <2>2, <2>3, <2>8, <2>9 DEF Same
<1> QED
  BY <1>2, <1>3, <1>4, <1>5, <1>6, <1>7, <1>8, <1>9 DEF LiveInv

LEMMA GiveUpKeeps ==
  ASSUME LiveInv, Connects, resub.pc # "off", ~resub.cancelled, StillWanted(resub.old), GiveUp,
         UNCHANGED <<queries, start, stop, kills, orphans, auth, named>>
  PROVE  LiveInv'
<1>0. TypeInv /\ TypesOK
  BY Types DEF LiveInv
<1>1. /\ Connects
      /\ StillWanted(resub.old) /\ resub.pc # "off" /\ ~resub.cancelled
      /\ resub'.pc = "off" /\ resub'.id = None /\ resub'.old = None /\ ~resub'.cancelled /\ resub' = Idle
      /\ reader' = [reader EXCEPT !.queue = Append(reader.queue, Loss)] /\ reader'.queue = Append(reader.queue, Loss)
      /\ UNCHANGED <<reader.open, reader.id, reader.client, reader.registered, reader.watching,
                     reader.parked, reader.pushed, reader.got>>
      /\ stream'.live_id = None
      /\ UNCHANGED <<stream.stopping, stream.starts, stream.identity>>
      /\ UNCHANGED <<queries, start, stop, kills, orphans, auth, named>>
  <2>1. reader.open
    BY DEF StillWanted
  <2>2. reader' = [reader EXCEPT !.queue = Append(reader.queue, Loss)]
    BY <2>1 DEF GiveUp, Failed
  <2>3. reader'.queue = Append(reader.queue, Loss) /\ UNCHANGED <<reader.open, reader.id, reader.client, reader.registered, reader.watching, reader.parked, reader.pushed, reader.got>>
    BY <1>0, <2>2 DEF TypeInv, ReaderType
  <2>4. stream'.live_id = None /\ UNCHANGED <<stream.stopping, stream.starts, stream.identity>>
    BY <1>0, StreamForgets DEF TypeInv, GiveUp
  <2>5. resub' = Idle
    BY DEF GiveUp
  <2> QED
    BY <2>2, <2>3, <2>4, <2>5, IdleType
<1>2. TypeInv'
  <2>9. clients' \in Seq(ClientType) /\ manager' \in ManagerType
    BY <1>1 DEF Connects
  <2>1. stream' \in StreamType
    BY <1>0, StreamForgets DEF TypeInv, GiveUp
  <2>2. Append(reader.queue, Loss) \in Seq(Int)
    BY <1>0 DEF TypesOK, Loss
  <2>3. reader' \in ReaderType
    BY <1>0, <1>1, <2>2 DEF TypeInv, ReaderType
  <2> QED
    BY <1>0, <1>1, <2>1, <2>3, <2>9, IdleType DEF TypeInv
<1>3. Known'
  <2>1. /\ 0 <= Len(queries)
        /\ stream'.live_id = 0 /\ resub'.id = 0 /\ resub'.old = 0
    BY <1>0, <1>1, NoneKnown DEF None
  <2> QED
    BY <1>0, <1>1, <2>1 DEF LiveInv, Known, Down, Connects
<1>4. Roles'
  BY <1>0, <1>1, NoneKnown DEF LiveInv, Roles, Connects
<1>5. Asked(resub)'
  BY <1>0, <1>1, NoneKnown DEF LiveInv, Asked, Private, Down, Roles, Connects
<1>6. Asked(start)'
  <2>1. \A id \in Nat : id # None /\ Private(id) => Private(id)'
    BY <1>1 DEF Private
  <2>2. start.id \in Nat
    BY <1>0 DEF TypesOK
  <2> QED
    BY <1>1, <2>1, <2>2 DEF LiveInv, Asked, Down, Known, Connects
<1>7. Buffer'
  <2>1. InOrder' /\ reader'.queue # <<>> /\ (reader.open => /\ Ended' /\ reader'.got <= reader'.pushed
                                            /\ reader'.pushed - reader'.got <= Len(reader'.queue))
    BY <1>0, <1>1, EndAppended
  <2>2. reader.open /\ ~queries[reader.id].alive
    BY <1>1 DEF StillWanted, LiveInv, Roles
  <2> QED
    BY <1>1, <2>1, <2>2 DEF Buffer
<1>8. Wakes'
  BY <1>0, <1>1, NoneKnown DEF LiveInv, Wakes, Down, Connects, Known
<1>9. Same'
  <2>9. \A c \in DOMAIN clients' :
          clients'[c].net # "down" /\ clients'[c].stamp.kept /\ ~(auth.pc = "signed" /\ auth.client = c)
            => clients'[c].runs = clients'[c].stamp.as
    <3>1. \A c \in DOMAIN clients' : c \in DOMAIN clients \/ c \in DOMAIN clients' \ DOMAIN clients
      OBVIOUS
    <3> QED
      BY <1>1, <3>1 DEF Connects, LiveInv, Same
  <2>8. auth.pc = "signed" => Down(auth.client)' \/ clients'[auth.client].runs = auth.to
    <3>1. auth.pc = "signed" => auth.client \in DOMAIN clients
      BY DEF LiveInv, Known
    <3> QED
      BY <1>1, <3>1 DEF Connects, LiveInv, Same, Down
  <2>1. start.pc = "off" \/ start.pc # "selecting" \/ start.pc = "selecting"
    OBVIOUS
  <2>2. SameIdentity'
    BY <1>0, <1>1, NoneIsNoQuery DEF SameIdentity, Resubscribed
  <2> QED
    BY <1>0, <1>1, <2>2, <2>8, <2>9, NoneKnown DEF LiveInv, Same, Known, Connects
<1> QED
  BY <1>2, <1>3, <1>4, <1>5, <1>6, <1>7, <1>8, <1>9 DEF LiveInv

-----------------------------------------------------------------------------
(***************************************************************************)
(* A call that acquires a client keeps it.                                 *)
(***************************************************************************)
LEMMA StartFailsKeeps ==
  ASSUME LiveInv, Connects, start.pc = "acquiring", start' = Idle,
         UNCHANGED <<queries, stream, reader, resub, stop, kills, orphans, auth, named>>
  PROVE  LiveInv'
<1>0. TypeInv /\ TypesOK
  BY Types DEF LiveInv
<1>1. /\ Connects
      /\ start.pc = "acquiring" /\ start'.pc = "off" /\ start'.id = None /\ start' = Idle
      /\ UNCHANGED <<queries, stream, reader, resub, stop, kills, orphans, auth, named>>
  BY IdleType
<1>2. TypeInv'
  <2>9. clients' \in Seq(ClientType) /\ manager' \in ManagerType
    BY <1>1 DEF Connects
  <2> QED
    BY <1>0, <1>1, <2>9, IdleType DEF TypeInv
<1>3. Known'
  BY <1>0, <1>1, NoneKnown DEF LiveInv, Known, Down, Connects
<1>4. Roles'
  BY <1>0, <1>1, NoneKnown DEF LiveInv, Roles, Connects
<1>5. Asked(resub)'
  BY <1>0, <1>1, NoneKnown DEF LiveInv, Asked, Private, Down, Roles, Connects, Known
<1>6. Asked(start)'
  BY <1>0, <1>1, NoneKnown DEF LiveInv, Asked, Private, Down, Roles, Connects, Known
<1>7. Buffer'
  BY <1>0, <1>1, NoneKnown DEF LiveInv, Buffer, Ended, InOrder, StillWanted, Connects, Roles
<1>8. Wakes'
  BY <1>0, <1>1, NoneKnown DEF LiveInv, Wakes, Down, Connects, Known
<1>9. Same'
  <2>9. \A c \in DOMAIN clients' :
          clients'[c].net # "down" /\ clients'[c].stamp.kept /\ ~(auth.pc = "signed" /\ auth.client = c)
            => clients'[c].runs = clients'[c].stamp.as
    <3>1. \A c \in DOMAIN clients' : c \in DOMAIN clients \/ c \in DOMAIN clients' \ DOMAIN clients
      OBVIOUS
    <3> QED
      BY <1>1, <3>1 DEF Connects, LiveInv, Same
  <2>8. auth.pc = "signed" => Down(auth.client)' \/ clients'[auth.client].runs = auth.to
    <3>1. auth.pc = "signed" => auth.client \in DOMAIN clients
      BY DEF LiveInv, Known
    <3> QED
      BY <1>1, <3>1 DEF Connects, LiveInv, Same, Down
  <2> QED
    BY <1>0, <1>1, <2>8, <2>9, NoneKnown DEF LiveInv, Same, SameIdentity, Resubscribed, Known,
       Connects
<1> QED
  BY <1>2, <1>3, <1>4, <1>5, <1>6, <1>7, <1>8, <1>9 DEF LiveInv

LEMMA StartSelectingKeeps ==
  ASSUME LiveInv, Connects, start.pc = "acquiring", NEW c \in DOMAIN clients', clients'[c].net = "up",
         start' = [start EXCEPT !.pc = "selecting", !.client = c], stream' = [stream EXCEPT !.identity = clients'[c].stamp],
         UNCHANGED <<queries, reader, resub, stop, kills, orphans, auth, named>>
  PROVE  LiveInv'
<1>0. TypeInv /\ TypesOK
  BY Types DEF LiveInv
<1>1. /\ Connects
      /\ start.pc = "acquiring" /\ start.id = None /\ resub.pc = "off" /\ resub.id = None /\ stream.live_id = None
      /\ start'.pc = "selecting" /\ start'.client = c /\ start'.id = None /\ c \in DOMAIN clients'
      /\ stream'.identity = clients'[c].stamp
      /\ UNCHANGED <<stream.live_id, stream.stopping, stream.starts>>
      /\ UNCHANGED <<queries, reader, resub, stop, kills, orphans, auth, named>>
  <2>1. start.id = None /\ resub.pc = "off" /\ resub.id = None /\ stream.live_id = None
    BY DEF LiveInv, Asked, Roles
  <2>2. start'.pc = "selecting" /\ start'.client = c /\ start'.id = start.id
    BY <1>0 DEF TypeInv, TaskType
  <2>3. stream'.identity = clients'[c].stamp /\ UNCHANGED <<stream.live_id, stream.stopping, stream.starts>>
    BY <1>0 DEF TypeInv, StreamType
  <2> QED
    BY <2>1, <2>2, <2>3
<1>2. TypeInv'
  <2>9. clients' \in Seq(ClientType) /\ manager' \in ManagerType
    BY <1>1 DEF Connects
  <2>1. c \in Nat /\ clients'[c] \in ClientType
    BY <2>9
  <2>2. start' \in TaskType
    BY <1>0, <2>1 DEF TypeInv, TaskType
  <2>3. clients'[c].stamp \in IdentityType
    BY <2>1 DEF ClientType
  <2>4. stream' \in StreamType
    BY <1>0, <2>3 DEF TypeInv, StreamType
  <2> QED
    BY <1>0, <1>1, <2>2, <2>4, <2>9 DEF TypeInv
<1>3. Known'
  BY <1>0, <1>1, NoneKnown DEF LiveInv, Known, Down, Connects
<1>4. Roles'
  BY <1>0, <1>1, NoneKnown DEF LiveInv, Roles, Connects
<1>5. Asked(resub)'
  BY <1>0, <1>1, NoneKnown DEF LiveInv, Asked, Private, Down, Roles, Connects, Known
<1>6. Asked(start)'
  BY <1>0, <1>1, NoneKnown DEF LiveInv, Asked, Private, Down, Roles, Connects, Known
<1>7. Buffer'
  BY <1>0, <1>1, NoneKnown DEF LiveInv, Buffer, Ended, InOrder, StillWanted, Connects, Roles
<1>8. Wakes'
  BY <1>0, <1>1, NoneKnown DEF LiveInv, Wakes, Down, Connects, Known
<1>9. Same'
  <2>9. \A d \in DOMAIN clients' :
          clients'[d].net # "down" /\ clients'[d].stamp.kept /\ ~(auth.pc = "signed" /\ auth.client = d)
            => clients'[d].runs = clients'[d].stamp.as
    <3>1. \A d \in DOMAIN clients' : d \in DOMAIN clients \/ d \in DOMAIN clients' \ DOMAIN clients
      OBVIOUS
    <3> QED
      BY <1>1, <3>1 DEF Connects, LiveInv, Same
  <2>8. auth.pc = "signed" => Down(auth.client)' \/ clients'[auth.client].runs = auth.to
    <3>1. auth.pc = "signed" => auth.client \in DOMAIN clients
      BY DEF LiveInv, Known
    <3> QED
      BY <1>1, <3>1 DEF Connects, LiveInv, Same, Down
  <2>1. SameIdentity'
    BY <1>0, <1>1, NoneIsNoQuery DEF SameIdentity, Resubscribed
  <2> QED
    BY <1>1, <2>1, <2>8, <2>9 DEF Same
<1> QED
  BY <1>2, <1>3, <1>4, <1>5, <1>6, <1>7, <1>8, <1>9 DEF LiveInv

LEMMA SigninFailsKeeps ==
  ASSUME LiveInv, Connects, start.pc = "off", auth.pc = "off",
         resub' = [resub EXCEPT !.raced = @ \/ (resub.pc = "selecting" /\ resub.id = None)], auth' = auth,
         UNCHANGED <<queries, stream, reader, start, stop, kills, orphans, named>>
  PROVE  LiveInv'
<1>0. TypeInv /\ TypesOK
  BY Types DEF LiveInv
<1>1. /\ Connects
      /\ start.pc = "off" /\ auth.pc = "off"
      /\ UNCHANGED <<resub.pc, resub.old, resub.attempt, resub.as, resub.client, resub.id,
                     resub.cancelled>>
      /\ resub'.raced = (resub.raced \/ (resub.pc = "selecting" /\ resub.id = None))
      /\ auth' = auth
      /\ UNCHANGED <<queries, stream, reader, start, stop, kills, orphans, named>>
  <2>1. /\ UNCHANGED <<resub.pc, resub.old, resub.attempt, resub.as, resub.client, resub.id,
                       resub.cancelled>>
        /\ resub'.raced = (resub.raced \/ (resub.pc = "selecting" /\ resub.id = None))
    BY <1>0 DEF TypeInv, TaskType
  <2> QED
    BY <2>1
<1>2. TypeInv'
  <2>9. clients' \in Seq(ClientType) /\ manager' \in ManagerType
    BY <1>1 DEF Connects
  <2>1. resub' \in TaskType
    <3>1. resub \in TaskType /\ resub.raced \in BOOLEAN
      BY <1>0 DEF TypeInv, TypesOK
    <3>2. PICK b \in BOOLEAN : b = (resub.raced \/ (resub.pc = "selecting" /\ resub.id = None))
      BY <3>1
    <3>3. resub' = [resub EXCEPT !.raced = b]
      BY <3>2
    <3> QED
      BY <3>1, <3>3 DEF TaskType
  <2> QED
    BY <1>0, <1>1, <2>1, <2>9 DEF TypeInv
<1>3. Known'
  BY <1>0, <1>1, NoneKnown DEF LiveInv, Known, Down, Connects
<1>4. Roles'
  BY <1>0, <1>1, NoneKnown DEF LiveInv, Roles, Connects
<1>5. Asked(resub)'
  BY <1>0, <1>1, NoneKnown DEF LiveInv, Asked, Private, Down, Roles, Connects, Known
<1>6. Asked(start)'
  BY <1>0, <1>1, NoneKnown DEF LiveInv, Asked, Private, Down, Roles, Connects, Known
<1>7. Buffer'
  BY <1>0, <1>1, NoneKnown DEF LiveInv, Buffer, Ended, InOrder, StillWanted, Connects, Roles
<1>8. Wakes'
  BY <1>0, <1>1, NoneKnown DEF LiveInv, Wakes, Down, Connects, Known
<1>9. Same'
  <2>9. \A c \in DOMAIN clients' :
          clients'[c].net # "down" /\ clients'[c].stamp.kept /\ ~(auth.pc = "signed" /\ auth.client = c)
            => clients'[c].runs = clients'[c].stamp.as
    <3>1. \A c \in DOMAIN clients' : c \in DOMAIN clients \/ c \in DOMAIN clients' \ DOMAIN clients
      OBVIOUS
    <3> QED
      BY <1>1, <3>1 DEF Connects, LiveInv, Same
  <2>8. auth.pc = "signed" => Down(auth.client)' \/ clients'[auth.client].runs = auth.to
    <3>1. auth.pc = "signed" => auth.client \in DOMAIN clients
      BY DEF LiveInv, Known
    <3> QED
      BY <1>1, <3>1 DEF Connects, LiveInv, Same, Down
  <2>1. resub'.pc = "selecting" /\ ~resub'.cancelled =>
          /\ stream'.identity.kept
          /\ resub'.id = None => resub'.raced
          /\ resub'.id # None =>
               (queries'[resub'.id].alive /\ ~queries'[resub'.id].raced => queries'[resub'.id].runs = stream'.identity.as)
    BY <1>1 DEF LiveInv, Same
  <2>2. SameIdentity'
    BY <1>1 DEF LiveInv, Same, SameIdentity, Resubscribed
  <2>3. start'.pc # "selecting"
    BY <1>1
  <2> QED
    BY <2>1, <2>2, <2>3, <2>8, <2>9 DEF Same
<1> QED
  BY <1>2, <1>3, <1>4, <1>5, <1>6, <1>7, <1>8, <1>9 DEF LiveInv

LEMMA SigninSendsKeeps ==
  ASSUME LiveInv, Connects, start.pc = "off", auth.pc = "off", NEW c \in DOMAIN clients', NEW s \in Signins,
         resub' = [resub EXCEPT !.raced = @ \/ (resub.pc = "selecting" /\ resub.id = None)],
         auth' = [pc |-> "sent", client |-> c, to |-> s.to, kept |-> s.kept, count |-> auth.count + 1],
         UNCHANGED <<queries, stream, reader, start, stop, kills, orphans, named>>
  PROVE  LiveInv'
<1>0. TypeInv /\ TypesOK
  BY Types DEF LiveInv
<1>1. /\ Connects
      /\ start.pc = "off" /\ auth.pc = "off"
      /\ UNCHANGED <<resub.pc, resub.old, resub.attempt, resub.as, resub.client, resub.id,
                     resub.cancelled>>
      /\ resub'.raced = (resub.raced \/ (resub.pc = "selecting" /\ resub.id = None))
      /\ auth'.pc = "sent" /\ auth'.client = c /\ c \in DOMAIN clients'
      /\ UNCHANGED <<queries, stream, reader, start, stop, kills, orphans, named>>
  <2>1. /\ UNCHANGED <<resub.pc, resub.old, resub.attempt, resub.as, resub.client, resub.id,
                       resub.cancelled>>
        /\ resub'.raced = (resub.raced \/ (resub.pc = "selecting" /\ resub.id = None))
    BY <1>0 DEF TypeInv, TaskType
  <2> QED
    BY <2>1
<1>2. TypeInv'
  <2>9. clients' \in Seq(ClientType) /\ manager' \in ManagerType
    BY <1>1 DEF Connects
  <2>1. resub' \in TaskType
    <3>1. resub \in TaskType /\ resub.raced \in BOOLEAN
      BY <1>0 DEF TypeInv, TypesOK
    <3>2. PICK b \in BOOLEAN : b = (resub.raced \/ (resub.pc = "selecting" /\ resub.id = None))
      BY <3>1
    <3>3. resub' = [resub EXCEPT !.raced = b]
      BY <3>2
    <3> QED
      BY <3>1, <3>3 DEF TaskType
  <2>2. s.to \in Identities /\ s.kept \in BOOLEAN
    BY LiveAssumption DEF Identities
  <2>3. auth.count + 1 \in Nat /\ c \in Nat
    BY <1>0, <2>9 DEF TypeInv, AuthType
  <2>4. auth' \in AuthType
    BY <2>2, <2>3 DEF AuthType
  <2> QED
    BY <1>0, <1>1, <2>1, <2>4, <2>9 DEF TypeInv
<1>3. Known'
  BY <1>0, <1>1, NoneKnown DEF LiveInv, Known, Down, Connects
<1>4. Roles'
  BY <1>0, <1>1, NoneKnown DEF LiveInv, Roles, Connects
<1>5. Asked(resub)'
  BY <1>0, <1>1, NoneKnown DEF LiveInv, Asked, Private, Down, Roles, Connects, Known
<1>6. Asked(start)'
  BY <1>0, <1>1, NoneKnown DEF LiveInv, Asked, Private, Down, Roles, Connects, Known
<1>7. Buffer'
  BY <1>0, <1>1, NoneKnown DEF LiveInv, Buffer, Ended, InOrder, StillWanted, Connects, Roles
<1>8. Wakes'
  BY <1>0, <1>1, NoneKnown DEF LiveInv, Wakes, Down, Connects, Known
<1>9. Same'
  <2>9. \A d \in DOMAIN clients' :
          clients'[d].net # "down" /\ clients'[d].stamp.kept /\ ~(auth.pc = "signed" /\ auth.client = d)
            => clients'[d].runs = clients'[d].stamp.as
    <3>1. \A d \in DOMAIN clients' : d \in DOMAIN clients \/ d \in DOMAIN clients' \ DOMAIN clients
      OBVIOUS
    <3> QED
      BY <1>1, <3>1 DEF Connects, LiveInv, Same
  <2>8. auth.pc = "signed" => Down(auth.client)' \/ clients'[auth.client].runs = auth.to
    <3>1. auth.pc = "signed" => auth.client \in DOMAIN clients
      BY DEF LiveInv, Known
    <3> QED
      BY <1>1, <3>1 DEF Connects, LiveInv, Same, Down
  <2>1. resub'.pc = "selecting" /\ ~resub'.cancelled =>
          /\ stream'.identity.kept
          /\ resub'.id = None => resub'.raced
          /\ resub'.id # None =>
               (queries'[resub'.id].alive /\ ~queries'[resub'.id].raced => queries'[resub'.id].runs = stream'.identity.as)
    BY <1>1 DEF LiveInv, Same
  <2>2. SameIdentity'
    BY <1>1 DEF LiveInv, Same, SameIdentity, Resubscribed
  <2>3. start'.pc # "selecting"
    BY <1>1
  <2> QED
    BY <2>1, <2>2, <2>3, <2>8, <2>9 DEF Same
<1> QED
  BY <1>2, <1>3, <1>4, <1>5, <1>6, <1>7, <1>8, <1>9 DEF LiveInv

LEMMA FailsKeeps ==
  ASSUME LiveInv, Connects, NEW error, Fails(error), resub.pc # "off", ~resub.cancelled,
         UNCHANGED <<queries, start, stop, kills, orphans, auth, named>>
  PROVE  LiveInv'
<1>1. CASE ~StillWanted(resub.old)
  <2>1. resub' = Idle /\ UNCHANGED <<stream, reader>>
    BY <1>1 DEF Fails, Abandon
  <2> QED
    BY <1>1, <2>1, AbandonKeeps
<1>2. CASE StillWanted(resub.old) /\ GiveUp
  BY <1>2, GiveUpKeeps
<1>3. CASE resub' = [resub EXCEPT !.pc = "backoff", !.client = None, !.id = None, !.raced = FALSE] /\ UNCHANGED <<stream, reader>>
  BY <1>3, BackoffKeeps
<1> QED
  BY <1>1, <1>2, <1>3 DEF Fails

LEMMA AttemptKeeps ==
  ASSUME LiveInv, Attempt
  PROVE  LiveInv'
<1>0. TypeInv /\ TypesOK
  BY Types DEF LiveInv
<1>1. UNCHANGED <<clients, queries, manager, start, stop, kills, orphans, auth, named>>
  BY DEF Attempt, server, calls
<1>2. Connects
  <2>1. manager' \in ManagerType
    BY <1>0, <1>1 DEF TypeInv
  <2> QED
    BY <1>0, <1>1, <2>1, SameClients
<1>3. resub.pc \in {"begin", "backoff"} /\ resub.pc # "off" /\ ~resub.cancelled
  BY DEF Attempt
<1>4. CASE ~StillWanted(resub.old) /\ Abandon
  <2>1. resub' = Idle /\ UNCHANGED <<stream, reader>>
    BY <1>4 DEF Abandon
  <2> QED
    BY <1>1, <1>2, <1>3, <1>4, <2>1, AbandonKeeps
<1>5. CASE StillWanted(resub.old) /\ GiveUp
  BY <1>1, <1>2, <1>3, <1>5, GiveUpKeeps
<1>6. CASE /\ resub' = [resub EXCEPT !.pc = "acquiring", !.attempt = Counted(@), !.as = manager.replay]
           /\ UNCHANGED <<stream, reader>>
  BY <1>1, <1>2, <1>3, <1>6, AcquiringKeeps
<1> QED
  BY <1>4, <1>5, <1>6 DEF Attempt

LEMMA AcquiredKeeps ==
  ASSUME LiveInv, Acquired
  PROVE  LiveInv'
<1>0. TypeInv /\ TypesOK
  BY Types DEF LiveInv
<1>1. UNCHANGED <<queries, start, stop, kills, orphans, auth, named>>
  BY DEF Acquired, calls
<1>2. resub.pc = "acquiring" /\ resub.pc # "off" /\ ~resub.cancelled
  BY DEF Acquired
<1>3. PICK a \in Acquisitions(resub.as, StillWanted(resub.old), FALSE) :
        /\ clients' = a.clients /\ manager' = a.manager
        /\ IF a.error # "none" THEN Fails(a.error)
           ELSE IF ~StillWanted(resub.old) THEN Abandon
           ELSE IF ~CheckIdentity(a.manager, a.clients, a.client) THEN GiveUp
           ELSE /\ resub' = [resub EXCEPT !.pc = "selecting", !.client = a.client, !.raced = auth.pc # "off"]
                /\ UNCHANGED <<stream, reader>>
  BY DEF Acquired
<1>4. resub.as \in Identities
  BY <1>0 DEF TypeInv, TaskType
<1>5. /\ Connects
      /\ a.error = "none" => a.client = manager'.cached /\ a.client \in DOMAIN clients' /\ clients'[a.client].net = "up"
  <2>1. clients' = a.clients /\ manager' = a.manager
    BY <1>3
  <2> QED
    BY <1>4, <2>1, Connecting
<1>6. CASE a.error # "none"
  <2>1. Fails(a.error)
    BY <1>3, <1>6
  <2> QED
    BY <1>1, <1>2, <1>5, <2>1, FailsKeeps
<1>7. CASE a.error = "none" /\ ~StillWanted(resub.old)
  <2>1. resub' = Idle /\ UNCHANGED <<stream, reader>>
    BY <1>3, <1>7 DEF Abandon
  <2> QED
    BY <1>1, <1>2, <1>5, <1>7, <2>1, AbandonKeeps
<1>8. CASE a.error = "none" /\ StillWanted(resub.old) /\ ~CheckIdentity(a.manager, a.clients, a.client)
  <2>1. GiveUp
    BY <1>3, <1>8
  <2> QED
    BY <1>1, <1>2, <1>5, <1>8, <2>1, GiveUpKeeps
<1>9. CASE a.error = "none" /\ StillWanted(resub.old) /\ CheckIdentity(a.manager, a.clients, a.client)
  <2>1. /\ resub' = [resub EXCEPT !.pc = "selecting", !.client = a.client, !.raced = auth.pc # "off"]
        /\ UNCHANGED <<stream, reader>>
    BY <1>3, <1>9
  <2>2. a.client \in DOMAIN clients' /\ clients'[a.client].net = "up" /\ a.client # None
    BY <1>5, <1>9 DEF Connects, None
  <2>3. clients'[a.client].stamp = stream.identity /\ stream.identity.kept
    BY <1>3, <1>9, <2>2 DEF CheckIdentity
  <2> QED
    BY <1>1, <1>2, <1>5, <2>1, <2>2, <2>3, SelectingKeeps
<1> QED
  BY <1>6, <1>7, <1>8, <1>9

LEMMA SelectFailsKeeps ==
  ASSUME LiveInv, SelectFails
  PROVE  LiveInv'
<1>0. TypeInv /\ TypesOK
  BY Types DEF LiveInv
<1>1. UNCHANGED <<clients, queries, manager, start, stop, kills, orphans, auth, named>>
  BY DEF SelectFails, server, calls
<1>2. Connects
  <2>1. manager' \in ManagerType
    BY <1>0, <1>1 DEF TypeInv
  <2> QED
    BY <1>0, <1>1, <2>1, SameClients
<1>3. resub.pc # "off" /\ ~resub.cancelled
  BY DEF SelectFails
<1>4. PICK error \in {"transient", "final"} : Fails(error)
  BY DEF SelectFails
<1> QED
  BY <1>1, <1>2, <1>3, <1>4, FailsKeeps

LEMMA StartSelectsKeeps ==
  ASSUME LiveInv, StartSelects
  PROVE  LiveInv'
<1>0. TypeInv /\ TypesOK
  BY Types DEF LiveInv
<1>1. UNCHANGED <<queries, reader, resub, stop, kills, orphans, auth,
                  named>> /\ start.pc = "acquiring"
  BY DEF StartSelects
<1>2. PICK a \in Acquisitions(start.as, TRUE, FALSE) :
        /\ clients' = a.clients /\ manager' = a.manager
        /\ IF a.error # "none" THEN start' = Idle /\ UNCHANGED stream
           ELSE /\ start' = [start EXCEPT !.pc = "selecting", !.client = a.client]
                /\ stream' = [stream EXCEPT !.identity = a.clients[a.client].stamp]
  BY DEF StartSelects
<1>3. start.as \in Identities
  BY <1>0 DEF TypeInv, TaskType
<1>4. /\ Connects
      /\ a.error = "none" => a.client \in DOMAIN clients' /\ clients'[a.client].net = "up"
  <2>1. clients' = a.clients /\ manager' = a.manager
    BY <1>2
  <2>2. a \in Acquisitions(start.as, TRUE, FALSE)
    BY <1>2
  <2> QED
    <3>1. a.error = "none" => a.client = manager'.cached /\ a.client \in DOMAIN clients' /\ clients'[a.client].net = "up"
      BY <1>3, <2>1, <2>2, Connecting, ZenonT(60)
    <3>2. Connects
      BY <1>3, <2>1, <2>2, Connecting, ZenonT(60)
    <3> QED
      BY <3>1, <3>2
<1>5. CASE a.error # "none"
  <2>1. start' = Idle /\ UNCHANGED stream
    BY <1>2, <1>5
  <2> QED
    BY <1>1, <1>4, <2>1, StartFailsKeeps
<1>6. CASE a.error = "none"
  <2>1. /\ start' = [start EXCEPT !.pc = "selecting", !.client = a.client]
        /\ stream' = [stream EXCEPT !.identity = clients'[a.client].stamp]
    BY <1>2, <1>6
  <2> QED
    BY <1>1, <1>4, <1>6, <2>1, StartSelectingKeeps
<1> QED
  BY <1>5, <1>6

LEMMA SigninKeeps ==
  ASSUME LiveInv, Signin
  PROVE  LiveInv'
<1>0. TypeInv /\ TypesOK
  BY Types DEF LiveInv
<1>1. /\ UNCHANGED <<queries, stream, reader, start, stop, kills, orphans, named>>
      /\ start.pc = "off" /\ auth.pc = "off"
      /\ resub' = [resub EXCEPT !.raced = @ \/ (resub.pc = "selecting" /\ resub.id = None)]
  BY DEF Signin
<1>2. PICK s \in Signins, a \in Acquisitions(manager.replay, TRUE, TRUE) :
        /\ clients' = a.clients /\ manager' = a.manager
        /\ auth' = IF a.error # "none" THEN auth
                   ELSE [pc |-> "sent", client |-> a.client, to |-> s.to, kept |-> s.kept, count |-> auth.count + 1]
  BY DEF Signin
<1>3. manager.replay \in Identities
  BY <1>0 DEF TypesOK
<1>4. /\ Connects
      /\ a.error = "none" => a.client \in DOMAIN clients' /\ clients'[a.client].net = "up"
  <2>1. clients' = a.clients /\ manager' = a.manager
    BY <1>2
  <2>2. a \in Acquisitions(manager.replay, TRUE, TRUE)
    BY <1>2
  <2> QED
    <3>1. a.error = "none" => a.client = manager'.cached /\ a.client \in DOMAIN clients' /\ clients'[a.client].net = "up"
      BY <1>3, <2>1, <2>2, Connecting, ZenonT(60)
    <3>2. Connects
      BY <1>3, <2>1, <2>2, Connecting, ZenonT(60)
    <3> QED
      BY <3>1, <3>2
<1>5. CASE a.error # "none"
  <2>1. auth' = auth
    BY <1>2, <1>5
  <2> QED
    BY <1>1, <1>4, <2>1, SigninFailsKeeps
<1>6. CASE a.error = "none"
  <2>1. auth' = [pc |-> "sent", client |-> a.client, to |-> s.to, kept |-> s.kept, count |-> auth.count + 1]
    BY <1>2, <1>6
  <2> QED
    BY <1>1, <1>4, <1>6, <2>1, SigninSendsKeeps
<1> QED
  BY <1>5, <1>6

LEMMA ClearSessionKeeps ==
  ASSUME LiveInv, ClearSession
  PROVE  LiveInv'
<1>0. TypeInv /\ TypesOK
  BY Types DEF LiveInv
<1>1. UNCHANGED <<clients, queries, stream, reader, resub, start, stop, kills, orphans, auth,
                  named>>
  BY DEF ClearSession, calls
<1>2. manager' \in ManagerType /\ manager'.cached = manager.cached
  <2>1. Configured \in Identities
    BY DEF Identities
  <2> QED
    BY <1>0, <2>1 DEF ClearSession, TypeInv, ManagerType
<1>3. Connects
  BY <1>0, <1>1, <1>2, SameClients
<1> QED
  BY <1>1, <1>3, ConnectsKeeps

LEMMA GetClientKeeps ==
  ASSUME LiveInv, GetClient
  PROVE  LiveInv'
<1>0. TypeInv /\ TypesOK
  BY Types DEF LiveInv
<1>1. UNCHANGED <<queries, stream, reader, resub, start, stop, kills, orphans, auth, named>>
  BY DEF GetClient, calls
<1>2. PICK a \in Acquisitions(manager.replay, TRUE, FALSE) : clients' = a.clients /\ manager' = a.manager
  BY DEF GetClient
<1>3. manager.replay \in Identities
  BY <1>0 DEF TypesOK
<1>4. Connects
  BY <1>2, <1>3, Connecting
<1> QED
  BY <1>1, <1>4, ConnectsKeeps

-----------------------------------------------------------------------------
(***************************************************************************)
(* The reader, the network and the server keep it.                         *)
(***************************************************************************)
LEMMA ReadKeeps ==
  ASSUME LiveInv, Read
  PROVE  LiveInv'
<1>0. TypeInv /\ TypesOK
  BY Types DEF LiveInv
<1>1. /\ UNCHANGED <<reader.open, reader.id, reader.client, reader.registered, reader.watching,
                    reader.queue, reader.pushed, reader.got>>
      /\ UNCHANGED <<clients, queries, manager, stream, resub, start, stop, kills, orphans, auth,
                     named>>
      /\ reader'.parked /\ reader.open
  BY <1>0 DEF Read, TypeInv, ReaderType, server, calls
<1>2. TypeInv'
  <2>1. reader' \in ReaderType
    BY <1>0 DEF TypeInv, Read, ReaderType
  <2> QED
    BY <1>0, <1>1, <2>1 DEF TypeInv
<1>3. Known'
  BY <1>0, <1>1 DEF LiveInv, Known, Down
<1>4. Roles'
  BY <1>0, <1>1 DEF LiveInv, Roles
<1>5. Asked(resub)'
  BY <1>0, <1>1 DEF LiveInv, Asked, Private, Down, Roles
<1>6. Asked(start)'
  BY <1>0, <1>1 DEF LiveInv, Asked, Private, Down, Roles
<1>7. Buffer'
  BY <1>0, <1>1 DEF LiveInv, Buffer, Ended, InOrder, StillWanted
<1>8. Wakes'
  BY <1>0, <1>1 DEF LiveInv, Wakes, Down
<1>9. Same'
  BY <1>0, <1>1 DEF LiveInv, Same, SameIdentity, Resubscribed, Down
<1> QED
  BY <1>2, <1>3, <1>4, <1>5, <1>6, <1>7, <1>8, <1>9 DEF LiveInv

LEMMA CancelReadKeeps ==
  ASSUME LiveInv, CancelRead
  PROVE  LiveInv'
<1>0. TypeInv /\ TypesOK
  BY Types DEF LiveInv
<1>1. /\ UNCHANGED <<reader.open, reader.id, reader.client, reader.registered, reader.watching,
                    reader.queue, reader.pushed, reader.got>>
      /\ UNCHANGED <<clients, queries, manager, stream, resub, start, stop, kills, orphans, auth,
                     named>>
      /\ ~reader'.parked
  BY <1>0 DEF CancelRead, TypeInv, ReaderType, server, calls
<1>2. TypeInv'
  <2>1. reader' \in ReaderType
    BY <1>0 DEF TypeInv, CancelRead, ReaderType
  <2> QED
    BY <1>0, <1>1, <2>1 DEF TypeInv
<1>3. Known'
  BY <1>0, <1>1 DEF LiveInv, Known, Down
<1>4. Roles'
  BY <1>0, <1>1 DEF LiveInv, Roles
<1>5. Asked(resub)'
  BY <1>0, <1>1 DEF LiveInv, Asked, Private, Down, Roles
<1>6. Asked(start)'
  BY <1>0, <1>1 DEF LiveInv, Asked, Private, Down, Roles
<1>7. Buffer'
  BY <1>0, <1>1 DEF LiveInv, Buffer, Ended, InOrder, StillWanted
<1>8. Wakes'
  BY <1>0, <1>1 DEF LiveInv, Wakes, Down
<1>9. Same'
  BY <1>0, <1>1 DEF LiveInv, Same, SameIdentity, Resubscribed, Down
<1> QED
  BY <1>2, <1>3, <1>4, <1>5, <1>6, <1>7, <1>8, <1>9 DEF LiveInv

LEMMA NotifyKeeps ==
  ASSUME LiveInv, Notify
  PROVE  LiveInv'
<1>0. TypeInv /\ TypesOK
  BY Types DEF LiveInv
<1>1. /\ UNCHANGED <<reader.open, reader.id, reader.client, reader.registered, reader.watching,
                     reader.parked, reader.got>>
      /\ UNCHANGED <<clients, queries, manager, stream, resub, start, stop, kills, orphans, auth,
                     named>>
      /\ reader.registered /\ queries[reader.id].alive
      /\ reader'.pushed = reader.pushed + 1 /\ reader'.queue = Append(reader.queue, reader.pushed + 1)
      /\ Len(reader'.queue) = Len(reader.queue) + 1 /\ DOMAIN reader'.queue = 1 .. Len(reader.queue) + 1
      /\ \A i \in DOMAIN reader.queue : reader'.queue[i] = reader.queue[i]
      /\ reader'.queue[Len(reader.queue) + 1] = reader.pushed + 1
  <2>1. reader' = [reader EXCEPT !.pushed = @ + 1, !.queue = Append(@, reader.pushed + 1)]
    BY DEF Notify
  <2>2. /\ reader'.pushed = reader.pushed + 1 /\ reader'.queue = Append(reader.queue, reader.pushed + 1)
        /\ UNCHANGED <<reader.open, reader.id, reader.client, reader.registered, reader.watching,
                       reader.parked, reader.got>>
    BY <1>0, <2>1 DEF TypeInv, ReaderType
  <2>3. reader.queue \in Seq(Int) /\ reader.pushed + 1 \in Int
    BY <1>0 DEF TypesOK
  <2>4. UNCHANGED <<clients, queries, manager, stream, resub, start, stop, kills, orphans, auth,
                    named>> /\ reader.registered /\ queries[reader.id].alive
    BY DEF Notify, server, calls
  <2> QED
    BY <2>2, <2>3, <2>4, Queued
<1>2. TypeInv'
  <2>1. Append(reader.queue, reader.pushed + 1) \in Seq(Int)
    BY <1>0, Queued DEF TypesOK
  <2>2. reader' = [reader EXCEPT !.pushed = reader.pushed + 1, !.queue = Append(reader.queue, reader.pushed + 1)]
    BY DEF Notify
  <2>3. \A n \in Nat, s \in Seq(Int) : [reader EXCEPT !.pushed = n, !.queue = s] \in ReaderType
    BY <1>0 DEF TypeInv, ReaderType
  <2>4. reader' \in ReaderType
    <3>1. reader.pushed + 1 \in Nat
      BY <1>0, Counting
    <3> QED
      BY <2>1, <2>2, <2>3, <3>1
  <2> QED
    BY <1>0, <1>1, <2>1, <2>2, <2>3, <2>4 DEF TypeInv
<1>3. Known'
  BY <1>0, <1>1 DEF LiveInv, Known, Down
<1>4. Roles'
  BY <1>0, <1>1 DEF LiveInv, Roles
<1>5. Asked(resub)'
  BY <1>0, <1>1 DEF LiveInv, Asked, Private, Down, Roles
<1>6. Asked(start)'
  BY <1>0, <1>1 DEF LiveInv, Asked, Private, Down, Roles
<1>7. Buffer'
  <2>1. ~Ended /\ reader.open /\ reader.got <= reader.pushed /\ InOrder /\ stream.live_id # None
    BY <1>1 DEF LiveInv, Known, Buffer
  <2>2. Len(reader.queue) = reader.pushed - reader.got
    <3>1. /\ ~(reader.pushed - reader.got < Len(reader.queue)) /\ reader.pushed - reader.got <= Len(reader.queue)
          /\ reader.pushed - reader.got \in Int /\ Len(reader.queue) \in Int
      BY <1>0, <2>1 DEF LiveInv, Buffer, TypesOK, Ended
    <3> QED
      BY <3>1
  <2>3. ~Ended'
    <3>1. /\ reader'.pushed = reader.pushed + 1 /\ reader'.got = reader.got
          /\ Len(reader'.queue) = Len(reader.queue) + 1
          /\ Len(reader.queue) \in Int /\ reader.got \in Int /\ reader.pushed \in Int
      BY <1>0, <1>1 DEF TypesOK
    <3> QED
      BY <2>2, <3>1 DEF Ended
  <2>4. InOrder'
    <3> DEFINE n == Len(reader.queue)
    <3>1. n \in Nat /\ n = reader.pushed - reader.got /\ reader.got \in Int /\ reader.pushed \in Int
          /\ DOMAIN reader.queue = 1 .. n /\ DOMAIN reader'.queue = 1 .. n + 1 /\ reader'.got = reader.got
      BY <1>0, <1>1, <2>2 DEF TypesOK
    <3>2. \A i \in 1 .. n : reader'.queue[i] = reader.got + i
      BY <1>1, <2>1, <3>1 DEF InOrder
    <3>3. reader'.queue[n + 1] = reader.got + (n + 1)
      BY <1>1, <3>1
    <3> HIDE DEF n
    <3>4. \A i \in 1 .. n + 1 : reader'.queue[i] = reader.got + i
      BY <3>1, <3>2, <3>3
    <3>5. reader'.pushed - reader'.got = n + 1
      BY <1>1, <3>1
    <3> QED
      BY <3>1, <3>4, <3>5 DEF InOrder
  <2>5. /\ reader'.got <= reader'.pushed /\ reader'.pushed - reader'.got <= Len(reader'.queue)
        /\ reader'.registered /\ reader'.open /\ stream'.live_id # None
    <3>1. /\ reader'.pushed = reader.pushed + 1 /\ reader'.got = reader.got
          /\ Len(reader'.queue) = Len(reader.queue) + 1
          /\ Len(reader.queue) \in Int /\ reader.got \in Int /\ reader.pushed \in Int
      BY <1>0, <1>1 DEF TypesOK
    <3> QED
      BY <1>1, <2>1, <2>2, <3>1
  <2> QED
    BY <2>3, <2>4, <2>5 DEF Buffer
<1>8. Wakes'
  BY <1>0, <1>1 DEF LiveInv, Wakes, Down, TypesOK
<1>9. Same'
  BY <1>0, <1>1 DEF LiveInv, Same, SameIdentity, Resubscribed, Down
<1> QED
  BY <1>2, <1>3, <1>4, <1>5, <1>6, <1>7, <1>8, <1>9 DEF LiveInv

LEMMA ConnectionLostKeeps ==
  ASSUME LiveInv, ConnectionLost
  PROVE  LiveInv'
<1>0. TypeInv /\ TypesOK
  BY Types DEF LiveInv
<1>1. /\ UNCHANGED <<reader.open, reader.id, reader.client, reader.registered, reader.parked,
                     reader.queue, reader.pushed, reader.got>>
      /\ UNCHANGED <<clients, queries, manager, stream, start, stop, kills, orphans, auth, named>>
      /\ ~reader'.watching /\ reader.watching /\ Down(reader.client)
      /\ \/ UNCHANGED resub /\ (reader.registered => stream.stopping \/ resub.pc # "off" \/ stream.live_id = None)
         \/ /\ reader.registered /\ ~stream.stopping /\ resub.pc = "off" /\ stream.live_id # None
            /\ resub'.pc = "begin" /\ resub'.old = stream.live_id /\ resub'.id = None /\ ~resub'.cancelled
  BY <1>0 DEF TypeInv, ConnectionLost, Schedules, ReaderType, Idle, server, calls
<1>2. TypeInv'
  <2>1. reader' \in ReaderType
    BY <1>0, <1>1 DEF TypeInv, TypesOK, ConnectionLost, Schedules, ReaderType
  <2>2. resub' \in TaskType
    BY <1>0, <1>1, <2>1, IdleType DEF TypeInv, TypesOK, ConnectionLost, Schedules, TaskType
  <2> QED
    BY <1>0, <1>1, <2>1, <2>2 DEF TypeInv
<1>3. Known'
  BY <1>0, <1>1 DEF LiveInv, Known, Down, None
<1>4. Roles'
  <2>1. reader.registered /\ stream.live_id # None => ~queries[stream.live_id].alive
    <3>1. reader.registered => ~queries[reader.id].alive
      <4>1. reader.registered => reader.id \in DOMAIN queries
        BY <1>0, IdsKnown DEF LiveInv, Known
      <4> QED
        BY <1>1, <4>1 DEF LiveInv, Known, Wakes
    <3> QED
      BY <3>1 DEF LiveInv, Roles
  <2> QED
    BY <1>0, <1>1, <2>1 DEF LiveInv, Roles, Known, None
<1>5. Asked(resub)'
  BY <1>0, <1>1 DEF LiveInv, Asked, Private, Down, Roles
<1>6. Asked(start)'
  BY <1>0, <1>1 DEF LiveInv, Asked, Private, Down, Roles
<1>7. Buffer'
  BY <1>0, <1>1 DEF LiveInv, Buffer, Ended, InOrder, StillWanted
<1>8. Wakes'
  <2>1. reader.registered => ~queries[reader.id].alive
    <3>1. reader.registered => reader.id \in DOMAIN queries
      BY <1>0, IdsKnown DEF LiveInv, Known
    <3> QED
      BY <1>1, <3>1 DEF LiveInv, Known, Wakes
  <2> QED
    BY <1>0, <1>1, <2>1 DEF LiveInv, Wakes, Known, None
<1>9. Same'
  BY <1>0, <1>1 DEF LiveInv, Same, SameIdentity, Resubscribed, Down
<1> QED
  BY <1>2, <1>3, <1>4, <1>5, <1>6, <1>7, <1>8, <1>9 DEF LiveInv

LEMMA StartKeeps ==
  ASSUME LiveInv, Start
  PROVE  LiveInv'
<1>0. TypeInv /\ TypesOK
  BY Types DEF LiveInv
<1>1. /\ UNCHANGED <<stream.live_id, stream.stopping, stream.identity>>
      /\ UNCHANGED <<clients, queries, manager, reader, stop, kills, orphans, auth, named>>
      /\ start.pc = "off" /\ stop = "off" /\ auth.pc = "off" /\ stream.live_id = None
      /\ start'.pc = "waiting" /\ start'.id = None /\ start'.raced = FALSE
      /\ UNCHANGED <<resub.pc, resub.old, resub.attempt, resub.as, resub.client, resub.id,
                     resub.raced>>
      /\ resub'.cancelled = (resub.pc # "off" \/ resub.cancelled)
  BY <1>0 DEF TypeInv, Start, CancelTasks, StreamType, TaskType, Idle, server
<1>2. TypeInv'
  <2>1. stream' \in StreamType
    <3>1. stream.starts + 1 \in Nat
      BY <1>0, Counting
    <3> QED
      BY <1>0, <3>1 DEF TypeInv, Start, StreamType
  <2>2. start' \in TaskType
    BY <1>0, <1>1, <2>1, IdleType DEF TypeInv, TypesOK, Start, CancelTasks, TaskType
  <2>3. resub' \in TaskType
    BY <1>0, <1>1, <2>1, <2>2, IdleType DEF TypeInv, TypesOK, Start, CancelTasks, TaskType
  <2> QED
    BY <1>0, <1>1, <2>1, <2>2, <2>3 DEF TypeInv
<1>3. Known'
  BY <1>0, <1>1 DEF LiveInv, Known, Down
<1>4. Roles'
  BY <1>0, <1>1 DEF LiveInv, Roles, None
<1>5. Asked(resub)'
  BY <1>0, <1>1 DEF LiveInv, Asked, Private, Down, Roles
<1>6. Asked(start)'
  BY <1>0, <1>1 DEF LiveInv, Asked, Private, Down, Roles
<1>7. Buffer'
  BY <1>0, <1>1 DEF LiveInv, Buffer, Ended, InOrder, StillWanted, TypesOK, Known, None
<1>8. Wakes'
  BY <1>0, <1>1 DEF LiveInv, Wakes, Down
<1>9. Same'
  BY <1>0, <1>1 DEF LiveInv, Same, SameIdentity, Resubscribed, Down
<1> QED
  BY <1>2, <1>3, <1>4, <1>5, <1>6, <1>7, <1>8, <1>9 DEF LiveInv

LEMMA StopKeeps ==
  ASSUME LiveInv, Stop
  PROVE  LiveInv'
<1>0. TypeInv /\ TypesOK
  BY Types DEF LiveInv
<1>1. /\ UNCHANGED <<stream.live_id, stream.starts, stream.identity>>
      /\ UNCHANGED <<clients, queries, manager, reader, start, kills, orphans, auth, named>>
      /\ start.pc = "off" /\ stop = "off" /\ stop' = "cancelling" /\ stream'.stopping
      /\ UNCHANGED <<resub.pc, resub.old, resub.attempt, resub.as, resub.client, resub.id,
                     resub.raced>>
      /\ resub'.cancelled = (resub.pc # "off" \/ resub.cancelled)
  BY <1>0 DEF TypeInv, Stop, CancelTasks, StreamType, TaskType, server
<1>2. TypeInv'
  <2>1. stream' \in StreamType
    BY <1>0, <1>1 DEF TypeInv, TypesOK, Stop, CancelTasks, StreamType, IdentityType
  <2>2. resub' \in TaskType
    BY <1>0, <1>1, <2>1, IdleType DEF TypeInv, TypesOK, Stop, CancelTasks, TaskType
  <2> QED
    BY <1>0, <1>1, <2>1, <2>2 DEF TypeInv
<1>3. Known'
  BY <1>0, <1>1 DEF LiveInv, Known, Down
<1>4. Roles'
  BY <1>0, <1>1 DEF LiveInv, Roles
<1>5. Asked(resub)'
  BY <1>0, <1>1 DEF LiveInv, Asked, Private, Down, Roles
<1>6. Asked(start)'
  BY <1>0, <1>1 DEF LiveInv, Asked, Private, Down, Roles
<1>7. Buffer'
  BY <1>0, <1>1 DEF LiveInv, Buffer, Ended, InOrder, StillWanted
<1>8. Wakes'
  BY <1>0, <1>1 DEF LiveInv, Wakes, Down
<1>9. Same'
  <2>1. SameIdentity'
    BY <1>1 DEF LiveInv, Same, SameIdentity, Resubscribed
  <2> QED
    BY <1>1, <2>1 DEF LiveInv, Same, Down
<1> QED
  BY <1>2, <1>3, <1>4, <1>5, <1>6, <1>7, <1>8, <1>9 DEF LiveInv

LEMMA StartAcquiresKeeps ==
  ASSUME LiveInv, StartAcquires
  PROVE  LiveInv'
<1>0. TypeInv /\ TypesOK
  BY Types DEF LiveInv
<1>1. /\ UNCHANGED <<stream.live_id, stream.starts, stream.identity>>
      /\ UNCHANGED <<clients, queries, manager, reader, resub, stop, kills, orphans, auth, named>>
      /\ start.pc = "waiting" /\ resub.pc = "off" /\ ~stream'.stopping
      /\ UNCHANGED <<start.old, start.attempt, start.client, start.id, start.raced,
                     start.cancelled>>
      /\ start'.pc = "acquiring"
  BY <1>0 DEF TypeInv, StartAcquires, StreamType, TaskType, server
<1>2. TypeInv'
  <2>1. stream' \in StreamType
    BY <1>0, <1>1 DEF TypeInv, TypesOK, StartAcquires, StreamType, IdentityType
  <2>2. start' \in TaskType
    BY <1>0, <1>1, <2>1, IdleType DEF TypeInv, TypesOK, StartAcquires, TaskType
  <2> QED
    BY <1>0, <1>1, <2>1, <2>2 DEF TypeInv
<1>3. Known'
  BY <1>0, <1>1 DEF LiveInv, Known, Down
<1>4. Roles'
  BY <1>0, <1>1 DEF LiveInv, Roles
<1>5. Asked(resub)'
  BY <1>0, <1>1 DEF LiveInv, Asked, Private, Down, Roles
<1>6. Asked(start)'
  BY <1>0, <1>1 DEF LiveInv, Asked, Private, Down, Roles
<1>7. Buffer'
  BY <1>0, <1>1 DEF LiveInv, Buffer, Ended, InOrder, StillWanted, Asked, Roles
<1>8. Wakes'
  BY <1>0, <1>1 DEF LiveInv, Wakes, Down, Roles
<1>9. Same'
  BY <1>0, <1>1 DEF LiveInv, Same, SameIdentity, Resubscribed, Down
<1> QED
  BY <1>2, <1>3, <1>4, <1>5, <1>6, <1>7, <1>8, <1>9 DEF LiveInv

LEMMA ServerSignsKeeps ==
  ASSUME LiveInv, ServerSigns
  PROVE  LiveInv'
<1>0. TypeInv /\ TypesOK
  BY Types DEF LiveInv
<1>1. /\ UNCHANGED <<auth.client, auth.to, auth.kept, auth.count>>
      /\ UNCHANGED <<queries, manager, stream, reader, resub, start, stop, kills, orphans, named>>
      /\ auth.pc = "sent" /\ auth'.pc = "signed" /\ auth.client \in DOMAIN clients
      /\ Len(clients') = Len(clients) /\ DOMAIN clients' = DOMAIN clients
      /\ \A c \in DOMAIN clients : clients'[c].net = clients[c].net /\ clients'[c].stamp = clients[c].stamp
      /\ \A c \in DOMAIN clients : c # auth.client => clients'[c] = clients[c]
      /\ clients'[auth.client].runs = auth.to
  <2>1. auth.pc = "sent" /\ auth.client \in DOMAIN clients
    BY DEF ServerSigns, LiveInv, Known
  <2>2. clients' = [clients EXCEPT ![auth.client].runs = auth.to] /\ UNCHANGED <<queries, manager, stream, reader, resub, start, stop, kills, orphans, named>>
        /\ auth' = [auth EXCEPT !.pc = "signed"]
    BY DEF ServerSigns
  <2>3. auth'.pc = "signed" /\ UNCHANGED <<auth.client, auth.to, auth.kept, auth.count>>
    BY <1>0, <2>2 DEF TypeInv, AuthType
  <2>4. /\ Len(clients') = Len(clients) /\ DOMAIN clients' = DOMAIN clients
        /\ \A c \in DOMAIN clients : clients'[c].net = clients[c].net /\ clients'[c].stamp = clients[c].stamp
        /\ \A c \in DOMAIN clients : c # auth.client => clients'[c] = clients[c]
        /\ clients'[auth.client].runs = auth.to
    <3>1. auth.to \in Identities
      BY <1>0 DEF TypeInv, AuthType
    <3>2. clients \in Seq(ClientType)
      BY <1>0 DEF TypeInv
    <3>3. clients' = [clients EXCEPT ![auth.client].runs = auth.to]
      BY <2>2
    <3> QED
      BY <2>1, <3>1, <3>2, <3>3, ClientChanged
  <2> QED
    BY <2>1, <2>2, <2>3, <2>4
<1>2. TypeInv'
  <2>1. clients' \in Seq(ClientType)
    <3>1. auth.to \in Identities /\ clients' = [clients EXCEPT ![auth.client].runs = auth.to]
      BY <1>0 DEF TypeInv, AuthType, ServerSigns
    <3> QED
      BY <1>0, <1>1, <3>1, ClientChanged DEF TypeInv
  <2>2. auth' \in AuthType
    BY <1>0, <1>1, <2>1 DEF TypeInv, TypesOK, ServerSigns, AuthType
  <2> QED
    BY <1>0, <1>1, <2>1, <2>2 DEF TypeInv
<1>3. Known'
  BY <1>0, <1>1 DEF LiveInv, Known, Down
<1>4. Roles'
  BY <1>0, <1>1 DEF LiveInv, Roles
<1>5. Asked(resub)'
  BY <1>0, <1>1 DEF LiveInv, Asked, Private, Down, Roles, Known
<1>6. Asked(start)'
  BY <1>0, <1>1 DEF LiveInv, Asked, Private, Down, Roles, Known
<1>7. Buffer'
  BY <1>0, <1>1 DEF LiveInv, Buffer, Ended, InOrder, StillWanted
<1>8. Wakes'
  BY <1>0, <1>1 DEF LiveInv, Wakes, Down, Known
<1>9. Same'
  <2>1. \A c \in DOMAIN clients' :
          clients'[c].net # "down" /\ clients'[c].stamp.kept /\ ~(auth'.pc = "signed" /\ auth'.client = c)
            => clients'[c].runs = clients'[c].stamp.as
    BY <1>1 DEF LiveInv, Same
  <2>2. clients'[auth'.client].runs = auth'.to
    BY <1>1
  <2>3. resub'.pc = "selecting" /\ ~resub'.cancelled =>
          /\ stream'.identity.kept
          /\ resub'.id = None => resub'.raced
          /\ resub'.id # None =>
               (queries'[resub'.id].alive /\ ~queries'[resub'.id].raced => queries'[resub'.id].runs = stream'.identity.as)
    BY <1>1 DEF LiveInv, Same
  <2>4. start'.pc # "selecting"
    BY <1>1 DEF LiveInv, Roles
  <2>5. SameIdentity'
    BY <1>1 DEF LiveInv, Same, SameIdentity, Resubscribed
  <2> QED
    BY <2>1, <2>2, <2>3, <2>4, <2>5 DEF Same
<1> QED
  BY <1>2, <1>3, <1>4, <1>5, <1>6, <1>7, <1>8, <1>9 DEF LiveInv

LEMMA ReceiveKeeps ==
  ASSUME LiveInv, Receive
  PROVE  LiveInv'
<1>0. TypeInv /\ TypesOK
  BY Types DEF LiveInv
<1>d. PICK taken : taken = [reader EXCEPT !.queue = Tail(@), !.parked = FALSE]
  OBVIOUS
<1>r. /\ reader' = IF Head(reader.queue) \in {End, Loss} THEN Detached(taken) ELSE [taken EXCEPT !.got = Head(reader.queue)]
      /\ reader.queue # <<>> /\ reader.queue \in Seq(Int) /\ reader.parked
  BY <1>0, <1>d DEF Receive, TypesOK
<1>t. /\ taken \in ReaderType /\ ~taken.parked /\ Head(reader.queue) \in Int /\ Tail(reader.queue) \in Seq(Int)
  <2>1. Tail(reader.queue) \in Seq(Int) /\ Head(reader.queue) \in Int
    BY <1>r, Dequeued
  <2> QED
    BY <1>0, <1>d, <2>1 DEF TypeInv, ReaderType
<1>1. /\ UNCHANGED <<clients, queries, manager, resub, start, stop, kills, orphans, auth, named>>
      /\ reader.parked /\ ~reader'.parked
      /\ \/ /\ ~reader'.open /\ ~reader'.registered /\ ~reader'.watching /\ reader'.id = None
            /\ stream'.live_id = None /\ UNCHANGED <<stream.stopping, stream.starts,
                                                     stream.identity>>
         \/ /\ UNCHANGED stream /\ UNCHANGED <<reader.open, reader.id, reader.client,
                                               reader.registered, reader.watching, reader.pushed>>
            /\ reader'.queue = Tail(reader.queue) /\ reader'.got = Head(reader.queue)
            /\ Head(reader.queue) \notin {End, Loss}
  <2>1. CASE Head(reader.queue) \in {End, Loss}
    <3>1. /\ ~reader'.open /\ ~reader'.registered /\ ~reader'.watching /\ reader'.id = None /\ ~reader'.parked
      BY <1>r, <1>t, <2>1, DetachedIs
    <3>2. stream'.live_id = None /\ UNCHANGED <<stream.stopping, stream.starts, stream.identity>>
      BY <1>0, <2>1 DEF TypeInv, StreamType, Receive
    <3> QED
      BY <3>1, <3>2 DEF Receive, server, calls
  <2>2. CASE Head(reader.queue) \notin {End, Loss}
    <3>1. /\ UNCHANGED <<reader.open, reader.id, reader.client, reader.registered, reader.watching,
                         reader.pushed>>
          /\ reader'.queue = Tail(reader.queue) /\ reader'.got = Head(reader.queue) /\ ~reader'.parked
      BY <1>0, <1>r, <1>t, <1>d, <2>2 DEF TypeInv, ReaderType
    <3> QED
      BY <2>2, <3>1 DEF Receive, server, calls
  <2> QED
    BY <2>1, <2>2
<1>2. TypeInv'
  <2>1. stream' \in StreamType
    BY <1>0, StreamForgets DEF TypeInv, Receive
  <2>2. reader' \in ReaderType
    <3>1. CASE Head(reader.queue) \in {End, Loss}
      BY <1>r, <1>t, <3>1, DetachedIs
    <3>2. CASE Head(reader.queue) \notin {End, Loss}
      BY <1>d, <1>r, <1>t, <3>2 DEF ReaderType
    <3> QED
      BY <3>1, <3>2
  <2> QED
    BY <1>0, <1>1, <2>1, <2>2 DEF TypeInv
<1>3. Known'
  BY <1>0, <1>1, NoneKnown DEF LiveInv, Known, Down
<1>4. Roles'
  BY <1>0, <1>1, NoneKnown DEF LiveInv, Roles, Known, None
<1>5. Asked(resub)'
  BY <1>0, <1>1 DEF LiveInv, Asked, Private, Down
<1>6. Asked(start)'
  BY <1>0, <1>1 DEF LiveInv, Asked, Private, Down
<1>7. Buffer'
  <2>1. CASE ~reader'.open /\ ~reader'.registered
    BY <1>1, <2>1 DEF Buffer, InOrder
  <2>2. CASE /\ UNCHANGED stream /\ UNCHANGED <<reader.open, reader.id, reader.client,
                                                reader.registered, reader.watching, reader.pushed>>
             /\ reader'.queue = Tail(reader.queue) /\ reader'.got = Head(reader.queue)
             /\ Head(reader.queue) \notin {End, Loss}
    <3> DEFINE q == reader.queue
               n == Len(q)
               m == reader.pushed - reader.got
    <3>1. /\ n \in Nat /\ n >= 1 /\ Len(Tail(q)) = n - 1 /\ DOMAIN Tail(q) = 1 .. n - 1 /\ DOMAIN q = 1 .. n
          /\ Head(q) = q[1] /\ (\A i \in 1 .. n - 1 : Tail(q)[i] = q[i + 1])
          /\ reader.pushed \in Int /\ reader.got \in Int /\ m \in Int
      <4>1. reader.pushed \in Int /\ reader.got \in Int /\ m \in Int /\ q \in Seq(Int) /\ q # <<>>
        BY <1>0, <1>r DEF TypesOK
      <4> HIDE DEF q, m
      <4> QED
        BY <4>1, Dequeued
    <3>2. reader.open => InOrder /\ m <= n /\ reader.got <= reader.pushed
      BY DEF LiveInv, Buffer
    <3>3. ASSUME reader.open PROVE m >= 1 /\ Head(q) = reader.got + 1
      <4>1. IF 1 <= m THEN q[1] = reader.got + 1 ELSE q[1] \in {End, Loss}
        BY <3>1, <3>2, <3>3 DEF InOrder
      <4> QED
        BY <2>2, <3>1, <4>1
    <3>4. ASSUME reader.open
          PROVE  /\ reader'.got <= reader'.pushed /\ reader'.pushed - reader'.got = m - 1
                 /\ Len(reader'.queue) = n - 1 /\ DOMAIN reader'.queue = 1 .. n - 1
      BY <2>2, <3>1, <3>3, <3>4
    <3>5. ASSUME reader.open, NEW i \in 1 .. n - 1
          PROVE  IF i <= m - 1 THEN reader'.queue[i] = reader'.got + i ELSE reader'.queue[i] \in {End, Loss}
      <4>1. i + 1 \in 1 .. n /\ i \in Int
        BY <3>1
      <4>2. IF i + 1 <= m THEN q[i + 1] = reader.got + (i + 1) ELSE q[i + 1] \in {End, Loss}
        BY <3>1, <3>2, <3>5, <4>1 DEF InOrder
      <4>3. reader'.queue[i] = q[i + 1] /\ reader'.got = reader.got + 1
        BY <2>2, <3>1, <3>3, <3>5
      <4> HIDE DEF q, n, m
      <4> QED
        BY <3>1, <4>1, <4>2, <4>3
    <3>6. reader.open => InOrder'
      <4> SUFFICES ASSUME reader.open PROVE InOrder'
        OBVIOUS
      <4> HIDE DEF q, n, m
      <4> QED
        BY <3>4, <3>5 DEF InOrder
    <3>7. InOrder'
      BY <2>2, <3>6 DEF InOrder
    <3>8. reader.open => (Ended' <=> Ended) /\ m - 1 <= n - 1
      <4>1. reader.open => (m - 1 < n - 1 <=> m < n) /\ m - 1 <= n - 1
        <5> HIDE DEF m, n, q
        <5> QED
          BY <3>1, <3>2
      <4> QED
        BY <3>4, <4>1 DEF Ended
    <3>9. reader.open => reader'.pushed - reader'.got <= Len(reader'.queue)
      BY <3>4, <3>8
    <3>10. reader.registered => reader.open
      BY DEF LiveInv, Known
    <3> HIDE DEF q, n, m
    <3> QED
      BY <1>1, <2>2, <3>4, <3>7, <3>8, <3>9, <3>10 DEF LiveInv, Buffer, StillWanted
  <2> QED
    BY <1>1, <2>1, <2>2
<1>8. Wakes'
  <2>1. CASE ~reader'.registered
    BY <2>1 DEF Wakes
  <2>2. CASE UNCHANGED stream /\ UNCHANGED <<reader.open, reader.id, reader.client,
                                             reader.registered, reader.watching, reader.pushed>>
    BY <1>0, <1>1, <2>2 DEF LiveInv, Wakes, Down
  <2> QED
    BY <1>1, <2>1, <2>2
<1>9. Same'
  <2>1. SameIdentity'
    BY <1>0, <1>1, NoneIsNoQuery DEF LiveInv, Same, SameIdentity, Resubscribed
  <2> QED
    BY <1>1, <2>1 DEF LiveInv, Same, Down
<1> QED
  BY <1>2, <1>3, <1>4, <1>5, <1>6, <1>7, <1>8, <1>9 DEF LiveInv

LEMMA KillLiveKeeps ==
  ASSUME LiveInv, KillLive
  PROVE  LiveInv'
<1>0. TypeInv /\ TypesOK
  BY Types DEF LiveInv
<1>r. reader' = reader \/ reader' = Released(reader, stream.live_id)
  BY DEF KillLive
<1>1. /\ UNCHANGED <<clients, queries, manager, stream, resub, start, stop, orphans, auth, named>>
      /\ stream.live_id # None
      /\ UNCHANGED <<reader.open, reader.id, reader.client, reader.watching, reader.parked,
                     reader.pushed, reader.got>>
      /\ kills \subseteq kills'
      /\ \A k \in kills' : k \in kills \/ (k \in KillType /\ k.by = "program" /\ k.id = stream.live_id /\ k.client = manager.cached)
      /\ manager.cached # None \/ kills' = kills
      /\ \/ UNCHANGED reader
         \/ ~reader'.registered /\ reader'.queue = Append(reader.queue, End)
  <2>1. /\ Kill("program", stream.live_id) /\ stream.live_id # None /\ UNCHANGED <<clients, queries, manager, stream, resub, start, stop, orphans, auth, named>>
    BY DEF KillLive, server
  <2>2. "program" \in Callers /\ stream.live_id \in Nat /\ reader.id \in Nat
    BY <1>0 DEF Callers, TypesOK
  <2>3. /\ kills \subseteq kills' /\ (manager.cached # None \/ kills' = kills)
        /\ \A k \in kills' : k \in kills \/ (k \in KillType /\ k.by = "program" /\ k.id = stream.live_id /\ k.client = manager.cached)
    BY <1>0, <2>1, <2>2, KillSent DEF Served
  <2>4. /\ UNCHANGED <<reader.open, reader.id, reader.client, reader.watching, reader.parked,
                       reader.pushed, reader.got>>
        /\ UNCHANGED reader \/ (~reader'.registered /\ reader'.queue = Append(reader.queue, End))
    <3>1. reader \in ReaderType
      BY <1>0 DEF TypeInv
    <3>2. CASE reader' = reader
      BY <3>2
    <3>3. CASE reader' = Released(reader, stream.live_id)
      BY <2>2, <3>1, <3>3, ReleasedIs
    <3> QED
      BY <1>r, <3>2, <3>3
  <2> QED
    BY <2>1, <2>3, <2>4
<1>2. TypeInv'
  <2>1. reader' \in ReaderType
    BY <1>0, <1>r, ReleasedIs DEF TypeInv, KillLive, TypesOK
  <2>2. kills' \subseteq KillType
    BY <1>0, <1>1 DEF TypeInv
  <2> QED
    BY <1>0, <1>1, <2>1, <2>2 DEF TypeInv
<1>3. Known'
  <2>1. stream.live_id \in DOMAIN queries /\ (manager.cached # None => manager.cached \in DOMAIN clients)
    <3>1. Known
      BY DEF LiveInv
    <3>2. stream.live_id \in DOMAIN queries
      BY <1>0, <1>1, IdsKnown
    <3> QED
      BY <1>0, <3>1, <3>2, CachedKnown
  <2> QED
    BY <1>0, <1>1, <2>1 DEF LiveInv, Known, Down
<1>4. Roles'
  <2>1. \A k \in kills' : k.by = "stop" => k \in kills
    BY <1>1
  <2> QED
    BY <1>1, <2>1 DEF LiveInv, Roles
<1>5. Asked(resub)'
  BY <1>0, <1>1 DEF LiveInv, Asked, Private, Down, Roles
<1>6. Asked(start)'
  BY <1>0, <1>1 DEF LiveInv, Asked, Private, Down, Roles
<1>7. Buffer'
  <2>1. CASE UNCHANGED reader
    BY <1>0, <1>1, <2>1 DEF LiveInv, Buffer, Ended, InOrder, StillWanted
  <2>2. CASE ~reader'.registered /\ reader'.queue = Append(reader.queue, End)
    BY <1>0, <1>1, <2>2, EndAppended DEF Buffer
  <2> QED
    BY <1>1, <2>1, <2>2
<1>8. Wakes'
  <2>1. CASE UNCHANGED reader
    BY <1>0, <1>1, <2>1 DEF LiveInv, Wakes, Down
  <2>2. CASE ~reader'.registered
    BY <2>2 DEF Wakes
  <2> QED
    BY <1>1, <2>1, <2>2
<1>9. Same'
  BY <1>0, <1>1 DEF LiveInv, Same, SameIdentity, Resubscribed, Down
<1> QED
  BY <1>2, <1>3, <1>4, <1>5, <1>6, <1>7, <1>8, <1>9 DEF LiveInv

LEMMA CloseKeeps ==
  ASSUME LiveInv, Close
  PROVE  LiveInv'
<1>0. TypeInv /\ TypesOK
  BY Types DEF LiveInv
<1>r. reader' = Released(reader, reader.id)
  BY DEF Close
<1>1. /\ UNCHANGED <<queries, stream, resub, start, stop, kills, orphans, auth, named>>
      /\ manager'.cached = None
      /\ UNCHANGED <<reader.open, reader.id, reader.client, reader.watching, reader.parked,
                     reader.pushed, reader.got>>
      /\ \/ UNCHANGED reader /\ ~reader.registered
         \/ ~reader'.registered /\ reader'.queue = Append(reader.queue, End)
      /\ clients' \in Seq(ClientType) /\ Len(clients') = Len(clients) /\ DOMAIN clients' = DOMAIN clients
      /\ \A c \in DOMAIN clients : clients'[c].stamp = clients[c].stamp /\ clients'[c].runs = clients[c].runs
      /\ \A c \in DOMAIN clients : (clients'[c].net = "down" <=> clients[c].net = "down") /\ clients'[c].net # "up"
  <2>1. /\ UNCHANGED <<queries, stream, resub, start, stop, kills, orphans, auth, named>>
        /\ manager.cached # None /\ manager' = [manager EXCEPT !.cached = None, !.lost = FALSE]
        /\ clients' = [clients EXCEPT ![manager.cached].net = IF @ = "up" THEN "closing" ELSE @]
    BY DEF Close, calls
  <2>2. manager'.cached = None
    BY <1>0, <2>1 DEF TypeInv, ManagerType
  <2>3. reader.id \in Nat
    BY <1>0 DEF TypesOK
  <2>4. /\ UNCHANGED <<reader.open, reader.id, reader.client, reader.watching, reader.parked,
                       reader.pushed, reader.got>>
        /\ (UNCHANGED reader /\ ~reader.registered) \/ (~reader'.registered /\ reader'.queue = Append(reader.queue, End))
    BY <1>0, <1>r, <2>3, ReleasedIs DEF TypeInv
  <2>5. manager.cached \in DOMAIN clients
    BY <1>0, <2>1, CachedKnown DEF LiveInv
  <2>6. /\ clients' \in Seq(ClientType) /\ Len(clients') = Len(clients) /\ DOMAIN clients' = DOMAIN clients
        /\ \A c \in DOMAIN clients : clients'[c].stamp = clients[c].stamp /\ clients'[c].runs = clients[c].runs
        /\ \A c \in DOMAIN clients : c # manager.cached => clients'[c] = clients[c]
        /\ clients'[manager.cached].net = IF clients[manager.cached].net = "up" THEN "closing" ELSE clients[manager.cached].net
    BY <1>0, <2>1, <2>5, NetChanged DEF TypeInv
  <2>7. \A c \in DOMAIN clients : clients[c].net = "up" => c = manager.cached
    BY DEF LiveInv, Roles
  <2>8. \A c \in DOMAIN clients : (clients'[c].net = "down" <=> clients[c].net = "down") /\ clients'[c].net # "up"
    BY <2>5, <2>6, <2>7
  <2> QED
    BY <2>1, <2>2, <2>4, <2>6, <2>8
<1>2. TypeInv'
  <2>1. reader' \in ReaderType
    BY <1>0, <1>r, ReleasedIs DEF TypeInv, TypesOK
  <2>2. manager' \in ManagerType
    BY <1>0 DEF TypeInv, Close, ManagerType, None
  <2> QED
    BY <1>0, <1>1, <2>1, <2>2 DEF TypeInv
<1>3. Known'
  <2>1. manager'.cached <= Len(clients')
    BY <1>0, <1>1, NoneKnown
  <2> QED
    BY <1>1, <2>1 DEF LiveInv, Known, Down
<1>4. Roles'
  BY <1>0, <1>1 DEF LiveInv, Roles
<1>5. Asked(resub)'
  BY <1>0, <1>1 DEF LiveInv, Asked, Private, Down, Roles, Known
<1>6. Asked(start)'
  BY <1>0, <1>1 DEF LiveInv, Asked, Private, Down, Roles, Known
<1>7. Buffer'
  <2>1. CASE UNCHANGED reader
    BY <1>0, <1>1, <2>1 DEF LiveInv, Buffer, Ended, InOrder, StillWanted
  <2>2. CASE ~reader'.registered /\ reader'.queue = Append(reader.queue, End)
    BY <1>0, <1>1, <2>2, EndAppended DEF Buffer
  <2> QED
    BY <1>1, <2>1, <2>2
<1>8. Wakes'
  <2>1. ~reader'.registered
    BY <1>1
  <2> QED
    BY <2>1 DEF Wakes
<1>9. Same'
  BY <1>0, <1>1 DEF LiveInv, Same, SameIdentity, Resubscribed, Down, Known
<1> QED
  BY <1>2, <1>3, <1>4, <1>5, <1>6, <1>7, <1>8, <1>9 DEF LiveInv

LEMMA DropKeeps ==
  ASSUME LiveInv, Drop
  PROVE  LiveInv'
<1>0. TypeInv /\ TypesOK
  BY Types DEF LiveInv
<1>1. /\ UNCHANGED <<manager, stream, reader, resub, start, stop, kills, orphans, auth, named>>
      /\ clients' \in Seq(ClientType) /\ Len(clients') = Len(clients) /\ DOMAIN clients' = DOMAIN clients
      /\ queries' \in Seq(QueryType) /\ Len(queries') = Len(queries) /\ DOMAIN queries' = DOMAIN queries
      /\ \A d \in DOMAIN clients : clients'[d] = clients[d] \/ (clients'[d].net = "down" /\ clients'[d].stamp = clients[d].stamp)
      /\ \A q \in DOMAIN queries : queries'[q].alive => queries'[q] = queries[q] /\ clients'[queries[q].client] = clients[queries[q].client]
      /\ \A q \in DOMAIN queries : queries[q].alive /\ ~queries'[q].alive => clients'[queries[q].client].net = "down"
  <2>1. PICK c \in DOMAIN clients :
          /\ clients' = [clients EXCEPT ![c].net = "down", ![c].runs = Configured]
          /\ queries' = [q \in DOMAIN queries |-> IF queries[q].client = c THEN Gone ELSE queries[q]]
          /\ UNCHANGED <<manager, stream, reader, resub, calls>>
    BY DEF Drop
  <2>2. /\ clients' \in Seq(ClientType) /\ Len(clients') = Len(clients) /\ DOMAIN clients' = DOMAIN clients
        /\ \A d \in DOMAIN clients : d # c => clients'[d] = clients[d]
        /\ clients'[c].net = "down" /\ clients'[c].stamp = clients[c].stamp
    BY <1>0, <2>1, ClientDropped DEF TypeInv
  <2>3. Gone \in QueryType /\ ~Gone.alive
    BY GoneIs
  <2>4. DOMAIN queries = 1 .. Len(queries) /\ Len(queries) \in Nat /\ \A q \in DOMAIN queries : queries[q] \in QueryType
    BY <1>0 DEF TypesOK
  <2>5. queries' \in Seq(QueryType) /\ Len(queries') = Len(queries) /\ DOMAIN queries' = DOMAIN queries
    BY <2>1, <2>3, <2>4
  <2>6. \A q \in DOMAIN queries : queries'[q] = IF queries[q].client = c THEN Gone ELSE queries[q]
    BY <2>1
  <2>7. \A q \in DOMAIN queries : queries[q].alive => queries[q].client \in DOMAIN clients
    BY DEF LiveInv, Known
  <2> QED
    BY <2>1, <2>2, <2>3, <2>5, <2>6, <2>7 DEF calls
<1>2. TypeInv'
  BY <1>0, <1>1 DEF TypeInv
<1>3. Known'
  <2>1. \A q \in DOMAIN queries : queries'[q].alive => queries'[q].client \in DOMAIN clients /\ clients'[queries'[q].client].net # "down"
    BY <1>1 DEF LiveInv, Known, Down
  <2> QED
    BY <1>1, <2>1 DEF LiveInv, Known, Down
<1>4. Roles'
  <2>1. \A d \in DOMAIN clients : clients'[d].net = "up" => clients[d].net = "up"
    BY <1>1
  <2>2. resub.pc # "off" => resub.old \in DOMAIN queries
    BY <1>0 DEF LiveInv, Known, Roles, TypesOK, None
  <2> QED
    BY <1>1, <2>1, <2>2 DEF LiveInv, Roles
<1>5. Asked(resub)'
  <2>1. resub.id # None => resub.pc = "selecting" /\ resub.id \in DOMAIN queries /\ resub.client \in DOMAIN clients
    BY <1>0, IdsKnown DEF LiveInv, Known, Asked
  <2> QED
    BY <1>0, <1>1, <2>1 DEF LiveInv, Asked, Private, Down
<1>6. Asked(start)'
  <2>1. start.id # None => start.pc = "selecting" /\ start.id \in DOMAIN queries /\ start.client \in DOMAIN clients
    BY <1>0, IdsKnown DEF LiveInv, Known, Asked
  <2> QED
    BY <1>0, <1>1, <2>1 DEF LiveInv, Asked, Private, Down
<1>7. Buffer'
  <2>1. reader.registered => reader.id \in DOMAIN queries
    BY <1>0, IdsKnown DEF LiveInv, Known
  <2> QED
    BY <1>0, <1>1, <2>1 DEF LiveInv, Buffer, Ended, InOrder, StillWanted
<1>8. Wakes'
  <2>1. reader.registered => reader.id \in DOMAIN queries
    BY <1>0, IdsKnown DEF LiveInv, Known
  <2>2. reader.watching /\ Down(reader.client) => Down(reader.client)'
    BY <1>1 DEF LiveInv, Known, Down
  <2>3. /\ reader.registered /\ queries'[reader.id].alive => queries[reader.id].alive /\ queries'[reader.id] = queries[reader.id]
        /\ reader.registered /\ queries[reader.id].alive /\ ~queries'[reader.id].alive => reader.watching /\ Down(reader.client)'
    BY <1>1, <2>1 DEF LiveInv, Wakes, Down
  <2> QED
    BY <1>1, <2>2, <2>3 DEF LiveInv, Wakes
<1>9. Same'
  <2>1. \A d \in DOMAIN clients : clients'[d].net # "down" => clients'[d] = clients[d]
    BY <1>1
  <2>2. /\ resub.pc = "selecting" => resub.client \in DOMAIN clients
        /\ start.pc = "selecting" => start.client \in DOMAIN clients
        /\ auth.pc = "signed" => auth.client \in DOMAIN clients
        /\ resub.id # None => resub.id \in DOMAIN queries
        /\ start.id # None => start.id \in DOMAIN queries
    BY <1>0, IdsKnown DEF LiveInv, Known
  <2>3. SameIdentity'
    BY <1>1 DEF LiveInv, Same, SameIdentity, Resubscribed
  <2>4. \A d \in DOMAIN clients : clients'[d].stamp = clients[d].stamp
    BY <1>1
  <2> QED
    BY <1>1, <2>1, <2>2, <2>3, <2>4 DEF LiveInv, Same, Down
<1> QED
  BY <1>2, <1>3, <1>4, <1>5, <1>6, <1>7, <1>8, <1>9 DEF LiveInv

(* The server answers a call of kill(): the call is otherwise the same.    *)
Answers(k, answer) ==
  /\ k \in kills /\ k.answer = "none"
  /\ kills' = (kills \ {k}) \cup {[k EXCEPT !.answer = answer]}

KillsStay(k, answer) ==
  /\ \E j \in kills' : j.id = k.id /\ j.answer = answer
  /\ \A j \in kills' : \E i \in kills : j.id = i.id /\ j.by = i.by /\ j.client = i.client
  /\ \A i \in kills : \E j \in kills' : j.id = i.id /\ j.by = i.by /\ (i.answer # "none" => j.answer # "none")
  /\ \A i, j \in kills' : i.by = "stop" /\ j.by = "stop" => i = j

LEMMA AnswersIs ==
  ASSUME LiveInv, NEW k, NEW answer \in {"done", "refused"}, Answers(k, answer)
  PROVE  k \in kills /\ k.id \in DOMAIN queries /\ kills' \subseteq KillType /\ KillsStay(k, answer)
<1>1. k \in kills /\ k \in KillType /\ k.answer = "none" /\ kills \subseteq KillType /\ k.id \in DOMAIN queries
  BY DEF Answers, LiveInv, TypeInv, Known
<1>2. PICK new : new = [k EXCEPT !.answer = answer]
  OBVIOUS
<1>3. new \in KillType /\ new.id = k.id /\ new.by = k.by /\ new.client = k.client /\ new.answer = answer
  BY <1>1, <1>2 DEF KillType
<1>4. kills' = (kills \ {k}) \cup {new}
  BY <1>2 DEF Answers
<1>5. \A i, j \in kills : i.by = "stop" /\ j.by = "stop" => i = j
  BY DEF LiveInv, Roles
<1>6. \A i, j \in kills' : i.by = "stop" /\ j.by = "stop" => i = j
  BY <1>1, <1>3, <1>4, <1>5
<1>7. \A i \in kills : \E j \in kills' : j.id = i.id /\ j.by = i.by /\ (i.answer # "none" => j.answer # "none")
  BY <1>1, <1>3, <1>4
<1> QED
  BY <1>1, <1>3, <1>4, <1>6, <1>7 DEF KillsStay

LEMMA RefusalKeeps ==
  ASSUME LiveInv, NEW k, Answers(k, "refused"),
         UNCHANGED <<clients, queries, manager, stream, reader, resub, start, stop, orphans, auth,
                     named>>
  PROVE  LiveInv'
<1>0. TypeInv /\ TypesOK
  BY Types DEF LiveInv
<1>1. /\ KillsStay(k, "refused")
  BY AnswersIs
<1>2. TypeInv'
  <2>1. kills' \subseteq KillType
    BY AnswersIs
  <2> QED
    BY <1>0, <2>1 DEF TypeInv
<1>3. Known'
  BY <1>0, <1>1 DEF LiveInv, Known, Down, KillsStay
<1>4. Roles'
  BY <1>0, <1>1 DEF LiveInv, Roles, KillsStay
<1>5. Asked(resub)'
  BY <1>0, <1>1 DEF LiveInv, Asked, Private, Down, Roles, KillsStay
<1>6. Asked(start)'
  BY <1>0, <1>1 DEF LiveInv, Asked, Private, Down, Roles, KillsStay
<1>7. Buffer'
  BY <1>0, <1>1 DEF LiveInv, Buffer, Ended, InOrder, StillWanted, KillsStay
<1>8. Wakes'
  BY <1>0, <1>1 DEF LiveInv, Wakes, Down, KillsStay
<1>9. Same'
  BY <1>0, <1>1 DEF LiveInv, Same, SameIdentity, Resubscribed, Down, KillsStay
<1> QED
  BY <1>2, <1>3, <1>4, <1>5, <1>6, <1>7, <1>8, <1>9 DEF LiveInv

LEMMA KilledKeeps ==
  ASSUME LiveInv, NEW k, Answers(k, "done"), queries' = [queries EXCEPT ![k.id] = Gone],
         \/ UNCHANGED reader
         \/ /\ queries[k.id].alive /\ reader.registered /\ reader.id = k.id
            /\ reader' = [reader EXCEPT !.queue = Append(@, End)],
         UNCHANGED <<clients, manager, stream, resub, start, stop, orphans, auth, named>>
  PROVE  LiveInv'
<1>0. TypeInv /\ TypesOK
  BY Types DEF LiveInv
<1>k. k \in kills
  BY DEF Answers
<1>1. /\ k.id \in DOMAIN queries /\ queries' \in Seq(QueryType) /\ Len(queries') = Len(queries) /\ DOMAIN queries' = DOMAIN queries
      /\ \A q \in DOMAIN queries : q # k.id => queries'[q] = queries[q]
      /\ ~queries'[k.id].alive /\ (queries'[k.id].alive => queries'[k.id] = queries[k.id])
      /\ UNCHANGED <<reader.open, reader.id, reader.client, reader.registered, reader.watching,
                     reader.parked, reader.pushed, reader.got>>
      /\ \/ UNCHANGED reader
         \/ reader'.queue = Append(reader.queue, End) /\ queries[k.id].alive /\ reader.registered /\ reader.id = k.id
      /\ KillsStay(k, "done")
  <2>1. /\ k.id \in DOMAIN queries
        /\ KillsStay(k, "done")
    BY AnswersIs
  <2>2. /\ queries' \in Seq(QueryType) /\ Len(queries') = Len(queries) /\ DOMAIN queries' = DOMAIN queries
        /\ \A q \in DOMAIN queries : q # k.id => queries'[q] = queries[q]
        /\ ~queries'[k.id].alive
    BY <1>0, <2>1, GoneIs DEF TypeInv, TypesOK
  <2>3. /\ UNCHANGED <<reader.open, reader.id, reader.client, reader.registered, reader.watching,
                       reader.parked, reader.pushed, reader.got>>
        /\ \/ UNCHANGED reader
           \/ reader'.queue = Append(reader.queue, End) /\ queries[k.id].alive /\ reader.registered /\ reader.id = k.id
    BY <1>0 DEF TypeInv, ReaderType
  <2> QED
    BY <2>1, <2>2, <2>3
<1>2. TypeInv'
  <2>1. kills' \subseteq KillType
    BY AnswersIs
  <2>2. reader' \in ReaderType
    <3>1. Append(reader.queue, End) \in Seq(Int) /\ reader \in ReaderType
      BY <1>0, Queued DEF TypesOK, TypeInv, End
    <3> QED
      BY <3>1 DEF ReaderType
  <2> QED
    BY <1>0, <1>1, <2>1, <2>2 DEF TypeInv
<1>3. Known'
  <2>1. \A q \in DOMAIN queries : queries'[q].alive => queries'[q] = queries[q]
    BY <1>1
  <2> QED
    BY <1>1, <2>1 DEF LiveInv, Known, Down, KillsStay
<1>4. Roles'
  <2>1. resub.pc # "off" => resub.old \in DOMAIN queries
    BY <1>0 DEF LiveInv, Known, Roles, TypesOK, None
  <2>2. /\ \A x \in kills' : x.by = "stop" => stop' = "killing" /\ stream'.live_id \in {None, x.id}
        /\ \A x, y \in kills' : x.by = "stop" /\ y.by = "stop" => x = y
    BY <1>1 DEF LiveInv, Roles, KillsStay
  <2>3. resub'.pc # "off" => /\ resub'.old # None /\ ~queries'[resub'.old].alive
                             /\ reader'.open => reader'.id = resub'.old
                             /\ reader'.registered => stream'.live_id # None
    BY <1>1, <2>1 DEF LiveInv, Roles
  <2> QED
    BY <1>1, <2>2, <2>3 DEF LiveInv, Roles
<1>5. Asked(resub)'
  <2>1. resub.id # None => resub.id # k.id /\ resub.id \in DOMAIN queries
    BY <1>0, <1>k DEF LiveInv, Asked, Private, Known, TypesOK, None
  <2> QED
    BY <1>1, <2>1 DEF LiveInv, Asked, Private, Down, KillsStay
<1>6. Asked(start)'
  <2>1. start.id # None => start.id # k.id /\ start.id \in DOMAIN queries
    BY <1>0, <1>k DEF LiveInv, Asked, Private, Known, TypesOK, None
  <2> QED
    BY <1>1, <2>1 DEF LiveInv, Asked, Private, Down, KillsStay
<1>7. Buffer'
  <2>1. reader.registered => reader.id \in DOMAIN queries /\ reader.open
    BY <1>0 DEF LiveInv, Known, TypesOK, None
  <2>2. CASE UNCHANGED reader
    BY <1>1, <2>1, <2>2 DEF LiveInv, Buffer, Ended, InOrder, StillWanted, KillsStay
  <2>3. CASE reader'.queue = Append(reader.queue, End) /\ queries[k.id].alive /\ reader.registered /\ reader.id = k.id
    <3>1. /\ InOrder' /\ reader'.queue # <<>> /\ Ended' /\ reader'.got <= reader'.pushed
          /\ reader'.pushed - reader'.got <= Len(reader'.queue)
      BY <1>0, <1>1, <2>1, <2>3, EndAppended
    <3>2. \E j \in kills' : j.id = reader'.id /\ j.answer # "none"
      BY <1>1, <2>3 DEF KillsStay
    <3>3. resub.id # None => resub.pc # "off"
      BY DEF LiveInv, Asked
    <3>4. resub.id # None => ~StillWanted(resub.old)
      BY <2>3, <3>3 DEF LiveInv, Roles, StillWanted
    <3>5. resub.id # None => ~StillWanted(resub.old)'
      BY <1>1, <3>4 DEF StillWanted
    <3> QED
      BY <1>1, <2>1, <2>3, <3>1, <3>2, <3>5 DEF Buffer
  <2> QED
    BY <1>1, <2>2, <2>3
<1>8. Wakes'
  <2>1. reader.registered => reader.id \in DOMAIN queries
    BY <1>0, IdsKnown DEF LiveInv, Known
  <2>2. reader.registered /\ queries'[reader.id].alive => queries'[reader.id] = queries[reader.id]
    BY <1>1, <2>1
  <2>3. /\ reader.registered /\ queries[reader.id].alive /\ ~queries'[reader.id].alive => \E j \in kills' : j.id = reader.id
        /\ (\E i \in kills : i.id = reader.id) => \E j \in kills' : j.id = reader.id
    BY <1>1, <2>1 DEF KillsStay
  <2> QED
    BY <1>1, <2>2, <2>3 DEF LiveInv, Wakes, Down
<1>9. Same'
  <2>1. \A q \in DOMAIN queries : queries'[q].alive => queries'[q] = queries[q]
    BY <1>1
  <2>2. (resub.id # None => resub.id \in DOMAIN queries) /\ (start.id # None => start.id \in DOMAIN queries)
    BY <1>0, IdsKnown
  <2>3. SameIdentity'
    BY <1>1, <2>1 DEF LiveInv, Same, SameIdentity, Resubscribed
  <2> QED
    BY <1>1, <2>1, <2>2, <2>3 DEF LiveInv, Same, Down
<1> QED
  BY <1>2, <1>3, <1>4, <1>5, <1>6, <1>7, <1>8, <1>9 DEF LiveInv

LEMMA ServerKillsKeeps ==
  ASSUME LiveInv, NEW by \in Callers, ServerKills(by)
  PROVE  LiveInv'
<1>1. PICK k \in kills :
        /\ k.answer = "none"
        /\ \/ /\ queries' = [queries EXCEPT ![k.id] = Gone]
              /\ kills' = (kills \ {k}) \cup {[k EXCEPT !.answer = "done"]}
              /\ \/ UNCHANGED reader
                 \/ /\ queries[k.id].alive /\ reader.registered /\ reader.id = k.id
                    /\ reader' = [reader EXCEPT !.queue = Append(@, End)]
           \/ /\ kills' = (kills \ {k}) \cup {[k EXCEPT !.answer = "refused"]}
              /\ UNCHANGED <<queries, reader>>
        /\ UNCHANGED <<clients, manager, stream, resub, start, stop, orphans, auth, named>>
  BY DEF ServerKills
<1>2. CASE /\ queries' = [queries EXCEPT ![k.id] = Gone]
           /\ kills' = (kills \ {k}) \cup {[k EXCEPT !.answer = "done"]}
           /\ \/ UNCHANGED reader
              \/ /\ queries[k.id].alive /\ reader.registered /\ reader.id = k.id
                 /\ reader' = [reader EXCEPT !.queue = Append(@, End)]
  <2>1. Answers(k, "done")
    BY <1>1, <1>2 DEF Answers
  <2>2. CASE UNCHANGED reader
    BY <1>1, <1>2, <2>1, <2>2, KilledKeeps
  <2>3. CASE /\ queries[k.id].alive /\ reader.registered /\ reader.id = k.id
             /\ reader' = [reader EXCEPT !.queue = Append(@, End)]
    BY <1>1, <1>2, <2>1, <2>3, KilledKeeps
  <2> QED
    BY <1>2, <2>2, <2>3
<1>3. CASE kills' = (kills \ {k}) \cup {[k EXCEPT !.answer = "refused"]} /\ UNCHANGED <<queries, reader>>
  <2>1. Answers(k, "refused")
    BY <1>1, <1>3 DEF Answers
  <2> QED
    BY <1>1, <1>3, <2>1, RefusalKeeps
<1> QED
  BY <1>1, <1>2, <1>3

(* A LIVE SELECT is answered to its caller, with a uuid nobody has yet.    *)
AnsweredTo(t, u) ==
  /\ t.pc = "selecting" /\ t.id = None /\ u.id = Len(queries) + 1
  /\ u.pc = t.pc /\ u.old = t.old /\ u.client = t.client /\ u.raced = t.raced /\ u.cancelled = t.cancelled
  /\ ~Down(t.client)
  /\ queries'[Len(queries) + 1].client = t.client
  /\ queries'[Len(queries) + 1].runs = clients[t.client].runs
  /\ queries'[Len(queries) + 1].raced = t.raced

OneMore ==
  /\ queries' \in Seq(QueryType) /\ Len(queries') = Len(queries) + 1 /\ DOMAIN queries' = 1 .. Len(queries) + 1
  /\ \A q \in DOMAIN queries : queries'[q] = queries[q] /\ q # Len(queries) + 1
  /\ queries'[Len(queries) + 1].alive
  /\ queries'[Len(queries) + 1].client \in DOMAIN clients /\ ~Down(queries'[Len(queries) + 1].client)
  /\ \A k \in kills : k.answer = "none"

LEMMA StartsIs ==
  ASSUME TypeInv, TypesOK, NEW t, Starts(t), t.client \in DOMAIN clients, t.raced \in BOOLEAN
  PROVE  /\ OneMore /\ ~Down(t.client)
         /\ queries'[Len(queries) + 1].client = t.client
         /\ queries'[Len(queries) + 1].runs = clients[t.client].runs
         /\ queries'[Len(queries) + 1].raced = t.raced
<1> DEFINE new == [client |-> t.client, alive |-> TRUE, runs |-> clients[t.client].runs, raced |-> t.raced]
           n == Len(queries)
<1>1. /\ new \in QueryType /\ new.alive = TRUE /\ new.client = t.client
      /\ new.runs = clients[t.client].runs /\ new.raced = t.raced
  <2>1. clients[t.client] \in ClientType /\ t.client \in Nat
    BY DEF TypesOK
  <2>2. clients[t.client].runs \in Identities
    BY <2>1 DEF ClientType
  <2> QED
    BY <2>1, <2>2 DEF QueryType
<1>2. queries' = Append(queries, new) /\ ~Down(t.client) /\ Settled
  BY DEF Starts
<1> HIDE DEF new
<1>3. queries \in Seq(QueryType)
  BY DEF TypeInv
<1>4. /\ queries' \in Seq(QueryType) /\ Len(queries') = n + 1 /\ DOMAIN queries' = 1 .. n + 1
      /\ \A q \in 1 .. n : queries'[q] = queries[q]
      /\ queries'[n + 1] = new
  BY <1>1, <1>2, <1>3, AppendProperties
<1>5. DOMAIN queries = 1 .. n /\ n \in Nat
  BY <1>3
<1>6. \A q \in DOMAIN queries : queries'[q] = queries[q] /\ q # n + 1
  BY <1>4, <1>5
<1>7. \A k \in kills : k.answer = "none"
  BY <1>2 DEF Settled
<1> QED
  BY <1>1, <1>2, <1>4, <1>6, <1>7 DEF OneMore, Down

LEMMA ResubAnswered ==
  ASSUME LiveInv, OneMore, AnsweredTo(resub, resub'), resub' \in TaskType,
         UNCHANGED <<clients, manager, stream, reader, stop, kills, auth, named>>,
         UNCHANGED <<start, orphans>>
  PROVE  LiveInv'
<1>0. TypeInv /\ TypesOK
  BY Types DEF LiveInv
<1>1. /\ OneMore /\ AnsweredTo(resub, resub')
      /\ resub' \in TaskType
      /\ UNCHANGED <<clients, manager, stream, reader, stop, kills, auth, named>>
      /\ UNCHANGED <<start, orphans>>
  OBVIOUS
<1>2. TypeInv'
  BY <1>0, <1>1 DEF TypeInv, OneMore
<1>3. Known'
  <2>1. Len(queries) \in Nat /\ DOMAIN queries = 1 .. Len(queries)
    BY <1>0 DEF TypesOK
  <2>2. /\ stream.live_id \in Nat /\ reader.id \in Nat /\ resub.id \in Nat /\ resub.old \in Nat /\ start.id \in Nat
        /\ \A o \in orphans : o.id \in Nat
    BY <1>0 DEF TypesOK, OrphanType
  <2>3. \A q \in DOMAIN queries' : queries'[q].alive => queries'[q].client \in DOMAIN clients /\ ~Down(queries'[q].client)
    <3>1. \A q \in DOMAIN queries' : q \in DOMAIN queries \/ q = Len(queries) + 1
      BY <1>1, <2>1 DEF OneMore
    <3> QED
      BY <1>1, <3>1 DEF LiveInv, Known, OneMore
  <2>4. \A k \in kills : k.id \in DOMAIN queries'
    BY <1>1, <2>1 DEF LiveInv, Known, OneMore
  <2>5. Len(queries') = Len(queries) + 1
    BY <1>1 DEF OneMore
  <2>6. /\ manager'.cached <= Len(clients') /\ stream'.live_id <= Len(queries') /\ reader'.id <= Len(queries')
        /\ resub'.id <= Len(queries') /\ resub'.old <= Len(queries') /\ start'.id <= Len(queries')
        /\ \A o \in orphans' : o.id <= Len(queries') /\ o.client \in DOMAIN clients'
    BY <1>1, <2>1, <2>2, <2>5 DEF LiveInv, Known, AnsweredTo
  <2>7. (\A q \in DOMAIN queries : queries[q].alive => queries[q].client \in DOMAIN clients /\ ~Down(queries[q].client))'
    BY <1>1, <2>3 DEF Down
  <2>8. /\ resub'.pc = "selecting" => resub'.client \in DOMAIN clients'
        /\ start'.pc = "selecting" => start'.client \in DOMAIN clients'
        /\ auth'.pc # "off" => auth'.client \in DOMAIN clients'
    BY <1>1 DEF LiveInv, Known, AnsweredTo
  <2>9. /\ \A x \in kills' : x.id \in DOMAIN queries' /\ x.client \in DOMAIN clients'
        /\ reader'.registered => reader'.open /\ reader'.id # None
        /\ reader'.watching => reader'.client \in DOMAIN clients'
    BY <1>1, <2>4 DEF LiveInv, Known
  <2> QED
    BY <2>6, <2>7, <2>8, <2>9 DEF Known
<1>4. Roles'
  <2>1. resub.pc # "off" => resub.old \in DOMAIN queries
    BY <1>0 DEF LiveInv, Known, Roles, TypesOK, None
  <2> QED
    BY <1>1, <2>1 DEF LiveInv, Roles, OneMore, AnsweredTo
<1>5. Asked(resub)'
  <2>1. /\ stream.live_id \in Nat /\ stream.live_id <= Len(queries) /\ Len(queries) \in Nat
        /\ \A k \in kills : k.id \in 1 .. Len(queries)
        /\ \A o \in orphans : o.id \in Nat /\ o.id <= Len(queries)
    BY <1>0 DEF LiveInv, Known, TypesOK, OrphanType
  <2>0. Len(queries) + 1 # None
    BY <1>0 DEF TypesOK, None
  <2>2. resub'.id = Len(queries) + 1
    BY <1>1 DEF AnsweredTo
  <2>3. /\ stream'.live_id # resub'.id
        /\ \A k \in kills' : k.id # resub'.id
        /\ \A o \in orphans' : o.id # resub'.id
    BY <1>1, <2>1, <2>2
  <2>4. clients'[resub'.client].net # "down" /\ queries'[resub'.id].alive /\ queries'[resub'.id].client = resub'.client /\ resub'.pc = "selecting"
    BY <1>1, <2>2 DEF AnsweredTo, OneMore, Down
  <2> QED
    BY <2>3, <2>4 DEF Asked, Private, Down
<1>6. Asked(start)'
  <2>1. start.id # None => start.id \in DOMAIN queries
    BY <1>0, IdsKnown
  <2> QED
    BY <1>1, <2>1 DEF LiveInv, Asked, Private, Down, OneMore
<1>7. Buffer'
  <2>1. reader.registered => reader.id \in DOMAIN queries
    BY <1>0, IdsKnown DEF LiveInv, Known
  <2>2. reader.registered /\ Ended /\ ~resub.cancelled => FALSE
    BY <1>1 DEF LiveInv, Buffer, Roles, OneMore, AnsweredTo
  <2> QED
    BY <1>1, <2>1, <2>2 DEF LiveInv, Buffer, Ended, InOrder, OneMore, AnsweredTo
<1>8. Wakes'
  <2>1. reader.registered => reader.id \in DOMAIN queries
    BY <1>0, IdsKnown DEF LiveInv, Known
  <2> QED
    BY <1>1, <2>1 DEF LiveInv, Wakes, Down, OneMore, AnsweredTo
<1>9. Same'
  <2>1. SameIdentity'
    <3>0. stream.live_id \in Nat /\ stream.live_id <= Len(queries) /\ Len(queries) \in Nat
      BY <1>0 DEF LiveInv, Known, TypesOK
    <3>1. \A q \in DOMAIN queries' : q = stream.live_id => q \in DOMAIN queries
      BY <1>0, <1>1, <3>0 DEF OneMore, TypesOK
    <3> QED
      BY <1>1, <3>1 DEF LiveInv, Same, SameIdentity, Resubscribed, OneMore
  <2>2. (resub.id # None => resub.id \in DOMAIN queries) /\ (start.id # None => start.id \in DOMAIN queries)
    BY <1>0, IdsKnown
  <2>3. resub.client \in DOMAIN clients
    BY <1>1 DEF LiveInv, Known, AnsweredTo
  <2>4. ~resub.cancelled /\ ~resub.raced => clients[resub.client].runs = stream.identity.as
    <3>1. ~resub.cancelled /\ ~resub.raced => auth.pc = "off" /\ clients[resub.client].stamp = stream.identity /\ stream.identity.kept
      BY <1>1 DEF LiveInv, Same, AnsweredTo
    <3>2. clients[resub.client].net # "down"
      BY <1>1 DEF AnsweredTo, Down
    <3> QED
      BY <2>3, <3>1, <3>2 DEF LiveInv, Same
  <2>5. resub'.id = Len(queries) + 1 /\ queries'[resub'.id].runs = clients[resub.client].runs /\ queries'[resub'.id].raced = resub.raced
    BY <1>1 DEF AnsweredTo
  <2>6. /\ resub'.pc = "selecting" /\ resub'.cancelled = resub.cancelled /\ resub'.id # None /\ resub.pc = "selecting"
    BY <1>0, <1>1 DEF AnsweredTo, TypesOK, None
  <2> QED
    BY <1>1, <2>1, <2>2, <2>4, <2>5, <2>6 DEF LiveInv, Same, Down, OneMore
<1> QED
  BY <1>2, <1>3, <1>4, <1>5, <1>6, <1>7, <1>8, <1>9 DEF LiveInv

LEMMA StartAnswered ==
  ASSUME LiveInv, OneMore, AnsweredTo(start, start'), start' \in TaskType,
         UNCHANGED <<clients, manager, stream, reader, stop, kills, auth, named>>,
         UNCHANGED <<resub, orphans>>
  PROVE  LiveInv'
<1>0. TypeInv /\ TypesOK
  BY Types DEF LiveInv
<1>1. /\ OneMore /\ AnsweredTo(start, start')
      /\ start' \in TaskType
      /\ UNCHANGED <<clients, manager, stream, reader, stop, kills, auth, named>>
      /\ UNCHANGED <<resub, orphans>>
  OBVIOUS
<1>2. TypeInv'
  BY <1>0, <1>1 DEF TypeInv, OneMore
<1>3. Known'
  <2>1. Len(queries) \in Nat /\ DOMAIN queries = 1 .. Len(queries)
    BY <1>0 DEF TypesOK
  <2>2. /\ stream.live_id \in Nat /\ reader.id \in Nat /\ resub.id \in Nat /\ resub.old \in Nat /\ start.id \in Nat
        /\ \A o \in orphans : o.id \in Nat
    BY <1>0 DEF TypesOK, OrphanType
  <2>3. \A q \in DOMAIN queries' : queries'[q].alive => queries'[q].client \in DOMAIN clients /\ ~Down(queries'[q].client)
    <3>1. \A q \in DOMAIN queries' : q \in DOMAIN queries \/ q = Len(queries) + 1
      BY <1>1, <2>1 DEF OneMore
    <3> QED
      BY <1>1, <3>1 DEF LiveInv, Known, OneMore
  <2>4. \A k \in kills : k.id \in DOMAIN queries'
    BY <1>1, <2>1 DEF LiveInv, Known, OneMore
  <2>5. Len(queries') = Len(queries) + 1
    BY <1>1 DEF OneMore
  <2>6. /\ manager'.cached <= Len(clients') /\ stream'.live_id <= Len(queries') /\ reader'.id <= Len(queries')
        /\ resub'.id <= Len(queries') /\ resub'.old <= Len(queries') /\ start'.id <= Len(queries')
        /\ \A o \in orphans' : o.id <= Len(queries') /\ o.client \in DOMAIN clients'
    BY <1>1, <2>1, <2>2, <2>5 DEF LiveInv, Known, AnsweredTo
  <2>7. (\A q \in DOMAIN queries : queries[q].alive => queries[q].client \in DOMAIN clients /\ ~Down(queries[q].client))'
    BY <1>1, <2>3 DEF Down
  <2>8. /\ resub'.pc = "selecting" => resub'.client \in DOMAIN clients'
        /\ start'.pc = "selecting" => start'.client \in DOMAIN clients'
        /\ auth'.pc # "off" => auth'.client \in DOMAIN clients'
    BY <1>1 DEF LiveInv, Known, AnsweredTo
  <2>9. /\ \A x \in kills' : x.id \in DOMAIN queries' /\ x.client \in DOMAIN clients'
        /\ reader'.registered => reader'.open /\ reader'.id # None
        /\ reader'.watching => reader'.client \in DOMAIN clients'
    BY <1>1, <2>4 DEF LiveInv, Known
  <2> QED
    BY <2>6, <2>7, <2>8, <2>9 DEF Known
<1>4. Roles'
  <2>1. resub.pc # "off" => resub.old \in DOMAIN queries
    BY <1>0 DEF LiveInv, Known, Roles, TypesOK, None
  <2> QED
    BY <1>1, <2>1 DEF LiveInv, Roles, OneMore, AnsweredTo
<1>5. Asked(resub)'
  <2>1. resub.id # None => resub.id \in DOMAIN queries
    BY <1>0, IdsKnown
  <2> QED
    BY <1>1, <2>1 DEF LiveInv, Asked, Private, Down, OneMore
<1>6. Asked(start)'
  <2>1. /\ stream.live_id \in Nat /\ stream.live_id <= Len(queries) /\ Len(queries) \in Nat
        /\ \A k \in kills : k.id \in 1 .. Len(queries)
        /\ \A o \in orphans : o.id \in Nat /\ o.id <= Len(queries)
    BY <1>0 DEF LiveInv, Known, TypesOK, OrphanType
  <2>0. Len(queries) + 1 # None
    BY <1>0 DEF TypesOK, None
  <2>2. start'.id = Len(queries) + 1
    BY <1>1 DEF AnsweredTo
  <2>3. /\ stream'.live_id # start'.id
        /\ \A k \in kills' : k.id # start'.id
        /\ \A o \in orphans' : o.id # start'.id
    BY <1>1, <2>1, <2>2
  <2>4. clients'[start'.client].net # "down" /\ queries'[start'.id].alive /\ queries'[start'.id].client = start'.client /\ start'.pc = "selecting"
    BY <1>1, <2>2 DEF AnsweredTo, OneMore, Down
  <2> QED
    BY <2>3, <2>4 DEF Asked, Private, Down
<1>7. Buffer'
  <2>1. reader.registered => reader.id \in DOMAIN queries
    BY <1>0, IdsKnown DEF LiveInv, Known
  <2> QED
    BY <1>1, <2>1 DEF LiveInv, Buffer, Ended, InOrder, StillWanted, OneMore
<1>8. Wakes'
  <2>1. reader.registered => reader.id \in DOMAIN queries
    BY <1>0, IdsKnown DEF LiveInv, Known
  <2> QED
    BY <1>1, <2>1 DEF LiveInv, Wakes, Down, OneMore, AnsweredTo
<1>9. Same'
  <2>1. SameIdentity'
    <3>0. stream.live_id \in Nat /\ stream.live_id <= Len(queries) /\ Len(queries) \in Nat
      BY <1>0 DEF LiveInv, Known, TypesOK
    <3>1. \A q \in DOMAIN queries' : q = stream.live_id => q \in DOMAIN queries
      BY <1>0, <1>1, <3>0 DEF OneMore, TypesOK
    <3> QED
      BY <1>1, <3>1 DEF LiveInv, Same, SameIdentity, Resubscribed, OneMore
  <2>2. (resub.id # None => resub.id \in DOMAIN queries) /\ (start.id # None => start.id \in DOMAIN queries)
    BY <1>0, IdsKnown
  <2>3. start.client \in DOMAIN clients /\ auth.pc = "off"
    BY <1>1 DEF LiveInv, Known, Roles, AnsweredTo
  <2>4. stream.identity.kept => clients[start.client].runs = stream.identity.as
    <3>1. clients[start.client].stamp = stream.identity
      BY <1>1 DEF LiveInv, Same, AnsweredTo
    <3>2. clients[start.client].net # "down"
      BY <1>1 DEF AnsweredTo, Down
    <3> QED
      BY <2>3, <3>1, <3>2 DEF LiveInv, Same
  <2>5. start'.id = Len(queries) + 1 /\ queries'[start'.id].runs = clients[start.client].runs
    BY <1>1 DEF AnsweredTo
  <2>6. start'.id # None
    BY <1>0, <2>5 DEF TypesOK, None
  <2> QED
    BY <1>1, <2>1, <2>2, <2>4, <2>5, <2>6 DEF LiveInv, Same, Down, OneMore
<1> QED
  BY <1>2, <1>3, <1>4, <1>5, <1>6, <1>7, <1>8, <1>9 DEF LiveInv

LEMMA OrphanAnswered ==
  ASSUME LiveInv, OneMore, orphans' \subseteq OrphanType,
         \A o \in orphans' : o \in orphans \/ (o.id = Len(queries) + 1 /\ o.client \in DOMAIN clients),
         UNCHANGED <<clients, manager, stream, reader, stop, kills, auth, named>>,
         UNCHANGED <<start, resub>>
  PROVE  LiveInv'
<1>0. TypeInv /\ TypesOK
  BY Types DEF LiveInv
<1>1. /\ OneMore
      /\ orphans' \subseteq OrphanType
      /\ \A o \in orphans' : o \in orphans \/ (o.id = Len(queries) + 1 /\ o.client \in DOMAIN clients)
      /\ UNCHANGED <<clients, manager, stream, reader, stop, kills, auth, named>>
      /\ UNCHANGED <<start, resub>>
  OBVIOUS
<1>2. TypeInv'
  BY <1>0, <1>1 DEF TypeInv, OneMore
<1>3. Known'
  <2>1. Len(queries) \in Nat /\ DOMAIN queries = 1 .. Len(queries)
    BY <1>0 DEF TypesOK
  <2>2. /\ stream.live_id \in Nat /\ reader.id \in Nat /\ resub.id \in Nat /\ resub.old \in Nat /\ start.id \in Nat
        /\ \A o \in orphans : o.id \in Nat
    BY <1>0 DEF TypesOK, OrphanType
  <2>3. \A q \in DOMAIN queries' : queries'[q].alive => queries'[q].client \in DOMAIN clients /\ ~Down(queries'[q].client)
    <3>1. \A q \in DOMAIN queries' : q \in DOMAIN queries \/ q = Len(queries) + 1
      BY <1>1, <2>1 DEF OneMore
    <3> QED
      BY <1>1, <3>1 DEF LiveInv, Known, OneMore
  <2>4. \A k \in kills : k.id \in DOMAIN queries'
    BY <1>1, <2>1 DEF LiveInv, Known, OneMore
  <2>5. Len(queries') = Len(queries) + 1
    BY <1>1 DEF OneMore
  <2>6. /\ manager'.cached <= Len(clients') /\ stream'.live_id <= Len(queries') /\ reader'.id <= Len(queries')
        /\ resub'.id <= Len(queries') /\ resub'.old <= Len(queries') /\ start'.id <= Len(queries')
        /\ \A o \in orphans' : o.id <= Len(queries') /\ o.client \in DOMAIN clients'
    BY <1>1, <2>1, <2>2, <2>5 DEF LiveInv, Known
  <2>7. (\A q \in DOMAIN queries : queries[q].alive => queries[q].client \in DOMAIN clients /\ ~Down(queries[q].client))'
    BY <1>1, <2>3 DEF Down
  <2>8. /\ resub'.pc = "selecting" => resub'.client \in DOMAIN clients'
        /\ start'.pc = "selecting" => start'.client \in DOMAIN clients'
        /\ auth'.pc # "off" => auth'.client \in DOMAIN clients'
    BY <1>1 DEF LiveInv, Known
  <2>9. /\ \A x \in kills' : x.id \in DOMAIN queries' /\ x.client \in DOMAIN clients'
        /\ reader'.registered => reader'.open /\ reader'.id # None
        /\ reader'.watching => reader'.client \in DOMAIN clients'
    BY <1>1, <2>4 DEF LiveInv, Known
  <2> QED
    BY <2>6, <2>7, <2>8, <2>9 DEF Known
<1>4. Roles'
  <2>1. resub.pc # "off" => resub.old \in DOMAIN queries
    BY <1>0 DEF LiveInv, Known, Roles, TypesOK, None
  <2> QED
    BY <1>1, <2>1 DEF LiveInv, Roles, OneMore, AnsweredTo
<1>5. Asked(resub)'
  <2>1. resub.id # None => resub.id \in DOMAIN queries
    BY <1>0, IdsKnown
  <2> QED
    BY <1>1, <2>1 DEF LiveInv, Asked, Private, Down, OneMore
<1>6. Asked(start)'
  <2>1. start.id # None => start.id \in DOMAIN queries
    BY <1>0, IdsKnown
  <2> QED
    BY <1>1, <2>1 DEF LiveInv, Asked, Private, Down, OneMore
<1>7. Buffer'
  <2>1. reader.registered => reader.id \in DOMAIN queries
    BY <1>0, IdsKnown DEF LiveInv, Known
  <2> QED
    BY <1>1, <2>1 DEF LiveInv, Buffer, Ended, InOrder, StillWanted, OneMore
<1>8. Wakes'
  <2>1. reader.registered => reader.id \in DOMAIN queries
    BY <1>0, IdsKnown DEF LiveInv, Known
  <2> QED
    BY <1>1, <2>1 DEF LiveInv, Wakes, Down, OneMore, AnsweredTo
<1>9. Same'
  <2>1. SameIdentity'
    <3>0. stream.live_id \in Nat /\ stream.live_id <= Len(queries) /\ Len(queries) \in Nat
      BY <1>0 DEF LiveInv, Known, TypesOK
    <3>1. \A q \in DOMAIN queries' : q = stream.live_id => q \in DOMAIN queries
      BY <1>0, <1>1, <3>0 DEF OneMore, TypesOK
    <3> QED
      BY <1>1, <3>1 DEF LiveInv, Same, SameIdentity, Resubscribed, OneMore
  <2>2. (resub.id # None => resub.id \in DOMAIN queries) /\ (start.id # None => start.id \in DOMAIN queries)
    BY <1>0, IdsKnown
  <2> QED
    BY <1>1, <2>1, <2>2 DEF LiveInv, Same, Down, OneMore
<1> QED
  BY <1>2, <1>3, <1>4, <1>5, <1>6, <1>7, <1>8, <1>9 DEF LiveInv

LEMMA ServerStartsKeeps ==
  ASSUME LiveInv, ServerStarts
  PROVE  LiveInv'
<1>0. TypeInv /\ TypesOK
  BY Types DEF LiveInv
<1>1. UNCHANGED <<clients, manager, stream, reader, stop, kills, auth, named>>
  BY DEF ServerStarts
<1>2. ASSUME NEW t \in TaskType, NEW u, u = [t EXCEPT !.id = Len(queries) + 1], t.pc = "selecting",
             t.client \in DOMAIN clients, Starts(t)
      PROVE  OneMore /\ AnsweredTo(t, u) /\ u \in TaskType
  <2>0. Len(queries) + 1 \in Nat
    BY <1>0 DEF TypesOK
  <2>1. /\ u \in TaskType /\ u.id = Len(queries) + 1 /\ u.pc = t.pc /\ u.old = t.old /\ u.client = t.client
        /\ u.raced = t.raced /\ u.cancelled = t.cancelled /\ t.raced \in BOOLEAN
    BY <1>2, <2>0 DEF TaskType
  <2>2. t.id = None
    BY <1>2 DEF Starts
  <2> QED
    BY <1>0, <1>2, <2>1, <2>2, StartsIs DEF AnsweredTo
<1>3. CASE resub.pc = "selecting" /\ Starts(resub) /\ resub' = [resub EXCEPT !.id = Len(queries) + 1] /\ UNCHANGED <<start, orphans>>
  <2>1. OneMore /\ AnsweredTo(resub, resub') /\ resub' \in TaskType
    <3>1. resub \in TaskType /\ resub.client \in DOMAIN clients
      BY <1>0, <1>3 DEF TypeInv, LiveInv, Known
    <3> QED
      BY <1>2, <1>3, <3>1
  <2> QED
    BY <1>1, <1>3, <2>1, ResubAnswered
<1>4. CASE start.pc = "selecting" /\ Starts(start) /\ start' = [start EXCEPT !.id = Len(queries) + 1] /\ UNCHANGED <<resub, orphans>>
  <2>1. OneMore /\ AnsweredTo(start, start') /\ start' \in TaskType
    <3>1. start \in TaskType /\ start.client \in DOMAIN clients
      BY <1>0, <1>4 DEF TypeInv, LiveInv, Known
    <3> QED
      BY <1>2, <1>4, <3>1
  <2> QED
    BY <1>1, <1>4, <2>1, StartAnswered
<1>5. ASSUME NEW o \in orphans, Starts(o), UNCHANGED <<resub, start>>,
             orphans' = (orphans \ {o}) \cup {[o EXCEPT !.id = Len(queries) + 1]}
      PROVE  LiveInv'
  <2>1. o \in OrphanType /\ orphans \subseteq OrphanType /\ o.client \in DOMAIN clients /\ Len(queries) + 1 \in Nat
    <3>1. \A x \in orphans : x.client \in DOMAIN clients
      BY DEF LiveInv, Known
    <3>2. orphans \subseteq OrphanType
      BY <1>0 DEF TypeInv
    <3>3. Len(queries) + 1 \in Nat
      BY <1>0 DEF TypesOK
    <3> QED
      BY <3>1, <3>2, <3>3
  <2>2. PICK new : new = [o EXCEPT !.id = Len(queries) + 1]
    OBVIOUS
  <2>3. new \in OrphanType /\ new.id = Len(queries) + 1 /\ new.client = o.client /\ o.raced \in BOOLEAN
    BY <2>1, <2>2 DEF OrphanType
  <2>4. OneMore
    BY <1>0, <1>5, <2>1, <2>3, StartsIs
  <2>5. /\ orphans' \subseteq OrphanType
        /\ \A p \in orphans' : p \in orphans \/ (p.id = Len(queries) + 1 /\ p.client \in DOMAIN clients)
    BY <1>5, <2>1, <2>2, <2>3
  <2> QED
    BY <1>1, <1>5, <2>4, <2>5, OrphanAnswered
<1> QED
  BY <1>3, <1>4, <1>5 DEF ServerStarts

-----------------------------------------------------------------------------
(***************************************************************************)
(* The answers and the calls of the program keep it.                       *)
(***************************************************************************)
LEMMA CancelledKeeps ==
  ASSUME LiveInv, Cancelled
  PROVE  LiveInv'
<1>0. TypeInv /\ TypesOK
  BY Types DEF LiveInv
<1>1. /\ UNCHANGED <<clients, queries, manager, stream, reader, start, stop, kills, auth, named>>
      /\ resub.pc # "off" /\ resub.cancelled /\ resub' = Idle
      /\ orphans' = orphans \cup Shielded
      /\ \A o \in orphans' : o \in orphans \/ (resub.pc = "selecting" /\ o.id = resub.id /\ o.client = resub.client)
      /\ resub'.pc = "off" /\ resub'.id = None /\ resub'.old = None /\ ~resub'.cancelled
  <2>1. \A o \in Shielded : resub.pc = "selecting" /\ o.id = resub.id /\ o.client = resub.client
    BY DEF Shielded
  <2> QED
    BY <2>1, IdleType DEF Cancelled, server
<1>2. TypeInv'
  <2>1. resub' \in TaskType
    BY <1>1, IdleType
  <2>2. Shielded \subseteq OrphanType
    BY <1>0 DEF TypeInv, TypesOK, TaskType, OrphanType, StreamType, Shielded
  <2>3. orphans' \subseteq OrphanType
    BY <1>0, <1>1, <2>2 DEF TypeInv
  <2> QED
    BY <1>0, <1>1, <2>1, <2>2, <2>3 DEF TypeInv
<1>3. Known'
  BY <1>0, <1>1, NoneKnown DEF LiveInv, Known, Down
<1>4. Roles'
  BY <1>0, <1>1 DEF LiveInv, Roles, None
<1>5. Asked(resub)'
  BY <1>0, <1>1 DEF LiveInv, Asked, Private, Down, Roles
<1>6. Asked(start)'
  <2>1. start.id # None => resub.id = None
    BY DEF LiveInv, Asked, Roles
  <2> QED
    BY <1>0, <1>1, <2>1 DEF LiveInv, Asked, Private, Down, None
<1>7. Buffer'
  BY <1>0, <1>1 DEF LiveInv, Buffer, Ended, InOrder, StillWanted
<1>8. Wakes'
  <2>1. stop = "cancelling" \/ stream.live_id = None
    BY <1>1 DEF LiveInv, Roles
  <2> QED
    BY <1>0, <1>1, <2>1 DEF LiveInv, Wakes, Down
<1>9. Same'
  BY <1>0, <1>1 DEF LiveInv, Same, SameIdentity, Resubscribed, Down
<1> QED
  BY <1>2, <1>3, <1>4, <1>5, <1>6, <1>7, <1>8, <1>9 DEF LiveInv

LEMMA KillOrphanKeeps ==
  ASSUME LiveInv, KillOrphan
  PROVE  LiveInv'
<1>0. TypeInv /\ TypesOK
  BY Types DEF LiveInv
<1>1. /\ UNCHANGED <<clients, queries, manager, stream, reader, resub, start, stop, auth, named>>
      /\ orphans' \subseteq orphans
      /\ kills \subseteq kills'
      /\ \A k \in kills' : k \in kills \/ (k \in KillType /\ k.by = "orphan" /\ k.id \in DOMAIN queries /\ k.client = manager.cached /\ k.client \in DOMAIN clients /\ \E o \in orphans : o.id = k.id)
  <2>1. PICK o \in orphans : /\ orphans' = orphans \ {o}
                             /\ (o.id # None /\ Kill("orphan", o.id)) \/ UNCHANGED kills
                             /\ UNCHANGED <<server, stream, reader, resub, start, stop, auth,
                                            named>>
    BY DEF KillOrphan
  <2>2. o.id \in Nat
    BY <1>0 DEF TypesOK, OrphanType
  <2>3. "orphan" \in Callers
    BY DEF Callers
  <2>4. kills \subseteq kills' /\ \A k \in kills' : k \in kills \/ (k \in KillType /\ k.by = "orphan" /\ k.id = o.id /\ k.client = manager.cached /\ k.client # None /\ o.id # None)
    BY <1>0, <2>1, <2>2, <2>3, KillSent
  <2>5. o.id # None => o.id \in DOMAIN queries
    BY <1>0, <2>2 DEF LiveInv, Known, TypesOK, None
  <2>6. manager.cached # None => manager.cached \in DOMAIN clients
    BY <1>0, CachedKnown DEF LiveInv
  <2> QED
    BY <2>1, <2>4, <2>5, <2>6 DEF server
<1>2. TypeInv'
  <2>1. orphans' \subseteq OrphanType
    BY <1>0, <1>1 DEF TypeInv
  <2>2. kills' \subseteq KillType
    BY <1>0, <1>1 DEF TypeInv
  <2> QED
    BY <1>0, <1>1, <2>1, <2>2 DEF TypeInv
<1>3. Known'
  BY <1>0, <1>1 DEF LiveInv, Known, Down
<1>4. Roles'
  <2>1. \A k \in kills' : k.by = "stop" => k \in kills
    BY <1>1
  <2> QED
    BY <1>1, <2>1 DEF LiveInv, Roles
<1>5. Asked(resub)'
  BY <1>0, <1>1 DEF LiveInv, Asked, Private, Down, Roles
<1>6. Asked(start)'
  BY <1>0, <1>1 DEF LiveInv, Asked, Private, Down, Roles
<1>7. Buffer'
  BY <1>0, <1>1 DEF LiveInv, Buffer, Ended, InOrder, StillWanted
<1>8. Wakes'
  BY <1>0, <1>1 DEF LiveInv, Wakes, Down
<1>9. Same'
  BY <1>0, <1>1 DEF LiveInv, Same, SameIdentity, Resubscribed, Down
<1> QED
  BY <1>2, <1>3, <1>4, <1>5, <1>6, <1>7, <1>8, <1>9 DEF LiveInv

LEMMA SigninReturnsKeeps ==
  ASSUME LiveInv, SigninReturns
  PROVE  LiveInv'
<1>0. TypeInv /\ TypesOK
  BY Types DEF LiveInv
<1>1. /\ UNCHANGED <<queries, stream, reader, resub, start, stop, kills, orphans, named>>
      /\ auth'.pc = "off" /\ auth.pc # "off" /\ manager'.cached = manager.cached
      /\ \/ UNCHANGED clients /\ auth.pc = "sent" /\ Down(auth.client)
         \/ auth.pc = "signed" /\ clients' = [clients EXCEPT ![auth.client].stamp = Stamp(auth.to, auth.kept)]
      /\ auth.client \in DOMAIN clients /\ Len(clients') = Len(clients) /\ DOMAIN clients' = DOMAIN clients
      /\ \A c \in DOMAIN clients : clients'[c].net = clients[c].net /\ clients'[c].runs = clients[c].runs
      /\ \A c \in DOMAIN clients : c # auth.client => clients'[c] = clients[c]
      /\ auth.pc = "signed" /\ clients'[auth.client].stamp.kept => clients'[auth.client].stamp.as = auth.to
  <2>1. /\ auth.to \in Identities /\ auth.kept \in BOOLEAN /\ auth.pc # "off" /\ auth.client \in DOMAIN clients
    BY <1>0 DEF TypeInv, AuthType, SigninReturns, LiveInv, Known
  <2>2. Stamp(auth.to, auth.kept) \in IdentityType /\ (Stamp(auth.to, auth.kept).kept => Stamp(auth.to, auth.kept).as = auth.to)
    BY <1>0, <2>1 DEF TypesOK, Stamp, IdentityType
  <2>3. /\ auth'.pc = "off" /\ manager'.cached = manager.cached
    BY <1>0 DEF SigninReturns, NoAuth, TypeInv, ManagerType
  <2>4. \/ UNCHANGED clients /\ auth.pc = "sent" /\ Down(auth.client)
        \/ auth.pc = "signed" /\ clients' = [clients EXCEPT ![auth.client].stamp = Stamp(auth.to, auth.kept)]
    BY DEF SigninReturns
  <2>5. UNCHANGED <<queries, stream, reader, resub, start, stop, kills, orphans, named>>
    BY DEF SigninReturns
  <2>6. CASE UNCHANGED clients /\ auth.pc = "sent" /\ Down(auth.client)
    BY <2>1, <2>3, <2>5, <2>6
  <2>7. CASE auth.pc = "signed" /\ clients' = [clients EXCEPT ![auth.client].stamp = Stamp(auth.to, auth.kept)]
    <3>1. /\ Len(clients') = Len(clients) /\ DOMAIN clients' = DOMAIN clients
          /\ \A c \in DOMAIN clients : clients'[c].net = clients[c].net /\ clients'[c].runs = clients[c].runs
          /\ \A c \in DOMAIN clients : c # auth.client => clients'[c] = clients[c]
          /\ clients'[auth.client].stamp = Stamp(auth.to, auth.kept)
      BY <1>0, <2>1, <2>2, <2>7, Stamped DEF TypeInv
    <3> QED
      BY <2>1, <2>2, <2>3, <2>5, <2>7, <3>1
  <2> QED
    BY <2>4, <2>6, <2>7
<1>2. TypeInv'
  <2>1. auth' \in AuthType
    BY <1>0 DEF TypeInv, SigninReturns, NoAuth, AuthType, Identities, None
  <2>2. auth.to \in Identities /\ auth.kept \in BOOLEAN
    BY <1>0 DEF TypeInv, AuthType
  <2>3. Stamp(auth.to, auth.kept) \in IdentityType
    BY <1>0, <2>2 DEF TypesOK, Stamp, IdentityType
  <2>4. clients' \in Seq(ClientType)
    BY <1>0, <1>1, <2>3, Stamped DEF TypeInv
  <2>5. manager' \in ManagerType
    BY <1>0, <2>2 DEF TypeInv, SigninReturns, ManagerType
  <2> QED
    BY <1>0, <1>1, <2>1, <2>2, <2>3, <2>4, <2>5 DEF TypeInv
<1>3. Known'
  BY <1>0, <1>1 DEF LiveInv, Known, Down
<1>4. Roles'
  BY <1>0, <1>1 DEF LiveInv, Roles
<1>5. Asked(resub)'
  BY <1>0, <1>1 DEF LiveInv, Asked, Private, Down, Roles, Known
<1>6. Asked(start)'
  BY <1>0, <1>1 DEF LiveInv, Asked, Private, Down, Roles, Known
<1>7. Buffer'
  BY <1>0, <1>1 DEF LiveInv, Buffer, Ended, InOrder, StillWanted
<1>8. Wakes'
  BY <1>0, <1>1 DEF LiveInv, Wakes, Down, Known
<1>9. Same'
  <2>1. start.pc = "off" /\ (resub.pc = "selecting" /\ ~resub.cancelled => resub.id # None \/ resub.raced)
    BY <1>1 DEF LiveInv, Roles, Same
  <2>2. \A c \in DOMAIN clients : clients'[c].net # "down" /\ clients'[c].stamp.kept => clients'[c].runs = clients'[c].stamp.as
    <3> SUFFICES ASSUME NEW c \in DOMAIN clients, clients[c].net # "down", clients'[c].stamp.kept
                 PROVE  clients'[c].runs = clients'[c].stamp.as
      BY <1>1
    <3>1. clients[c].stamp.kept /\ ~(auth.pc = "signed" /\ auth.client = c) => clients[c].runs = clients[c].stamp.as
      BY DEF LiveInv, Same
    <3>2. CASE c # auth.client
      BY <1>1, <3>1, <3>2 DEF Down
    <3>3. CASE c = auth.client
      BY <1>1, <3>3 DEF LiveInv, Same, Down
    <3> QED
      BY <1>1, <3>2, <3>3
  <2> QED
    BY <1>0, <1>1, <2>1, <2>2 DEF LiveInv, Same, SameIdentity, Resubscribed
<1> QED
  BY <1>2, <1>3, <1>4, <1>5, <1>6, <1>7, <1>8, <1>9 DEF LiveInv

LEMMA StartReturnsKeeps ==
  ASSUME LiveInv, StartReturns
  PROVE  LiveInv'
<1>0. TypeInv /\ TypesOK
  BY Types DEF LiveInv
<1>1. /\ UNCHANGED <<clients, queries, manager, resub, stop, kills, orphans, auth, named>>
      /\ start.pc = "selecting" /\ start' = Idle /\ start'.pc = "off" /\ start'.id = None
      /\ UNCHANGED <<stream.stopping, stream.starts, stream.identity>>
      /\ \/ UNCHANGED <<stream, reader>>
         \/ /\ start.id # None /\ stream'.live_id = start.id
            /\ reader' = Rebound([NoReader EXCEPT !.open = TRUE], start.client, start.id)
            /\ reader'.open /\ reader'.registered /\ reader'.watching /\ ~reader'.parked
            /\ reader'.id = start.id /\ reader'.client = start.client
            /\ reader'.queue = <<>> /\ reader'.pushed = 0 /\ reader'.got = 0
  <2>1. /\ UNCHANGED <<clients, queries, manager, resub, stop, kills, orphans, auth, named>>
        /\ start.pc = "selecting" /\ start' = Idle
    BY DEF StartReturns, server
  <2>2. \/ UNCHANGED <<stream, reader>>
        \/ /\ start.id # None /\ stream' = [stream EXCEPT !.live_id = start.id]
           /\ reader' = Rebound([NoReader EXCEPT !.open = TRUE], start.client, start.id)
    BY DEF StartReturns
  <2>3. CASE UNCHANGED <<stream, reader>>
    BY <2>1, <2>3, IdleType
  <2>4. CASE /\ start.id # None /\ stream' = [stream EXCEPT !.live_id = start.id]
             /\ reader' = Rebound([NoReader EXCEPT !.open = TRUE], start.client, start.id)
    <3>1. stream'.live_id = start.id /\ UNCHANGED <<stream.stopping, stream.starts,
                                                    stream.identity>>
      BY <1>0, <2>4 DEF TypeInv, StreamType
    <3> QED
      <4>1. start.client \in Nat /\ start.id \in Nat
        BY <1>0 DEF TypesOK
      <4>2. /\ reader'.open /\ reader'.registered /\ reader'.watching /\ ~reader'.parked
            /\ reader'.id = start.id /\ reader'.client = start.client
            /\ reader'.queue = <<>> /\ reader'.pushed = 0 /\ reader'.got = 0
        <5>1. reader' = NewReader(start.client, start.id)
          BY <2>4 DEF NewReader
        <5> QED
          BY <4>1, <5>1, NewReaderIs
      <4> QED
        BY <2>1, <2>4, <3>1, <4>2, IdleType
  <2> QED
    BY <2>2, <2>3, <2>4
<1>2. TypeInv'
  <2>1. start' \in TaskType
    BY <1>1, IdleType
  <2>2. stream' \in StreamType
    BY <1>0 DEF TypeInv, TypesOK, StartReturns, StreamType
  <2>3. CASE UNCHANGED reader
    BY <1>0, <1>1, <2>1, <2>2, <2>3 DEF TypeInv
  <2>4. CASE reader' = Rebound([NoReader EXCEPT !.open = TRUE], start.client, start.id)
    <3>1. reader' = NewReader(start.client, start.id) /\ start.client \in Nat /\ start.id \in Nat
      BY <1>0, <2>4 DEF NewReader, TypesOK
    <3>2. reader' \in ReaderType
      BY <3>1, NewReaderIs
    <3> QED
      BY <1>0, <1>1, <2>1, <2>2, <3>2 DEF TypeInv
  <2> QED
    BY <1>0, <1>1, <2>1, <2>2, <2>3, <2>4 DEF TypeInv
<1>3. Known'
  <2>1. CASE UNCHANGED <<stream, reader>>
    BY <1>0, <1>1, <2>1, NoneKnown DEF LiveInv, Known, Down
  <2>2. CASE /\ start.id # None /\ stream'.live_id = start.id
             /\ reader'.open /\ reader'.registered /\ reader'.watching /\ ~reader'.parked
             /\ reader'.id = start.id /\ reader'.client = start.client
             /\ reader'.queue = <<>> /\ reader'.pushed = 0 /\ reader'.got = 0
    <3>1. start.id <= Len(queries) /\ start.client \in DOMAIN clients
      BY <1>1 DEF LiveInv, Known
    <3> QED
      BY <1>0, <1>1, <2>2, <3>1, NoneKnown DEF LiveInv, Known, Down
  <2> QED
    BY <1>1, <2>1, <2>2
<1>4. Roles'
  <2>1. CASE UNCHANGED <<stream, reader>>
    BY <1>0, <1>1, <2>1, NoneKnown DEF LiveInv, Roles
  <2>2. CASE /\ start.id # None /\ stream'.live_id = start.id
             /\ reader'.open /\ reader'.registered /\ reader'.watching /\ ~reader'.parked
             /\ reader'.id = start.id /\ reader'.client = start.client
             /\ reader'.queue = <<>> /\ reader'.pushed = 0 /\ reader'.got = 0
    <3>1. resub.pc = "off" /\ stop = "off"
      BY <1>1 DEF LiveInv, Roles
    <3> QED
      BY <1>1, <2>2, <3>1 DEF LiveInv, Roles
  <2> QED
    BY <1>1, <2>1, <2>2
<1>5. Asked(resub)'
  <2>1. CASE UNCHANGED <<stream, reader>>
    BY <1>0, <1>1, <2>1, NoneKnown DEF LiveInv, Asked, Private, Down, Roles
  <2>2. CASE /\ start.id # None /\ stream'.live_id = start.id
             /\ reader'.open /\ reader'.registered /\ reader'.watching /\ ~reader'.parked
             /\ reader'.id = start.id /\ reader'.client = start.client
             /\ reader'.queue = <<>> /\ reader'.pushed = 0 /\ reader'.got = 0
    <3>1. resub.id = None
      BY <1>1 DEF LiveInv, Roles, Asked
    <3> QED
      BY <1>1, <3>1 DEF LiveInv, Asked
  <2> QED
    BY <1>1, <2>1, <2>2
<1>6. Asked(start)'
  <2>1. CASE UNCHANGED <<stream, reader>>
    BY <1>0, <1>1, <2>1, NoneKnown DEF LiveInv, Asked, Private, Down, Roles
  <2>2. CASE /\ start.id # None /\ stream'.live_id = start.id
             /\ reader'.open /\ reader'.registered /\ reader'.watching /\ ~reader'.parked
             /\ reader'.id = start.id /\ reader'.client = start.client
             /\ reader'.queue = <<>> /\ reader'.pushed = 0 /\ reader'.got = 0
    <3> QED
      BY <1>1 DEF Asked
  <2> QED
    BY <1>1, <2>1, <2>2
<1>7. Buffer'
  <2>1. CASE UNCHANGED <<stream, reader>>
    BY <1>0, <1>1, <2>1, NoneKnown DEF LiveInv, Buffer, Ended, InOrder, StillWanted
  <2>2. CASE /\ start.id # None /\ stream'.live_id = start.id
             /\ reader'.open /\ reader'.registered /\ reader'.watching /\ ~reader'.parked
             /\ reader'.id = start.id /\ reader'.client = start.client
             /\ reader'.queue = <<>> /\ reader'.pushed = 0 /\ reader'.got = 0
    <3>1. resub.pc = "off" /\ resub.id = None
      BY <1>1 DEF LiveInv, Roles, Asked
    <3> QED
      <4>1. Len(reader'.queue) = 0 /\ DOMAIN reader'.queue = {} /\ reader'.queue = <<>> /\ reader'.pushed = 0 /\ reader'.got = 0
            /\ reader'.open
        BY <2>2
      <4>2. start.id # None
        BY <2>2
      <4> QED
        BY <1>1, <2>2, <3>1, <4>1, <4>2 DEF Buffer, Ended, InOrder
  <2> QED
    BY <1>1, <2>1, <2>2
<1>8. Wakes'
  <2>1. CASE UNCHANGED <<stream, reader>>
    BY <1>0, <1>1, <2>1, NoneKnown DEF LiveInv, Wakes, Down
  <2>2. CASE /\ start.id # None /\ stream'.live_id = start.id
             /\ reader'.open /\ reader'.registered /\ reader'.watching /\ ~reader'.parked
             /\ reader'.id = start.id /\ reader'.client = start.client
             /\ reader'.queue = <<>> /\ reader'.pushed = 0 /\ reader'.got = 0
    <3>1. ~stream'.stopping
      BY <1>1 DEF LiveInv, Roles
    <3>2. IF Down(start.client) THEN ~queries[start.id].alive ELSE queries[start.id].alive /\ queries[start.id].client = start.client
      BY <2>2 DEF LiveInv, Asked
    <3> QED
      BY <1>1, <2>2, <3>1, <3>2 DEF Wakes, Down
  <2> QED
    BY <1>1, <2>1, <2>2
<1>9. Same'
  <2>1. CASE UNCHANGED <<stream, reader>>
    BY <1>0, <1>1, <2>1, NoneKnown DEF LiveInv, Same, SameIdentity, Resubscribed, Down
  <2>2. CASE /\ start.id # None /\ stream'.live_id = start.id
             /\ reader'.open /\ reader'.registered /\ reader'.watching /\ ~reader'.parked
             /\ reader'.id = start.id /\ reader'.client = start.client
             /\ reader'.queue = <<>> /\ reader'.pushed = 0 /\ reader'.got = 0
    <3>1. start.id # None => (queries[start.id].alive /\ stream.identity.kept => queries[start.id].runs = stream.identity.as)
      BY <1>1 DEF LiveInv, Same
    <3>2. SameIdentity'
      BY <1>1, <2>2, <3>1 DEF SameIdentity, Resubscribed
    <3>3. resub.pc = "off"
      BY <1>1 DEF LiveInv, Roles
    <3> QED
      BY <1>1, <3>2, <3>3 DEF LiveInv, Same, Down
  <2> QED
    BY <1>1, <2>1, <2>2
<1> QED
  BY <1>2, <1>3, <1>4, <1>5, <1>6, <1>7, <1>8, <1>9 DEF LiveInv

LEMMA SelectedKeeps ==
  ASSUME LiveInv, Selected
  PROVE  LiveInv'
<1>0. TypeInv /\ TypesOK
  BY Types DEF LiveInv
<1>1. /\ UNCHANGED <<clients, queries, manager, start, stop, orphans, auth, named>>
      /\ resub.pc = "selecting" /\ resub.id # None /\ ~resub.cancelled
      /\ resub'.pc = "off" /\ resub'.id = None /\ resub'.old = None /\ ~resub'.cancelled /\ resub' = Idle
      /\ UNCHANGED <<stream.stopping, stream.starts, stream.identity>>
      /\ UNCHANGED <<reader.open, reader.parked, reader.queue, reader.pushed, reader.got>>
      /\ kills \subseteq kills'
      /\ \A k \in kills' : k \in kills \/ (k \in KillType /\ k.by = "resubscription" /\ k.id = resub.id /\ k.client = manager.cached)
      /\ manager.cached # None \/ kills' = kills
      /\ \/ /\ StillWanted(resub.old) /\ kills' = kills
            /\ stream'.live_id = resub.id /\ reader'.id = resub.id /\ reader'.client = resub.client
            /\ reader'.registered /\ reader'.watching
         \/ UNCHANGED <<stream, reader>> /\ ~StillWanted(resub.old)
  <2>1. /\ UNCHANGED <<clients, queries, manager, start, stop, orphans, auth, named>>
        /\ resub.pc = "selecting" /\ resub.id # None /\ ~resub.cancelled /\ resub' = Idle
    BY DEF Selected, server
  <2>2. "resubscription" \in Callers /\ resub.id \in Nat /\ resub.client \in Nat /\ reader \in ReaderType /\ stream \in StreamType
    BY <1>0 DEF Callers, TypesOK, TypeInv
  <2>3. CASE StillWanted(resub.old)
    <3>1. /\ stream' = [stream EXCEPT !.live_id = resub.id] /\ reader' = Rebound(reader, resub.client, resub.id)
          /\ UNCHANGED kills
      BY <2>3 DEF Selected
    <3>2. stream'.live_id = resub.id /\ UNCHANGED <<stream.stopping, stream.starts,
                                                    stream.identity>>
      BY <2>2, <3>1 DEF StreamType
    <3>3. /\ UNCHANGED <<reader.open, reader.parked, reader.queue, reader.pushed, reader.got>>
          /\ reader'.id = resub.id /\ reader'.client = resub.client /\ reader'.registered /\ reader'.watching
      BY <2>2, <3>1, ReboundIs
    <3> QED
      BY <2>1, <2>3, <3>1, <3>2, <3>3, IdleType
  <2>4. CASE ~StillWanted(resub.old)
    <3>1. Kill("resubscription", resub.id) /\ UNCHANGED <<stream, reader>>
      BY <2>4 DEF Selected
    <3>2. /\ kills \subseteq kills' /\ (manager.cached # None \/ kills' = kills)
          /\ \A k \in kills' : k \in kills \/ (k \in KillType /\ k.by = "resubscription" /\ k.id = resub.id /\ k.client = manager.cached)
      BY <1>0, <2>2, <3>1, KillSent DEF Served
    <3> QED
      BY <2>1, <2>4, <3>1, <3>2, IdleType
  <2> QED
    BY <2>3, <2>4
<1>2. TypeInv'
  <2>1. resub' \in TaskType
    BY <1>1, IdleType
  <2>2. stream' \in StreamType
    BY <1>0 DEF TypeInv, TypesOK, Selected, StreamType
  <2>3. reader' \in ReaderType
    <3>1. reader \in ReaderType /\ resub.client \in Nat /\ resub.id \in Nat
      BY <1>0 DEF TypeInv, TypesOK
    <3>2. UNCHANGED reader \/ reader' = Rebound(reader, resub.client, resub.id)
      BY DEF Selected
    <3> QED
      BY <3>1, <3>2, ReboundIs
  <2>4. kills' \subseteq KillType
    BY <1>0, <1>1 DEF TypeInv
  <2> QED
    BY <1>0, <1>1, <2>1, <2>2, <2>3, <2>4 DEF TypeInv
<1>3. Known'
  <2>1. resub.id \in DOMAIN queries /\ (manager.cached # None => manager.cached \in DOMAIN clients)
    BY <1>0, <1>1, CachedKnown DEF LiveInv, Known, TypesOK, None
  <2>2. resub.client \in DOMAIN clients /\ resub.id <= Len(queries)
    BY <1>1 DEF LiveInv, Known
  <2>3. StillWanted(resub.old) => reader.open /\ reader.registered
    BY DEF StillWanted
  <2>4. \A k \in kills' : k.id \in DOMAIN queries /\ k.client \in DOMAIN clients
    BY <1>1, <2>1 DEF LiveInv, Known
  <2> QED
    BY <1>0, <1>1, <2>1, <2>2, <2>3, <2>4, NoneKnown DEF LiveInv, Known, Down
<1>4. Roles'
  <2>1. \A k \in kills' : k.by = "stop" => k \in kills
    BY <1>1
  <2>2. StillWanted(resub.old) => ~stream.stopping /\ reader.open
    BY DEF StillWanted
  <2>3. start.pc \notin {"acquiring", "selecting"}
    BY <1>1 DEF LiveInv, Roles
  <2>4. StillWanted(resub.old) => stream.live_id # None /\ stop = "off"
    BY <1>1, <2>2 DEF LiveInv, Roles, StillWanted
  <2>5. StillWanted(resub.old) => start.pc = "off" /\ \A k \in kills : k.by # "stop"
    BY <2>4 DEF LiveInv, Roles
  <2> QED
    BY <1>1, <2>1, <2>2, <2>3, <2>4, <2>5 DEF LiveInv, Roles
<1>5. Asked(resub)'
  BY <1>1 DEF Asked
<1>6. Asked(start)'
  <2>1. start.id = None
    BY <1>1 DEF LiveInv, Asked, Roles
  <2> QED
    BY <1>1, <2>1 DEF LiveInv, Asked
<1>7. Buffer'
  <2>1. CASE StillWanted(resub.old)
    <3>1. reader.registered /\ reader.open /\ ~Ended
      BY <1>1, <2>1 DEF LiveInv, Buffer, StillWanted, Known
    <3> QED
      BY <1>1, <2>1, <3>1 DEF LiveInv, Buffer, Ended, InOrder
  <2>2. CASE ~StillWanted(resub.old)
    BY <1>0, <1>1, <2>2 DEF LiveInv, Buffer, Ended, InOrder
  <2> QED
    BY <2>1, <2>2
<1>8. Wakes'
  <2>1. CASE StillWanted(resub.old)
    <3>1. ~stream'.stopping
      BY <1>1, <2>1 DEF StillWanted
    <3>2. IF Down(resub.client) THEN ~queries[resub.id].alive ELSE queries[resub.id].alive /\ queries[resub.id].client = resub.client
      BY <1>1 DEF LiveInv, Asked
    <3> QED
      BY <1>1, <2>1, <3>1, <3>2 DEF Wakes, Down
  <2>2. CASE ~StillWanted(resub.old)
    <3>1. reader.registered /\ stream.live_id # None => stop # "off"
      BY <1>1, <2>2 DEF LiveInv, Roles, Wakes, StillWanted
    <3> QED
      BY <1>1, <2>2, <3>1 DEF LiveInv, Wakes, Down
  <2> QED
    BY <2>1, <2>2
<1>9. Same'
  <2>1. /\ stream.identity.kept
        /\ queries[resub.id].alive /\ ~queries[resub.id].raced => queries[resub.id].runs = stream.identity.as
    BY <1>1 DEF LiveInv, Same
  <2>2. SameIdentity'
    BY <1>1, <2>1 DEF LiveInv, Same, SameIdentity, Resubscribed
  <2> QED
    BY <1>1, <2>2 DEF LiveInv, Same, Down
<1> QED
  BY <1>2, <1>3, <1>4, <1>5, <1>6, <1>7, <1>8, <1>9 DEF LiveInv

(* The stream stops: it forgets its live query, and its reader leaves.      *)
Leaves ==
  /\ stream' = [stream EXCEPT !.live_id = None]
  /\ reader' \in ReaderType
  /\ ~reader'.open /\ ~reader'.registered /\ ~reader'.watching /\ reader'.id = None
  /\ reader'.parked => reader'.queue # <<>>
  /\ stop # "off" /\ stop' = "off" /\ ~resub.cancelled
  /\ kills' \subseteq kills /\ \A k \in kills' : k.by # "stop"
  /\ named' \subseteq Nat
  /\ UNCHANGED <<clients, queries, manager, resub, start, orphans, auth>>

LEMMA LeavesKeeps ==
  ASSUME LiveInv, Leaves
  PROVE  LiveInv'
<1>0. TypeInv /\ TypesOK
  BY Types DEF LiveInv
<1>1. /\ stream'.live_id = None /\ UNCHANGED <<stream.stopping, stream.starts, stream.identity>>
      /\ ~reader'.open /\ ~reader'.registered /\ ~reader'.watching /\ reader'.id = None
      /\ reader'.parked => reader'.queue # <<>>
      /\ stop # "off" /\ stop' = "off" /\ ~resub.cancelled
      /\ kills' \subseteq kills /\ \A k \in kills' : k.by # "stop"
      /\ UNCHANGED <<clients, queries, manager, resub, start, orphans, auth>>
  BY <1>0, StreamForgets DEF TypeInv, Leaves
<1>2. TypeInv'
  <2>1. stream' \in StreamType
    BY <1>0, StreamForgets DEF TypeInv, Leaves
  <2>2. kills' \subseteq KillType
    BY <1>0, <1>1 DEF TypeInv
  <2>3. reader' \in ReaderType /\ named' \subseteq Nat
    BY DEF Leaves
  <2> QED
    BY <1>0, <1>1, <2>1, <2>2, <2>3 DEF TypeInv
<1>3. Known'
  BY <1>0, <1>1, NoneKnown DEF LiveInv, Known, Down
<1>4. Roles'
  BY <1>0, <1>1 DEF LiveInv, Roles
<1>5. Asked(resub)'
  BY <1>0, <1>1 DEF LiveInv, Asked, Private, Down, Roles
<1>6. Asked(start)'
  BY <1>0, <1>1 DEF LiveInv, Asked, Private, Down, Roles
<1>7. Buffer'
  BY <1>1 DEF Buffer, InOrder
<1>8. Wakes'
  BY <1>1 DEF Wakes
<1>9. Same'
  <2>1. SameIdentity'
    BY <1>0, <1>1, NoneIsNoQuery DEF LiveInv, Same, SameIdentity, Resubscribed
  <2> QED
    BY <1>1, <2>1 DEF LiveInv, Same, Down
<1> QED
  BY <1>2, <1>3, <1>4, <1>5, <1>6, <1>7, <1>8, <1>9 DEF LiveInv

(* A reader that leaves after its live query was released knows that it is  *)
(* over; one that had been released before knows it already.                *)
LEMMA LeavesAwake ==
  ASSUME LiveInv, NEW r \in ReaderType,
         \/ r = reader /\ stream.live_id = None
         \/ r = Released(reader, stream.live_id)
  PROVE  Detached(r).parked => Detached(r).queue # <<>>
<1>0. TypeInv /\ TypesOK
  BY Types DEF LiveInv
<1>1. Detached(r).parked = r.parked /\ (r.parked => Detached(r).queue = r.queue)
  BY DetachedIs
<1>2. reader.parked /\ ~reader.open => reader.queue # <<>>
  BY DEF LiveInv, Buffer
<1>3. reader.open /\ (~reader.registered \/ stream.live_id = None) => reader.queue # <<>>
  <2>1. reader.open /\ (~reader.registered \/ stream.live_id = None) => Ended /\ reader.got <= reader.pushed
    BY DEF LiveInv, Buffer
  <2>2. Ended /\ reader.got <= reader.pushed => Len(reader.queue) # 0
    BY <1>0 DEF Ended, TypesOK
  <2>3. Len(<<>>) = 0
    OBVIOUS
  <2> QED
    BY <2>1, <2>2, <2>3
<1>4. CASE r = reader /\ stream.live_id = None
  BY <1>1, <1>2, <1>3, <1>4
<1>5. CASE r = Released(reader, stream.live_id) /\ reader.registered /\ reader.id = stream.live_id
  <2>1. r.queue = Append(reader.queue, End) /\ reader.queue \in Seq(Int) /\ End \in Int
    <3>1. End \in Int /\ reader.queue \in Seq(Int) /\ reader \in ReaderType /\ stream.live_id \in Nat
      BY <1>0 DEF TypeInv, TypesOK, End
    <3> QED
      BY <1>5, <3>1, ReleasedIs
  <2>2. Len(r.queue) # 0 /\ Len(<<>>) = 0
    BY <2>1, Queued
  <2> QED
    BY <1>1, <2>2
<1>6. CASE r = Released(reader, stream.live_id) /\ ~(reader.registered /\ reader.id = stream.live_id)
  <2>1. r = reader
    BY <1>0, <1>6, ReleasedIs DEF TypeInv, TypesOK
  <2>2. ~reader.registered \/ stream.live_id = None
    BY <1>6 DEF LiveInv, Roles
  <2> QED
    BY <1>1, <1>2, <1>3, <2>1, <2>2
<1> QED
  BY <1>4, <1>5, <1>6

LEMMA StopSends ==
  ASSUME LiveInv, stop = "cancelling", resub.pc = "off", stream.live_id # None, Served,
         stop' = "killing", Kill("stop", stream.live_id),
         UNCHANGED <<stream, reader, clients, queries, manager, resub, start, orphans, auth, named>>
  PROVE  LiveInv'
<1>0. TypeInv /\ TypesOK
  BY Types DEF LiveInv
<1>1. /\ kills \subseteq kills'
      /\ \A k \in kills' : k \in kills \/ (k \in KillType /\ k.by = "stop" /\ k.id = stream.live_id /\ k.client \in DOMAIN clients /\ k.answer = "none")
      /\ \A k \in kills : k.by # "stop"
      /\ \A j, k \in kills' : j.by = "stop" /\ k.by = "stop" => j = k
      /\ stream.live_id \in DOMAIN queries
  <2>1. "stop" \in Callers /\ stream.live_id \in Nat
    BY <1>0 DEF Callers, TypesOK
  <2>2. manager.cached \in DOMAIN clients
    BY <1>0, CachedKnown DEF LiveInv, Served
  <2>3. \A k \in kills : k.by # "stop"
    BY DEF LiveInv, Roles
  <2>4. stream.live_id \in DOMAIN queries
    BY <1>0, <2>1 DEF LiveInv, Known, TypesOK, None
  <2>5. kills' = kills \cup {[by |-> "stop", id |-> stream.live_id, client |-> manager.cached, answer |-> "none"]}
    BY DEF Kill
  <2>6. \A j, k \in kills' : j.by = "stop" /\ k.by = "stop" => j = k
    BY <2>3, <2>5
  <2> QED
    BY <1>0, <2>1, <2>2, <2>3, <2>4, <2>6, KillSent
<1>2. TypeInv'
  <2>1. kills' \subseteq KillType
    BY <1>0, <1>1 DEF TypeInv
  <2> QED
    BY <1>0, <1>1, <2>1 DEF TypeInv
<1>3. Known'
  BY <1>0, <1>1 DEF LiveInv, Known, Down
<1>4. Roles'
  <2>1. \A k \in kills' : k.by = "stop" => stream.live_id \in {None, k.id}
    BY <1>1
  <2>2. ~resub.cancelled
    BY DEF LiveInv, Roles
  <2> QED
    BY <1>1, <2>1, <2>2 DEF LiveInv, Roles
<1>5. Asked(resub)'
  BY <1>0, <1>1 DEF LiveInv, Asked, Private, Down, Roles
<1>6. Asked(start)'
  BY <1>0, <1>1 DEF LiveInv, Asked, Private, Down, Roles
<1>7. Buffer'
  BY <1>0, <1>1 DEF LiveInv, Buffer, Ended, InOrder, StillWanted
<1>8. Wakes'
  BY <1>0, <1>1 DEF LiveInv, Wakes, Down
<1>9. Same'
  BY <1>0, <1>1 DEF LiveInv, Same, SameIdentity, Resubscribed, Down
<1> QED
  BY <1>2, <1>3, <1>4, <1>5, <1>6, <1>7, <1>8, <1>9 DEF LiveInv

LEMMA StopKillsKeeps ==
  ASSUME LiveInv, StopKills
  PROVE  LiveInv'
<1>0. TypeInv /\ TypesOK
  BY Types DEF LiveInv
<1>1. /\ stop = "cancelling" /\ resub.pc = "off" /\ UNCHANGED <<clients, queries, manager, resub, start, orphans, auth, named>>
  BY DEF StopKills, server
<1>2. ~resub.cancelled /\ \A k \in kills : k.by # "stop"
  BY <1>1 DEF LiveInv, Roles
<1>3. ASSUME NEW r \in ReaderType,
             \/ r = reader /\ stream.live_id = None
             \/ r = Released(reader, stream.live_id),
             Stopped, reader' = Detached(r), UNCHANGED kills
      PROVE  LiveInv'
  <2>1. reader' \in ReaderType /\ ~reader'.open /\ ~reader'.registered /\ ~reader'.watching /\ reader'.id = None
    BY <1>3, DetachedIs
  <2>2. reader'.parked => reader'.queue # <<>>
    BY <1>3, LeavesAwake
  <2>3. Leaves
    BY <1>0, <1>1, <1>2, <1>3, <2>1, <2>2 DEF Leaves, Stopped, TypeInv
  <2> QED
    BY <2>3, LeavesKeeps
<1>4. CASE stream.live_id = None
  <2>1. Stopped /\ reader' = Detached(reader) /\ UNCHANGED kills /\ reader \in ReaderType
    BY <1>0, <1>4 DEF StopKills, TypeInv
  <2> QED
    BY <1>3, <1>4, <2>1
<1>5. CASE stream.live_id # None /\ ~Served
  <2>1. Stopped /\ reader' = Detached(Released(reader, stream.live_id)) /\ UNCHANGED kills
    BY <1>5 DEF StopKills
  <2>2. PICK r \in ReaderType : r = Released(reader, stream.live_id)
    BY <1>0, ReleasedIs DEF TypeInv, TypesOK
  <2>3. reader' = Detached(r)
    BY <2>1, <2>2
  <2> QED
    BY <1>3, <2>1, <2>2, <2>3
<1>6. CASE stream.live_id # None /\ Served
  <2>1. stop' = "killing" /\ Kill("stop", stream.live_id) /\ UNCHANGED <<stream, reader>>
    BY <1>6 DEF StopKills
  <2> QED
    BY <1>1, <1>6, <2>1, StopSends
<1> QED
  BY <1>4, <1>5, <1>6

(* A call of kill() that is over: its readers are awake.                   *)
Releases(k) ==
  /\ k \in kills /\ kills' = kills \ {k}
  /\ reader' = Released(reader, k.id)
  /\ k.by = "stop" => stop' = "off"
  /\ k.by # "stop" => stop' = stop
  /\ named' \subseteq Nat
  /\ UNCHANGED <<clients, queries, manager, stream, resub, start, orphans, auth>>

LEMMA ReleasesKeeps ==
  ASSUME LiveInv, NEW k, Releases(k)
  PROVE  LiveInv'
<1>0. TypeInv /\ TypesOK
  BY Types DEF LiveInv
<1>1. /\ k \in kills /\ k.id \in DOMAIN queries /\ kills' = kills \ {k}
      /\ reader' \in ReaderType /\ UNCHANGED <<reader.open, reader.id, reader.client,
                                               reader.watching, reader.parked, reader.pushed,
                                               reader.got>>
      /\ \/ UNCHANGED reader /\ ~(reader.registered /\ reader.id = k.id)
         \/ ~reader'.registered /\ reader'.queue = Append(reader.queue, End) /\ reader.registered
      /\ \/ k.by # "stop" /\ stop' = stop
         \/ k.by = "stop" /\ stop' = "off" /\ stop = "killing" /\ start.pc = "off" /\ ~resub.cancelled /\ stream.live_id \in {None, k.id}
      /\ \A j \in kills' : j.by = "stop" => k.by # "stop"
      /\ named' \subseteq Nat /\ UNCHANGED <<clients, queries, manager, stream, resub, start,
                                             orphans, auth>>
  <2>1. k \in kills /\ k.id \in DOMAIN queries /\ k.id \in Nat
    <3>1. k \in kills
      BY DEF Releases
    <3>2. k.id \in DOMAIN queries
      BY <3>1 DEF LiveInv, Known
    <3>3. k \in KillType
      BY <1>0, <3>1 DEF TypesOK
    <3> QED
      BY <3>1, <3>2, <3>3 DEF KillType
  <2>2. /\ reader' \in ReaderType /\ UNCHANGED <<reader.open, reader.id, reader.client,
                                                 reader.watching, reader.parked, reader.pushed,
                                                 reader.got>>
        /\ \/ UNCHANGED reader /\ ~(reader.registered /\ reader.id = k.id)
           \/ ~reader'.registered /\ reader'.queue = Append(reader.queue, End) /\ reader.registered
    <3>1. reader \in ReaderType /\ reader' = Released(reader, k.id)
      BY <1>0 DEF TypeInv, Releases
    <3> QED
      BY <2>1, <3>1, ReleasedIs
  <2>3. k.by = "stop" => stop = "killing" /\ start.pc = "off" /\ ~resub.cancelled /\ stream.live_id \in {None, k.id}
    BY <2>1 DEF LiveInv, Roles
  <2>4. \A j \in kills' : j.by = "stop" => k.by # "stop"
    BY <2>1 DEF LiveInv, Roles, Releases
  <2> QED
    BY <2>1, <2>2, <2>3, <2>4 DEF Releases
<1>2. TypeInv'
  <2>1. kills' \subseteq KillType /\ stop' \in {"off", "cancelling", "killing"} /\ named' \subseteq Nat
    BY <1>0, <1>1 DEF TypeInv, Releases
  <2> QED
    BY <1>0, <1>1, <2>1 DEF TypeInv
<1>3. Known'
  BY <1>0, <1>1 DEF LiveInv, Known, Down
<1>4. Roles'
  BY <1>0, <1>1 DEF LiveInv, Roles
<1>5. Asked(resub)'
  BY <1>0, <1>1 DEF LiveInv, Asked, Private, Down, Roles
<1>6. Asked(start)'
  BY <1>0, <1>1 DEF LiveInv, Asked, Private, Down, Roles
<1>7. Buffer'
  <2>1. CASE UNCHANGED reader /\ ~(reader.registered /\ reader.id = k.id)
    BY <1>1, <2>1 DEF LiveInv, Buffer, Ended, InOrder, StillWanted
  <2>2. CASE ~reader'.registered /\ reader'.queue = Append(reader.queue, End)
    BY <1>0, <1>1, <2>2, EndAppended DEF Buffer
  <2> QED
    BY <1>1, <2>1, <2>2
<1>8. Wakes'
  <2>1. CASE UNCHANGED reader /\ ~(reader.registered /\ reader.id = k.id)
    <3>1. reader.registered /\ stream.live_id # None => reader.id = stream.live_id /\ (stop' = stop \/ stop = "off")
      BY <1>1, <2>1 DEF LiveInv, Roles
    <3> QED
      BY <1>1, <2>1, <3>1 DEF LiveInv, Wakes, Down
  <2>2. CASE ~reader'.registered
    BY <2>2 DEF Wakes
  <2> QED
    BY <1>1, <2>1, <2>2
<1>9. Same'
  BY <1>0, <1>1 DEF LiveInv, Same, SameIdentity, Resubscribed, Down
<1> QED
  BY <1>2, <1>3, <1>4, <1>5, <1>6, <1>7, <1>8, <1>9 DEF LiveInv

LEMMA KillReturnsKeeps ==
  ASSUME LiveInv, NEW by \in Callers, KillReturns(by)
  PROVE  LiveInv'
<1>0. TypeInv /\ TypesOK
  BY Types DEF LiveInv
<1>1. PICK k \in kills :
        /\ k.by = by /\ kills' = kills \ {k}
        /\ IF by # "stop" THEN reader' = Released(reader, k.id) /\ UNCHANGED <<stream, stop>>
           ELSE IF k.answer = "refused" THEN reader' = Released(reader, k.id) /\ stop' = "off" /\ UNCHANGED stream
           ELSE Stopped /\ reader' = Detached(Released(reader, k.id))
        /\ named' = IF by = "program" /\ k.answer = "refused" THEN named \cup {k.id} ELSE named
        /\ UNCHANGED <<server, resub, start, orphans, auth>>
  BY DEF KillReturns
<1>2. named' \subseteq Nat /\ k.id \in Nat
  BY <1>0, <1>1 DEF TypeInv, TypesOK, KillType
<1>3. CASE by # "stop" \/ k.answer = "refused"
  <2>1. Releases(k)
    BY <1>1, <1>2, <1>3 DEF Releases, server
  <2> QED
    BY <2>1, ReleasesKeeps
<1>4. CASE by = "stop" /\ k.answer # "refused"
  <2>1. Stopped /\ reader' = Detached(Released(reader, k.id))
    BY <1>1, <1>4
  <2>2. stream.live_id \in {None, k.id} /\ stop = "killing" /\ ~resub.cancelled
    BY <1>1, <1>4 DEF LiveInv, Roles
  <2>3. PICK r \in ReaderType : r = Released(reader, k.id)
    BY <1>0, <1>2, ReleasedIs DEF TypeInv
  <2>4. reader' = Detached(r)
    BY <2>1, <2>3
  <2>5. reader' \in ReaderType /\ ~reader'.open /\ ~reader'.registered /\ ~reader'.watching /\ reader'.id = None
    BY <2>4, DetachedIs
  <2>6. Detached(r).parked => Detached(r).queue # <<>>
    <3>1. CASE stream.live_id = k.id
      BY <2>3, <3>1, LeavesAwake
    <3>2. CASE r = reader /\ stream.live_id = None
      BY <3>2, LeavesAwake
    <3>3. CASE r # reader
      <4>1. r.queue = Append(reader.queue, End) /\ reader.queue \in Seq(Int) /\ End \in Int
        <5>1. End \in Int /\ reader.queue \in Seq(Int) /\ reader \in ReaderType
          BY <1>0 DEF TypeInv, TypesOK, End
        <5> QED
          BY <1>2, <2>3, <3>3, <5>1, ReleasedIs
      <4>2. Len(r.queue) # 0 /\ Len(<<>>) = 0
        BY <4>1, Queued
      <4> QED
        BY <4>2, DetachedIs
    <3> QED
      BY <2>2, <3>1, <3>2, <3>3
  <2>7. kills' \subseteq kills /\ \A j \in kills' : j.by # "stop"
    BY <1>1, <1>4 DEF LiveInv, Roles
  <2>8. Leaves
    BY <1>1, <1>2, <2>1, <2>2, <2>4, <2>5, <2>6, <2>7 DEF Leaves, Stopped, server
  <2> QED
    BY <2>8, LeavesKeeps
<1> QED
  BY <1>3, <1>4

-----------------------------------------------------------------------------
(***************************************************************************)
(* The invariant, and what follows from it.                                *)
(***************************************************************************)
LEMMA LiveStart == ASSUME Init PROVE LiveInv
<1>1. /\ Configured \in Identities /\ 0 \in Nat /\ <<>> \in Seq(ClientType) /\ <<>> \in Seq(QueryType)
      /\ DOMAIN <<>> = {} /\ Len(<<>>) = 0
  BY DEF Identities
<1>2. /\ clients = <<>> /\ queries = <<>>
      /\ manager = [cached |-> 0, replay |-> Configured, lost |-> FALSE]
      /\ stream = [live_id |-> 0, stopping |-> FALSE, starts |-> 0, identity |-> [as |-> Configured, kept |-> TRUE]]
      /\ reader = NoReader /\ resub = Idle /\ start = Idle /\ stop = "off" /\ kills = {} /\ orphans = {}
      /\ auth = NoAuth /\ named = {}
  BY DEF Init, None
<1>3. TypeInv
  <2>1. manager \in ManagerType
    BY <1>1, <1>2 DEF ManagerType
  <2>2. stream \in StreamType
    BY <1>1, <1>2 DEF StreamType, IdentityType
  <2>3. auth \in AuthType
    BY <1>1, <1>2 DEF AuthType, NoAuth, None
  <2>4. reader \in ReaderType /\ resub \in TaskType /\ start \in TaskType
    BY <1>2, NoReaderIs, IdleType
  <2> QED
    BY <1>1, <1>2, <2>1, <2>2, <2>3, <2>4 DEF TypeInv
<1>4. /\ ~reader.open /\ ~reader.registered /\ ~reader.watching /\ ~reader.parked /\ reader.id = 0
      /\ resub.pc = "off" /\ resub.id = 0 /\ resub.old = 0 /\ ~resub.cancelled
      /\ start.pc = "off" /\ start.id = 0 /\ auth.pc = "off" /\ stream.live_id = 0 /\ manager.cached = 0
  BY <1>2, NoReaderIs, IdleType DEF NoAuth, None
<1>5. Known
  BY <1>1, <1>2, <1>4 DEF Known
<1>6. Roles
  BY <1>1, <1>2, <1>4 DEF Roles, None
<1>7. Asked(resub) /\ Asked(start)
  BY <1>4 DEF Asked, None
<1>8. Buffer
  BY <1>4 DEF Buffer, InOrder
<1>9. Wakes
  BY <1>4 DEF Wakes
<1>10. Same
  BY <1>1, <1>2, <1>4 DEF Same, SameIdentity
<1> QED
  BY <1>3, <1>5, <1>6, <1>7, <1>8, <1>9, <1>10 DEF LiveInv

LEMMA LiveStutters == ASSUME LiveInv, UNCHANGED vars PROVE LiveInv'
<1>1. UNCHANGED <<clients, queries, manager, stream, reader, resub, start, stop, kills, orphans,
                  auth, named>>
  BY DEF vars
<1>2. TypeInv'
  BY <1>1 DEF LiveInv, TypeInv
<1>3. Known'
  BY <1>1 DEF LiveInv, Known, Down
<1>4. Roles'
  BY <1>1 DEF LiveInv, Roles
<1>5. Asked(resub)' /\ Asked(start)'
  BY <1>1 DEF LiveInv, Asked, Private, Down
<1>6. Buffer'
  BY <1>1 DEF LiveInv, Buffer, Ended, InOrder, StillWanted
<1>7. Wakes'
  BY <1>1 DEF LiveInv, Wakes, Down
<1>8. Same'
  BY <1>1 DEF LiveInv, Same, SameIdentity, Resubscribed, Down
<1> QED
  BY <1>2, <1>3, <1>4, <1>5, <1>6, <1>7, <1>8 DEF LiveInv

LEMMA LiveStep == ASSUME LiveInv, [Next]_vars PROVE LiveInv'
<1>1. CASE Resubscription
  BY <1>1, AttemptKeeps, AcquiredKeeps, SelectedKeeps, SelectFailsKeeps, CancelledKeeps
     DEF Resubscription
<1>2. CASE Calls
  BY <1>2, StartAcquiresKeeps, StartSelectsKeeps, StartReturnsKeeps, StopKillsKeeps,
     KillOrphanKeeps,
     SigninReturnsKeeps, KillReturnsKeeps DEF Calls
<1>3. CASE Server
  BY <1>3, ServerStartsKeeps, ServerSignsKeeps, ServerKillsKeeps DEF Server
<1>4. CASE Notify \/ Drop \/ ConnectionLost \/ Read \/ CancelRead \/ Receive
  BY <1>4, NotifyKeeps, DropKeeps, ConnectionLostKeeps, ReadKeeps, CancelReadKeeps, ReceiveKeeps
<1>5. CASE Start \/ Stop \/ KillLive \/ Signin \/ ClearSession \/ Close \/ GetClient
  BY <1>5, StartKeeps, StopKeeps, KillLiveKeeps, SigninKeeps, ClearSessionKeeps, CloseKeeps,
     GetClientKeeps
<1>6. CASE UNCHANGED vars
  BY <1>6, LiveStutters
<1> QED
  BY <1>1, <1>2, <1>3, <1>4, <1>5, <1>6 DEF Next

(* The invariant holds in every state a program reaches, however its       *)
(* drops, calls and answers interleave.                                    *)
THEOREM LiveInvariant == Spec => []LiveInv
<1>1. Init => LiveInv
  BY LiveStart
<1>2. LiveInv /\ [Next]_vars => LiveInv'
  BY LiveStep
<1> QED
  BY <1>1, <1>2, PTL DEF Spec

(* Notifications come once and in order, through drops, resubscriptions    *)
(* and cancelled reads; an end comes after them (rebind(), __anext__()).   *)
THEOREM NotificationsInOrder == Spec => []InOrder
<1>1. LiveInv => InOrder
  BY DEF LiveInv, Buffer
<1> QED
  BY <1>1, LiveInvariant, PTL

(* A resubscription never shows the reader another identity's permissions, *)
(* unless a signin was under way while it asked (_check_identity()).       *)
THEOREM IdentityKept == Spec => []SameIdentity
<1>1. LiveInv => SameIdentity
  BY DEF LiveInv, Same
<1> QED
  BY <1>1, LiveInvariant, PTL

(* A parked reader waits for a live query the server runs, or for a task   *)
(* that wakes it (_connection_lost(), _resubscribe_once(), kill(), stop()).*)
THEOREM NobodyWaitsForGood == Spec => []NeverParkedForGood
<1>1. LiveInv => NeverParkedForGood
  <2> SUFFICES ASSUME LiveInv, reader.parked, reader.queue = <<>>
               PROVE  Awaited
    BY DEF NeverParkedForGood
  <2>1. reader.open
    BY DEF LiveInv, Buffer
  <2>2. ~Ended
    <3>1. TypesOK
      BY Types DEF LiveInv
    <3>2. Len(reader.queue) = 0 /\ reader.pushed \in Nat /\ reader.got \in Int /\ reader.got <= reader.pushed
      BY <2>1, <3>1 DEF TypesOK, LiveInv, Buffer
    <3> QED
      BY <3>2 DEF Ended
  <2>3. reader.registered /\ stream.live_id # None
    BY <2>1, <2>2 DEF LiveInv, Buffer
  <2>4. Down(reader.client) => Dead(reader.client)
    BY DEF Down, Dead
  <2> QED
    BY <2>3, <2>4 DEF LiveInv, Wakes, Awaited
<1> QED
  BY <1>1, LiveInvariant, PTL

-----------------------------------------------------------------------------
(***************************************************************************)
(* No live query is lost, where the server refuses no kill of the stream.  *)
(***************************************************************************)
(* A live query that runs, on a connection nobody dropped or retired.      *)
Lives(q) == q \in DOMAIN queries /\ queries[q].alive /\ ~Dead(queries[q].client)

(* A call of kill() goes to the connection its live query is on; the       *)
(* server refuses the program's calls alone.                               *)
Aimed(k) ==
  /\ k.answer = "done" => ~Lives(k.id)
  /\ k.answer = "refused" => k.by = "program"
  /\ Lives(k.id) => queries[k.id].client = k.client

HeldInv ==
  /\ reader.open => reader.got >= 0
  /\ stream.live_id # None /\ (~reader.registered \/ Ended) => ~Lives(stream.live_id) \/ stream.live_id \in named
  /\ \A k \in kills : Aimed(k)
  /\ \A q \in DOMAIN queries : Lives(q) => Held(q)

(* No step but the answer to a LIVE SELECT makes a live query run.         *)
Shrinks == \A q : Lives(q)' => Lives(q) /\ queries'[q].client = queries[q].client

LEMMA HeldStays ==
  ASSUME HeldInv, Shrinks, (reader'.open => reader'.got >= 0),
         stream'.live_id # None /\ (~reader'.registered \/ Ended')
           => ~Lives(stream.live_id)' \/ stream'.live_id \in named',
         \A k \in kills' : k \in kills \/ Aimed(k)',
         \A q : Lives(q)' /\ Held(q) => Held(q)'
  PROVE  HeldInv'
<1>1. \A k \in kills : Aimed(k)'
  BY DEF HeldInv, Aimed, Shrinks
<1>2. \A q \in DOMAIN queries' : Lives(q)' => Held(q)'
  BY DEF HeldInv, Shrinks, Lives
<1> QED
  BY <1>1, <1>2 DEF HeldInv

LEMMA SameQueriesShrink == ASSUME UNCHANGED <<clients, queries>> PROVE Shrinks
BY DEF Shrinks, Lives, Dead

LEMMA ConnectsShrink == ASSUME LiveInv, Connects, UNCHANGED queries PROVE Shrinks
BY DEF Shrinks, Lives, Dead, Connects, LiveInv, Known

(* Clients are dropped or retired, or change their session.                *)
LEMMA FewerClients ==
  ASSUME LiveInv, UNCHANGED queries, \A c \in DOMAIN clients : clients'[c].net = "up" => clients[c].net = "up"
  PROVE  Shrinks
BY DEF Shrinks, Lives, Dead, LiveInv, Known

(* A step that leaves what is known of live queries alone.                 *)
LEMMA Quiet ==
  ASSUME HeldInv, Shrinks, UNCHANGED <<stream.live_id, start.id, resub.id, kills, orphans, named>>,
         (reader'.open => reader'.got >= 0), reader.registered => reader'.registered, Ended' => Ended
  PROVE  HeldInv'
<1>1. \A q : Held(q) => Held(q)'
  BY DEF Held
<1>2. stream'.live_id # None /\ (~reader'.registered \/ Ended') => ~Lives(stream.live_id)' \/ stream'.live_id \in named'
  BY DEF HeldInv, Shrinks
<1> QED
  BY <1>1, <1>2, HeldStays

LEMMA QuietReader ==
  ASSUME HeldInv, Shrinks, UNCHANGED <<stream.live_id, start.id, resub.id, kills, orphans, named,
                                       reader>>
  PROVE  HeldInv'
<1>1. (reader'.open => reader'.got >= 0) /\ (Ended' => Ended)
  BY DEF HeldInv, Ended
<1> QED
  BY <1>1, Quiet

LEMMA UnservedNone == ASSUME LiveInv, ~Served PROVE \A q : ~Lives(q)
<1>1. TypesOK
  BY Types DEF LiveInv
<1>2. \A c \in DOMAIN clients : clients[c].net # "up"
  BY <1>1, Unserved
<1> QED
  BY <1>2 DEF Lives, Dead, LiveInv, Known

LEMMA LivesCached == ASSUME LiveInv, NEW q, Lives(q) PROVE queries[q].client = manager.cached /\ Served
<1>1. Served
  BY UnservedNone
<1> QED
  BY <1>1 DEF Lives, Dead, LiveInv, Known, Roles

(* A task that knows a live query hands it to kill().                      *)
LEMMA KillHolds ==
  ASSUME LiveInv, NEW by \in Callers, NEW id \in Nat, Kill(by, id), UNCHANGED <<clients, queries>>
  PROVE  /\ \A k \in kills' : k \in kills \/ Aimed(k)'
         /\ \A k \in kills : k \in kills'
         /\ Lives(id) => \E k \in kills' : k.id = id
<1>1. TypesOK
  BY Types DEF LiveInv
<1>2. /\ kills \subseteq kills'
      /\ \A k \in kills' : k \in kills \/ (k.id = id /\ k.answer = "none" /\ k.client = manager.cached)
      /\ Served => \E k \in kills' : k.id = id
  <2>1. /\ kills \subseteq kills'
        /\ \A k \in kills' : k \in kills \/ /\ k \in KillType /\ k.by = by /\ k.id = id /\ k.answer = "none"
                                            /\ k.client = manager.cached /\ manager.cached # None /\ Served
        /\ Served => \E k \in kills' : k.by = by /\ k.id = id /\ k.client = manager.cached /\ k.answer = "none"
    BY <1>1, KillSent
  <2> QED
    BY <2>1
<1>3. Lives(id) => queries[id].client = manager.cached /\ Served
  BY LivesCached
<1>4. (Lives(id)' <=> Lives(id)) /\ queries'[id] = queries[id]
  BY DEF Lives, Dead
<1>5. \A k \in kills' : k \in kills \/ Aimed(k)'
  BY <1>2, <1>3, <1>4 DEF Aimed
<1> QED
  BY <1>2, <1>3, <1>4, <1>5

LEMMA ReadHolds ==
  ASSUME LiveInv, HeldInv, Read
  PROVE  HeldInv'
<1>0. TypeInv /\ TypesOK
  BY Types DEF LiveInv
<1>1. Shrinks
  BY SameQueriesShrink DEF Read, server
<1>2. UNCHANGED <<stream.live_id, start.id, resub.id, kills, orphans, named, reader.open, reader.id,
                  reader.client, reader.registered, reader.watching, reader.queue, reader.pushed,
                  reader.got>>
  BY <1>0 DEF Read, calls, TypeInv, ReaderType, StreamType, TaskType
<1> QED
  BY <1>1, <1>2, Quiet DEF Ended, HeldInv

LEMMA CancelReadHolds ==
  ASSUME LiveInv, HeldInv, CancelRead
  PROVE  HeldInv'
<1>0. TypeInv /\ TypesOK
  BY Types DEF LiveInv
<1>1. Shrinks
  BY SameQueriesShrink DEF CancelRead, server
<1>2. UNCHANGED <<stream.live_id, start.id, resub.id, kills, orphans, named, reader.open, reader.id,
                  reader.client, reader.registered, reader.watching, reader.queue, reader.pushed,
                  reader.got>>
  BY <1>0 DEF CancelRead, calls, TypeInv, ReaderType, StreamType, TaskType
<1> QED
  BY <1>1, <1>2, Quiet DEF Ended, HeldInv

LEMMA NotifyHolds ==
  ASSUME LiveInv, HeldInv, Notify
  PROVE  HeldInv'
<1>0. TypeInv /\ TypesOK
  BY Types DEF LiveInv
<1>1. Shrinks
  BY SameQueriesShrink DEF Notify, server
<1>2. /\ UNCHANGED <<stream.live_id, start.id, resub.id, kills, orphans, named, reader.registered,
                     reader.got, reader.open>>
      /\ reader'.pushed = reader.pushed + 1 /\ Len(reader'.queue) = Len(reader.queue) + 1
  <2>1. /\ reader' = [reader EXCEPT !.pushed = @ + 1, !.queue = Append(@, reader.pushed + 1)]
        /\ UNCHANGED <<stream, start, resub, kills, orphans, named>>
    BY DEF Notify, calls
  <2>2. reader.pushed + 1 \in Int /\ reader.queue \in Seq(Int)
    BY <1>0 DEF TypesOK
  <2>3. Len(Append(reader.queue, reader.pushed + 1)) = Len(reader.queue) + 1
    BY <2>2, Queued
  <2>4. /\ UNCHANGED <<reader.registered, reader.got, reader.open>>
        /\ reader'.pushed = reader.pushed + 1 /\ reader'.queue = Append(reader.queue, reader.pushed + 1)
    BY <1>0, <2>1 DEF TypeInv, ReaderType
  <2> QED
    BY <2>1, <2>3, <2>4
<1>3. Ended' => Ended
  <2>1. reader.pushed \in Int /\ reader.got \in Int /\ Len(reader.queue) \in Int
    BY <1>0 DEF TypesOK
  <2>2. reader'.pushed - reader'.got = (reader.pushed - reader.got) + 1
    BY <1>2, <2>1
  <2> QED
    BY <1>2, <2>1, <2>2 DEF Ended
<1> QED
  BY <1>1, <1>2, <1>3, Quiet DEF HeldInv

LEMMA ConnectionLostHolds ==
  ASSUME LiveInv, HeldInv, ConnectionLost
  PROVE  HeldInv'
<1>0. TypeInv /\ TypesOK
  BY Types DEF LiveInv
<1>1. Shrinks
  BY SameQueriesShrink DEF ConnectionLost, server
<1>2. UNCHANGED <<stream.live_id, start.id, resub.id, kills, orphans, named, reader.open, reader.id,
                  reader.client, reader.registered, reader.parked, reader.queue, reader.pushed,
                  reader.got>>
  <2>1. UNCHANGED <<stream, start, kills, orphans,
                    named>> /\ UNCHANGED <<reader.open, reader.id, reader.client, reader.registered, reader.parked, reader.queue, reader.pushed, reader.got>>
    BY <1>0 DEF ConnectionLost, calls, TypeInv, ReaderType
  <2>2. resub'.id = resub.id
    <3>1. CASE resub' = resub
      BY <3>1
    <3>2. CASE resub' = [Idle EXCEPT !.pc = "begin", !.old = stream.live_id] /\ resub.pc = "off"
      <4>1. resub'.id = None
        BY <3>2, IdleType DEF TaskType
      <4>2. resub.id = None
        BY <3>2 DEF LiveInv, Asked
      <4> QED
        BY <4>1, <4>2
    <3> QED
      BY <3>1, <3>2 DEF ConnectionLost, Schedules
  <2> QED
    BY <2>1, <2>2
<1> QED
  BY <1>1, <1>2, Quiet DEF Ended, HeldInv

LEMMA DropHolds ==
  ASSUME LiveInv, HeldInv, Drop
  PROVE  HeldInv'
<1>0. TypeInv /\ TypesOK
  BY Types DEF LiveInv
<1>1. PICK c \in DOMAIN clients :
        /\ clients' = [clients EXCEPT ![c].net = "down", ![c].runs = Configured]
        /\ queries' = [q \in DOMAIN queries |-> IF queries[q].client = c THEN Gone ELSE queries[q]]
  BY DEF Drop
<1>2. /\ \A d \in DOMAIN clients : d # c => clients'[d] = clients[d]
      /\ clients \in Seq(ClientType)
  BY <1>0, <1>1, ClientDropped DEF TypeInv
<1>3. \A q \in DOMAIN queries' : q \in DOMAIN queries /\ (queries'[q].alive => queries'[q] = queries[q] /\ queries[q].client # c)
  BY <1>1, GoneIs
<1>4. Shrinks
  BY <1>2, <1>3 DEF Shrinks, Lives, Dead, LiveInv, Known
<1>5. UNCHANGED <<stream.live_id, start.id, resub.id, kills, orphans, named, reader>>
  BY DEF Drop, calls
<1> QED
  BY <1>4, <1>5, QuietReader

LEMMA ServerSignsHolds ==
  ASSUME LiveInv, HeldInv, ServerSigns
  PROVE  HeldInv'
<1>0. TypeInv /\ TypesOK
  BY Types DEF LiveInv
<1>1. Shrinks
  <2>1. auth.client \in DOMAIN clients /\ auth.to \in Identities /\ clients \in Seq(ClientType)
    BY <1>0 DEF ServerSigns, LiveInv, Known, TypeInv, AuthType
  <2>2. clients' = [clients EXCEPT ![auth.client].runs = auth.to] /\ UNCHANGED queries
    BY DEF ServerSigns
  <2>3. \A d \in DOMAIN clients : clients'[d].net = clients[d].net
    BY <2>1, <2>2, ClientChanged
  <2> QED
    BY <2>2, <2>3, FewerClients
<1>3. UNCHANGED <<stream.live_id, start.id, resub.id, kills, orphans, named, reader>>
  BY <1>0 DEF ServerSigns, calls, TypeInv, StreamType, TaskType
<1> QED
  BY <1>1, <1>3, QuietReader

LEMMA SigninReturnsHolds ==
  ASSUME LiveInv, HeldInv, SigninReturns
  PROVE  HeldInv'
<1>0. TypeInv /\ TypesOK
  BY Types DEF LiveInv
<1>1. Shrinks
  <2>1. \A d \in DOMAIN clients : clients'[d].net = clients[d].net
    <3>1. CASE UNCHANGED clients
      BY <3>1
    <3>2. CASE auth.pc = "signed" /\ clients' = [clients EXCEPT ![auth.client].stamp = Stamp(auth.to, auth.kept)]
      <4>1. auth.client \in DOMAIN clients /\ clients \in Seq(ClientType)
        BY <1>0, <3>2 DEF LiveInv, Known, TypeInv
      <4>2. Stamp(auth.to, auth.kept) \in IdentityType
        BY <1>0 DEF Stamp, IdentityType, TypeInv, AuthType, ManagerType
      <4> QED
        BY <3>2, <4>1, <4>2, Stamped
    <3> QED
      BY <3>1, <3>2 DEF SigninReturns
  <2> QED
    BY <2>1, FewerClients DEF SigninReturns
<1>3. UNCHANGED <<stream.live_id, start.id, resub.id, kills, orphans, named, reader>>
  BY <1>0 DEF SigninReturns, calls, TypeInv, StreamType, TaskType
<1> QED
  BY <1>1, <1>3, QuietReader

LEMMA StartHolds ==
  ASSUME LiveInv, HeldInv, Start
  PROVE  HeldInv'
<1>0. TypeInv /\ TypesOK
  BY Types DEF LiveInv
<1>1. Shrinks
  BY SameQueriesShrink DEF Start, server
<1>2. start'.id = None /\ start.id = None /\ resub'.id = resub.id
  <2>1. start.id = None /\ start' = [Idle EXCEPT !.pc = "waiting"]
    BY DEF Start, LiveInv, Asked
  <2>2. start'.id = None
    BY <2>1, IdleType DEF TaskType
  <2>3. resub'.id = resub.id
    BY <1>0 DEF Start, CancelTasks, TypeInv, TaskType
  <2> QED
    BY <2>1, <2>2, <2>3
<1>3. UNCHANGED <<stream.live_id, start.id, resub.id, kills, orphans, named, reader>>
  BY <1>0, <1>2 DEF Start, calls, TypeInv, StreamType, TaskType
<1> QED
  BY <1>1, <1>3, QuietReader

LEMMA StopHolds ==
  ASSUME LiveInv, HeldInv, Stop
  PROVE  HeldInv'
<1>0. TypeInv /\ TypesOK
  BY Types DEF LiveInv
<1>1. Shrinks
  BY SameQueriesShrink DEF Stop, server
<1>3. UNCHANGED <<stream.live_id, start.id, resub.id, kills, orphans, named, reader>>
  BY <1>0 DEF Stop, calls, TypeInv, StreamType, TaskType, CancelTasks
<1> QED
  BY <1>1, <1>3, QuietReader

LEMMA StartAcquiresHolds ==
  ASSUME LiveInv, HeldInv, StartAcquires
  PROVE  HeldInv'
<1>0. TypeInv /\ TypesOK
  BY Types DEF LiveInv
<1>1. Shrinks
  BY SameQueriesShrink DEF StartAcquires, server
<1>3. UNCHANGED <<stream.live_id, start.id, resub.id, kills, orphans, named, reader>>
  BY <1>0 DEF StartAcquires, calls, TypeInv, StreamType, TaskType
<1> QED
  BY <1>1, <1>3, QuietReader

LEMMA AcquisitionShrinks ==
  ASSUME LiveInv, UNCHANGED queries, NEW as \in Identities, NEW wanted, NEW restoring,
         NEW a \in Acquisitions(as, wanted, restoring), clients' = a.clients, manager' = a.manager
  PROVE  Shrinks
<1>1. TypesOK
  BY Types DEF LiveInv
<1>2. Connects
  BY <1>1, Connecting
<1> QED
  BY <1>2, ConnectsShrink

LEMMA ClearSessionHolds ==
  ASSUME LiveInv, HeldInv, ClearSession
  PROVE  HeldInv'
<1>0. TypeInv /\ TypesOK
  BY Types DEF LiveInv
<1>1. Shrinks
  BY SameQueriesShrink DEF ClearSession, server
<1>3. UNCHANGED <<stream.live_id, start.id, resub.id, kills, orphans, named, reader>>
  BY <1>0 DEF ClearSession, calls, TypeInv, StreamType, TaskType
<1> QED
  BY <1>1, <1>3, QuietReader

LEMMA GetClientHolds ==
  ASSUME LiveInv, HeldInv, GetClient
  PROVE  HeldInv'
<1>0. TypeInv /\ TypesOK
  BY Types DEF LiveInv
<1>1. Shrinks
  <2>1. manager.replay \in Identities
    BY <1>0 DEF TypeInv, ManagerType
  <2>2. PICK a \in Acquisitions(manager.replay, TRUE, FALSE) : clients' = a.clients /\ manager' = a.manager
    BY DEF GetClient
  <2>3. UNCHANGED queries
    BY DEF GetClient
  <2> QED
    BY <2>1, <2>2, <2>3, AcquisitionShrinks
<1>3. UNCHANGED <<stream.live_id, start.id, resub.id, kills, orphans, named, reader>>
  BY <1>0 DEF GetClient, calls, TypeInv, StreamType, TaskType
<1> QED
  BY <1>1, <1>3, QuietReader

LEMMA SigninHolds ==
  ASSUME LiveInv, HeldInv, Signin
  PROVE  HeldInv'
<1>0. TypeInv /\ TypesOK
  BY Types DEF LiveInv
<1>1. Shrinks
  <2>1. manager.replay \in Identities
    BY <1>0 DEF TypeInv, ManagerType
  <2>2. PICK a \in Acquisitions(manager.replay, TRUE, TRUE) : clients' = a.clients /\ manager' = a.manager
    BY DEF Signin
  <2>3. UNCHANGED queries
    BY DEF Signin
  <2> QED
    BY <2>1, <2>2, <2>3, AcquisitionShrinks
<1>3. UNCHANGED <<stream.live_id, start.id, resub.id, kills, orphans, named, reader>>
  BY <1>0 DEF Signin, calls, TypeInv, StreamType, TaskType
<1> QED
  BY <1>1, <1>3, QuietReader

LEMMA StartSelectsHolds ==
  ASSUME LiveInv, HeldInv, StartSelects
  PROVE  HeldInv'
<1>0. TypeInv /\ TypesOK
  BY Types DEF LiveInv
<1>1. Shrinks
  <2>1. start.as \in Identities
    BY <1>0 DEF TypeInv, TaskType
  <2>2. PICK a \in Acquisitions(start.as, TRUE, FALSE) : clients' = a.clients /\ manager' = a.manager
    BY DEF StartSelects
  <2>3. UNCHANGED queries
    BY DEF StartSelects
  <2> QED
    BY <2>1, <2>2, <2>3, AcquisitionShrinks
<1>2. UNCHANGED <<stream.live_id, start.id>>
  <2>1. PICK a \in Acquisitions(start.as, TRUE, FALSE) :
          IF a.error # "none" THEN start' = Idle /\ UNCHANGED stream
          ELSE /\ start' = [start EXCEPT !.pc = "selecting", !.client = a.client]
               /\ stream' = [stream EXCEPT !.identity = a.clients[a.client].stamp]
    BY DEF StartSelects
  <2>2. start.id = None
    BY DEF StartSelects, LiveInv, Asked
  <2>3. CASE start' = Idle /\ UNCHANGED stream
    BY <2>2, <2>3, IdleType
  <2>4. CASE /\ start' = [start EXCEPT !.pc = "selecting", !.client = a.client]
             /\ stream' = [stream EXCEPT !.identity = a.clients[a.client].stamp]
    BY <1>0, <2>4 DEF TypeInv, TaskType, StreamType
  <2> QED
    BY <2>1, <2>3, <2>4
<1>3. UNCHANGED <<stream.live_id, start.id, resub.id, kills, orphans, named, reader>>
  BY <1>0, <1>2 DEF StartSelects, calls, TypeInv, StreamType, TaskType
<1> QED
  BY <1>1, <1>3, QuietReader

(* The resubscription leaves its query, if it has one, to nobody.          *)
LEMMA AbandonHolds ==
  ASSUME LiveInv, HeldInv, Shrinks, ~Lives(resub.id), resub' = Idle,
         UNCHANGED <<stream, reader, start, kills, orphans, named>>
  PROVE  HeldInv'
<1>1. resub'.id = None
  BY IdleType
<1>2. \A q : Lives(q)' /\ Held(q) => Held(q)'
  BY <1>1 DEF Held, Shrinks
<1>3. /\ (reader'.open => reader'.got >= 0)
      /\ stream'.live_id # None /\ (~reader'.registered \/ Ended') => ~Lives(stream.live_id)' \/ stream'.live_id \in named'
  BY DEF HeldInv, Ended, Shrinks
<1> QED
  BY <1>2, <1>3, HeldStays

LEMMA WantedIsOver ==
  ASSUME LiveInv, StillWanted(resub.old), resub.pc # "off"
  PROVE  stream.live_id = resub.old /\ ~Lives(stream.live_id)
BY DEF LiveInv, Roles, StillWanted, Lives

LEMMA GiveUpHolds ==
  ASSUME LiveInv, HeldInv, Shrinks, ~Lives(resub.id), resub.pc # "off", StillWanted(resub.old), GiveUp,
         UNCHANGED <<start, kills, orphans, named>>
  PROVE  HeldInv'
<1>0. TypeInv /\ TypesOK
  BY Types DEF LiveInv
<1>1. resub'.id = None /\ stream'.live_id = None
  BY <1>0, IdleType, StreamForgets DEF GiveUp, TypeInv
<1>2. ~Lives(stream.live_id)
  BY WantedIsOver
<1>3. \A q : Lives(q)' /\ Held(q) => Held(q)'
  BY <1>1, <1>2 DEF Held, Shrinks
<1>4. reader'.got = reader.got /\ reader'.open = reader.open
  BY <1>0 DEF GiveUp, Failed, TypeInv, ReaderType
<1> QED
  BY <1>1, <1>3, <1>4, HeldStays DEF HeldInv

LEMMA PauseHolds ==
  ASSUME LiveInv, HeldInv, Shrinks, ~Lives(resub.id), resub'.id = None,
         UNCHANGED <<stream, reader, start, kills, orphans, named>>
  PROVE  HeldInv'
<1>1. \A q : Lives(q)' /\ Held(q) => Held(q)'
  BY DEF Held, Shrinks
<1>2. /\ (reader'.open => reader'.got >= 0)
      /\ stream'.live_id # None /\ (~reader'.registered \/ Ended') => ~Lives(stream.live_id)' \/ stream'.live_id \in named'
  BY DEF HeldInv, Ended, Shrinks
<1> QED
  BY <1>1, <1>2, HeldStays

LEMMA FailsHolds ==
  ASSUME LiveInv, HeldInv, Shrinks, NEW error, Fails(error), ~Lives(resub.id), resub.pc # "off",
         UNCHANGED <<start, kills, orphans, named>>
  PROVE  HeldInv'
<1>1. CASE Abandon
  BY <1>1, AbandonHolds DEF Abandon
<1>2. CASE StillWanted(resub.old) /\ GiveUp
  BY <1>2, GiveUpHolds
<1>3. CASE resub' = [resub EXCEPT !.pc = "backoff", !.client = None, !.id = None, !.raced = FALSE] /\ UNCHANGED <<stream, reader>>
  <2>1. resub'.id = None
    BY <1>3 DEF LiveInv, TypeInv, TaskType
  <2> QED
    BY <1>3, <2>1, PauseHolds
<1> QED
  BY <1>1, <1>2, <1>3 DEF Fails

LEMMA NoneLives == ASSUME LiveInv PROVE ~Lives(None)
<1>1. TypesOK
  BY Types DEF LiveInv
<1> QED
  BY <1>1, NoneIsNoQuery DEF Lives

LEMMA AttemptHolds ==
  ASSUME LiveInv, HeldInv, Attempt
  PROVE  HeldInv'
<1>0. TypeInv /\ TypesOK
  BY Types DEF LiveInv
<1>1. Shrinks
  BY SameQueriesShrink DEF Attempt, server
<1>2. resub.pc # "off" /\ resub.id = None /\ ~Lives(resub.id)
  BY NoneLives DEF Attempt, LiveInv, Asked
<1>3. UNCHANGED <<start, kills, orphans, named>>
  BY DEF Attempt, calls
<1>4. CASE Abandon
  BY <1>1, <1>2, <1>3, <1>4, AbandonHolds DEF Abandon
<1>5. CASE StillWanted(resub.old) /\ GiveUp
  BY <1>1, <1>2, <1>3, <1>5, GiveUpHolds
<1>6. CASE /\ resub' = [resub EXCEPT !.pc = "acquiring", !.attempt = Counted(@), !.as = manager.replay]
           /\ UNCHANGED <<stream, reader>>
  <2>1. resub'.id = None
    BY <1>0, <1>2, <1>6 DEF TypeInv, TaskType
  <2> QED
    BY <1>1, <1>2, <1>3, <1>6, <2>1, PauseHolds
<1> QED
  BY <1>4, <1>5, <1>6 DEF Attempt

LEMMA AcquiredHolds ==
  ASSUME LiveInv, HeldInv, Acquired
  PROVE  HeldInv'
<1>0. TypeInv /\ TypesOK
  BY Types DEF LiveInv
<1>1. PICK a \in Acquisitions(resub.as, StillWanted(resub.old), FALSE) :
        /\ clients' = a.clients /\ manager' = a.manager
        /\ IF a.error # "none" THEN Fails(a.error)
           ELSE IF ~StillWanted(resub.old) THEN Abandon
           ELSE IF ~CheckIdentity(a.manager, a.clients, a.client) THEN GiveUp
           ELSE /\ resub' = [resub EXCEPT !.pc = "selecting", !.client = a.client, !.raced = auth.pc # "off"]
                /\ UNCHANGED <<stream, reader>>
  BY DEF Acquired
<1>2. resub.pc # "off" /\ resub.id = None /\ ~Lives(resub.id)
  BY NoneLives DEF Acquired, LiveInv, Asked
<1>3. UNCHANGED <<queries, start, kills, orphans, named>>
  BY DEF Acquired, calls
<1>4. Shrinks
  <2>1. resub.as \in Identities
    BY <1>0 DEF TypeInv, TaskType
  <2>2. clients' = a.clients /\ manager' = a.manager
    BY <1>1
  <2> QED
    BY <1>3, <2>1, <2>2, AcquisitionShrinks
<1>5. CASE Fails(a.error)
  BY <1>2, <1>3, <1>4, <1>5, FailsHolds
<1>6. CASE Abandon
  BY <1>2, <1>3, <1>4, <1>6, AbandonHolds DEF Abandon
<1>7. CASE StillWanted(resub.old) /\ GiveUp
  BY <1>2, <1>3, <1>4, <1>7, GiveUpHolds
<1>8. CASE /\ resub' = [resub EXCEPT !.pc = "selecting", !.client = a.client, !.raced = auth.pc # "off"]
           /\ UNCHANGED <<stream, reader>>
  <2>1. resub'.id = None
    BY <1>0, <1>2, <1>8 DEF TypeInv, TaskType
  <2> QED
    BY <1>2, <1>3, <1>4, <1>8, <2>1, PauseHolds
<1> QED
  BY <1>1, <1>5, <1>6, <1>7, <1>8

LEMMA SelectFailsHolds ==
  ASSUME LiveInv, HeldInv, SelectFails
  PROVE  HeldInv'
<1>0. TypeInv /\ TypesOK
  BY Types DEF LiveInv
<1>1. Shrinks
  BY SameQueriesShrink DEF SelectFails, server
<1>2. resub.pc # "off" /\ ~Lives(resub.id)
  <2>1. CASE resub.id = None
    BY <2>1, NoneLives DEF SelectFails
  <2>2. CASE resub.id # None /\ Down(resub.client)
    BY <2>2 DEF SelectFails, LiveInv, Asked, Lives
  <2> QED
    BY <2>1, <2>2 DEF SelectFails
<1>3. UNCHANGED <<start, kills, orphans, named>>
  BY DEF SelectFails, calls
<1>4. PICK error \in {"transient", "final"} : Fails(error)
  BY DEF SelectFails
<1> QED
  BY <1>1, <1>2, <1>3, <1>4, FailsHolds

LEMMA SelectedHolds ==
  ASSUME LiveInv, HeldInv, Selected
  PROVE  HeldInv'
<1>0. TypeInv /\ TypesOK
  BY Types DEF LiveInv
<1>1. Shrinks
  BY SameQueriesShrink DEF Selected, server
<1>2. /\ resub.pc = "selecting" /\ resub.id # None /\ ~resub.cancelled /\ resub.id \in Nat /\ resub'.id = None
      /\ UNCHANGED <<clients, queries, start, orphans, named>>
  BY <1>0, IdleType DEF Selected, server, TypesOK
<1>3. CASE StillWanted(resub.old)
  <2>1. /\ stream' = [stream EXCEPT !.live_id = resub.id] /\ UNCHANGED kills
        /\ reader' = Rebound(reader, resub.client, resub.id)
    BY <1>3 DEF Selected
  <2>2. stream'.live_id = resub.id
    BY <1>0, <2>1 DEF TypeInv, StreamType
  <2>3. reader \in ReaderType /\ resub.client \in Nat
    BY <1>0 DEF TypeInv, TypesOK
  <2>4. /\ reader'.registered /\ reader'.queue = reader.queue /\ reader'.pushed = reader.pushed
        /\ reader'.got = reader.got /\ reader'.open = reader.open
    BY <1>2, <2>1, <2>3, ReboundIs
  <2>5. ~Ended'
    <3>1. ~Ended
      BY <1>2, <1>3 DEF LiveInv, Buffer, StillWanted
    <3> QED
      BY <2>4, <3>1 DEF Ended
  <2>6. ~Lives(stream.live_id)
    BY <1>2, <1>3, WantedIsOver
  <2>7. \A q : Lives(q)' /\ Held(q) => Held(q)'
    BY <1>1, <1>2, <2>1, <2>2, <2>6 DEF Held, Shrinks
  <2>8. (reader'.open => reader'.got >= 0)
    BY <2>4 DEF HeldInv
  <2> QED
    BY <1>1, <2>1, <2>4, <2>5, <2>7, <2>8, HeldStays
<1>4. CASE ~StillWanted(resub.old)
  <2>1. Kill("resubscription", resub.id) /\ UNCHANGED <<stream, reader>>
    BY <1>4 DEF Selected
  <2>2. /\ \A k \in kills' : k \in kills \/ Aimed(k)'
        /\ \A k \in kills : k \in kills'
        /\ Lives(resub.id) => \E k \in kills' : k.id = resub.id
    <3>1. "resubscription" \in Callers
      BY DEF Callers
    <3>2. PICK id \in Nat : id = resub.id
      BY <1>2
    <3> QED
      BY <1>2, <2>1, <3>1, <3>2, KillHolds
  <2>3. \A q : Lives(q)' /\ Held(q) => Held(q)'
    BY <1>1, <1>2, <2>1, <2>2 DEF Held, Shrinks
  <2>4. /\ (reader'.open => reader'.got >= 0)
        /\ stream'.live_id # None /\ (~reader'.registered \/ Ended')
             => ~Lives(stream.live_id)' \/ stream'.live_id \in named'
    BY <1>1, <1>2, <2>1 DEF HeldInv, Ended, Shrinks
  <2> QED
    BY <1>1, <2>2, <2>3, <2>4, HeldStays
<1> QED
  BY <1>3, <1>4

LEMMA CancelledHolds ==
  ASSUME LiveInv, HeldInv, Cancelled
  PROVE  HeldInv'
<1>0. TypeInv /\ TypesOK
  BY Types DEF LiveInv
<1>1. Shrinks
  BY SameQueriesShrink DEF Cancelled, server
<1>2. /\ orphans' = orphans \cup Shielded /\ resub'.id = None
      /\ UNCHANGED <<stream, reader, start, kills, named>>
  BY IdleType DEF Cancelled
<1>3. resub.id # None => \E o \in orphans' : o.id = resub.id
  <2>1. resub.id # None => resub.pc = "selecting"
    BY DEF LiveInv, Asked
  <2>2. PICK o : o = [client |-> resub.client, id |-> resub.id, raced |-> resub.raced, run |-> stream.starts]
    OBVIOUS
  <2>3. resub.id # None => o \in orphans'
    BY <1>2, <2>1, <2>2 DEF Shielded
  <2>4. o.id = resub.id
    BY <2>2
  <2> QED
    BY <2>3, <2>4
<1>4. \A q : Lives(q)' /\ Held(q) => Held(q)'
  BY <1>1, <1>2, <1>3, NoneLives DEF Held, Shrinks
<1>5. (reader'.open => reader'.got >= 0) /\ (stream'.live_id # None /\ (~reader'.registered \/ Ended')
             => ~Lives(stream.live_id)' \/ stream'.live_id \in named')
  BY <1>1, <1>2 DEF HeldInv, Ended, Shrinks
<1> QED
  BY <1>1, <1>2, <1>4, <1>5, HeldStays

LEMMA KillOrphanHolds ==
  ASSUME LiveInv, HeldInv, KillOrphan
  PROVE  HeldInv'
<1>0. TypeInv /\ TypesOK
  BY Types DEF LiveInv
<1>1. Shrinks
  BY SameQueriesShrink DEF KillOrphan, server
<1>2. PICK o \in orphans :
        /\ orphans' = orphans \ {o}
        /\ \/ o.id # None /\ Kill("orphan", o.id)
           \/ o.id = None /\ UNCHANGED kills
        /\ UNCHANGED <<clients, queries, stream, reader, resub, start, named>>
  BY DEF KillOrphan, server
<1>3. /\ \A k \in kills' : k \in kills \/ Aimed(k)'
      /\ \A k \in kills : k \in kills'
      /\ Lives(o.id) => \E k \in kills' : k.id = o.id
  <2>1. CASE o.id = None /\ UNCHANGED kills
    BY <2>1, NoneLives
  <2>2. CASE Kill("orphan", o.id)
    <3>1. "orphan" \in Callers
      BY DEF Callers
    <3>2. o.id \in Nat
      BY <1>0 DEF TypesOK, OrphanType
    <3> QED
      BY <1>2, <2>2, <3>1, <3>2, KillHolds
  <2> QED
    BY <1>2, <2>1, <2>2
<1>4. \A q : Lives(q)' /\ Held(q) => Held(q)'
  BY <1>1, <1>2, <1>3 DEF Held, Shrinks
<1>5. (reader'.open => reader'.got >= 0) /\ (stream'.live_id # None /\ (~reader'.registered \/ Ended')
             => ~Lives(stream.live_id)' \/ stream'.live_id \in named')
  BY <1>1, <1>2 DEF HeldInv, Ended, Shrinks
<1> QED
  BY <1>1, <1>3, <1>4, <1>5, HeldStays

LEMMA StartReturnsHolds ==
  ASSUME LiveInv, HeldInv, StartReturns
  PROVE  HeldInv'
<1>0. TypeInv /\ TypesOK
  BY Types DEF LiveInv
<1>1. Shrinks
  BY SameQueriesShrink DEF StartReturns, server
<1>2. start'.id = None /\ stream.live_id = None /\ UNCHANGED <<resub, kills, orphans, named>>
  BY IdleType DEF StartReturns, LiveInv, Roles
<1>3. CASE start.id = None /\ UNCHANGED <<stream, reader>>
  <2>1. \A q : Held(q) => Held(q)'
    BY <1>2, <1>3 DEF Held
  <2> QED
    BY <1>1, <1>2, <1>3, <2>1, HeldStays DEF HeldInv
<1>4. CASE /\ stream' = [stream EXCEPT !.live_id = start.id]
           /\ reader' = Rebound([NoReader EXCEPT !.open = TRUE], start.client, start.id)
  <2>1. stream'.live_id = start.id
    BY <1>0, <1>4 DEF TypeInv, StreamType
  <2>2. reader'.registered /\ reader'.queue = <<>> /\ reader'.pushed = 0 /\ reader'.got = 0
    <3>1. reader' = NewReader(start.client, start.id) /\ start.client \in Nat /\ start.id \in Nat
      BY <1>0, <1>4 DEF NewReader, TypesOK
    <3> QED
      BY <3>1, NewReaderIs
  <2>3. ~Ended'
    BY <2>2 DEF Ended
  <2>4. \A q : Lives(q)' /\ Held(q) => Held(q)'
    BY <1>1, <1>2, <2>1, NoneLives DEF Held, Shrinks
  <2> QED
    BY <1>1, <1>2, <2>2, <2>3, <2>4, HeldStays
<1> QED
  BY <1>3, <1>4 DEF StartReturns

(* The stream forgets a live query that runs no more.                      *)
LEMMA ForgetsHolds ==
  ASSUME LiveInv, HeldInv, Shrinks, ~Lives(stream.live_id) \/ stream.live_id \in named, stream' = [stream EXCEPT !.live_id = None],
         (reader'.open => reader'.got >= 0), kills' \subseteq kills,
         \A q : Lives(q)' /\ (\E k \in kills : k.id = q) => Held(q)',
         named \subseteq named', UNCHANGED <<start, resub, orphans>>
  PROVE  HeldInv'
<1>1. stream'.live_id = None
  BY StreamForgets DEF LiveInv, TypeInv
<1>2. \A q : Lives(q)' /\ Held(q) => Held(q)'
  <2> SUFFICES ASSUME NEW q, Lives(q)', Held(q)
               PROVE  Held(q)'
    OBVIOUS
  <2>1. CASE q = stream.live_id
    BY <2>1 DEF Shrinks, Held
  <2>2. CASE q \in {start.id, resub.id} \cup named \/ \E o \in orphans : o.id = q
    BY <2>2 DEF Held
  <2>3. CASE \E k \in kills : k.id = q
    BY <2>3
  <2> QED
    BY <2>1, <2>2, <2>3 DEF Held
<1>3. \A k \in kills' : k \in kills \/ Aimed(k)'
  OBVIOUS
<1> QED
  BY <1>1, <1>2, <1>3, HeldStays

LEMMA StopKillsHolds ==
  ASSUME LiveInv, HeldInv, StopKills
  PROVE  HeldInv'
<1>0. TypeInv /\ TypesOK
  BY Types DEF LiveInv
<1>1. Shrinks
  BY SameQueriesShrink DEF StopKills, server
<1>2. UNCHANGED <<clients, queries, resub, start, orphans, named>>
  BY DEF StopKills, server
<1>3. \A r \in ReaderType : Detached(r).got >= 0
  BY NoReaderIs DEF Detached, ReaderType
<1>4. CASE stream.live_id = None \/ ~Served
  <2>1. /\ Stopped /\ UNCHANGED kills
        /\ reader' = Detached(reader) \/ reader' = Detached(Released(reader, stream.live_id))
    BY <1>4 DEF StopKills
  <2>2. (reader'.open => reader'.got >= 0)
    <3>1. reader \in ReaderType /\ stream.live_id \in Nat
      BY <1>0 DEF TypeInv, TypesOK
    <3>2. Released(reader, stream.live_id) \in ReaderType
      <4>1. PICK id \in Nat : id = stream.live_id
        BY <3>1
      <4> QED
        BY <3>1, <4>1, ReleasedIs
    <3> QED
      BY <1>3, <2>1, <3>1, <3>2
  <2>3. ~Lives(stream.live_id)
    BY <1>4, NoneLives, UnservedNone
  <2>4. ~Lives(stream.live_id)'
    <3>1. stream'.live_id = None
      BY <1>0, <2>1 DEF Stopped, TypeInv, StreamType
    <3> QED
      BY <1>1, <3>1, NoneLives DEF Shrinks
  <2>5. \A q : Lives(q)' /\ Held(q) => Held(q)'
    <3>1. stream'.live_id = None
      BY <1>0, <2>1 DEF Stopped, TypeInv, StreamType
    <3> QED
      BY <1>1, <1>2, <2>1, <2>3, <3>1 DEF Held, Shrinks
  <2> QED
    BY <1>1, <2>1, <2>2, <2>4, <2>5, HeldStays
<1>5. CASE stream.live_id # None /\ Served
  <2>1. Kill("stop", stream.live_id) /\ UNCHANGED <<stream, reader>>
    BY <1>5 DEF StopKills
  <2>2. /\ \A k \in kills' : k \in kills \/ Aimed(k)'
        /\ \A k \in kills : k \in kills'
    <3>1. "stop" \in Callers
      BY DEF Callers
    <3>2. PICK id \in Nat : id = stream.live_id
      BY <1>0 DEF TypesOK
    <3> QED
      BY <1>2, <2>1, <3>1, <3>2, KillHolds
  <2>3. \A q : Held(q) => Held(q)'
    BY <1>2, <2>1, <2>2 DEF Held
  <2>4. (reader'.open => reader'.got >= 0) /\ (stream'.live_id # None /\ (~reader'.registered \/ Ended')
             => ~Lives(stream.live_id)' \/ stream'.live_id \in named')
    BY <1>1, <1>2, <2>1 DEF HeldInv, Ended, Shrinks
  <2> QED
    BY <1>1, <2>2, <2>3, <2>4, HeldStays
<1> QED
  BY <1>4, <1>5

LEMMA KillLiveHolds ==
  ASSUME LiveInv, HeldInv, KillLive
  PROVE  HeldInv'
<1>0. TypeInv /\ TypesOK
  BY Types DEF LiveInv
<1>1. Shrinks
  BY SameQueriesShrink DEF KillLive, server
<1>2. UNCHANGED <<clients, queries, stream, resub, start, orphans,
                  named>> /\ Kill("program", stream.live_id)
  BY DEF KillLive, server
<1>3. /\ \A k \in kills' : k \in kills \/ Aimed(k)'
      /\ \A k \in kills : k \in kills'
  <2>1. "program" \in Callers
    BY DEF Callers
  <2>2. PICK id \in Nat : id = stream.live_id
    BY <1>0 DEF TypesOK
  <2> QED
    BY <1>2, <2>1, <2>2, KillHolds
<1>4. \A q : Held(q) => Held(q)'
  BY <1>2, <1>3 DEF Held
<1>5. reader'.got = reader.got /\ reader'.open = reader.open
  BY <1>0 DEF KillLive, Released, TypeInv, ReaderType
<1>6. stream'.live_id # None /\ (~reader'.registered \/ Ended')
             => ~Lives(stream.live_id)' \/ stream'.live_id \in named'
  <2>1. CASE Served
    <3>1. reader' = reader
      BY <2>1 DEF KillLive
    <3> QED
      BY <1>1, <1>2, <3>1 DEF HeldInv, Ended, Shrinks
  <2>2. CASE ~Served
    BY <1>1, <1>2, <2>2, UnservedNone DEF Shrinks
  <2> QED
    BY <2>1, <2>2
<1> QED
  BY <1>1, <1>3, <1>4, <1>5, <1>6, HeldStays DEF HeldInv

LEMMA CloseHolds ==
  ASSUME LiveInv, HeldInv, Close
  PROVE  HeldInv'
<1>0. TypeInv /\ TypesOK
  BY Types DEF LiveInv
<1>1. /\ manager.cached \in DOMAIN clients
      /\ clients' = [clients EXCEPT ![manager.cached].net = IF @ = "up" THEN "closing" ELSE @]
      /\ reader' = Released(reader, reader.id)
      /\ UNCHANGED <<queries, stream, resub, start, kills, orphans, named>>
  BY <1>0, CachedKnown DEF Close, calls, LiveInv
<1>2. \A q : ~Lives(q)'
  <2>1. PICK c \in DOMAIN clients : c = manager.cached
    BY <1>1
  <2>2. /\ \A d \in DOMAIN clients : d # c => clients'[d] = clients[d]
        /\ clients'[c].net = IF clients[c].net = "up" THEN "closing" ELSE clients[c].net
    BY <1>0, <1>1, <2>1, NetChanged DEF TypeInv
  <2>3. \A d \in DOMAIN clients : clients'[d].net # "up"
    BY <2>1, <2>2 DEF LiveInv, Roles
  <2> QED
    BY <1>1, <2>3 DEF Lives, Dead, LiveInv, Known
<1>3. Shrinks
  BY <1>2 DEF Shrinks
<1>4. reader'.got = reader.got /\ reader'.open = reader.open
  BY <1>0, <1>1 DEF Released, TypeInv, ReaderType
<1> QED
  BY <1>1, <1>2, <1>3, <1>4, HeldStays DEF HeldInv

LEMMA ReceiveHolds ==
  ASSUME LiveInv, HeldInv, Receive
  PROVE  HeldInv'
<1>0. TypeInv /\ TypesOK
  BY Types DEF LiveInv
<1>1. Shrinks
  BY SameQueriesShrink DEF Receive, server
<1> DEFINE taken == [reader EXCEPT !.queue = Tail(@), !.parked = FALSE]
           n == Len(reader.queue)
           m == reader.pushed - reader.got
<1>2. reader.parked /\ reader.queue # <<>> /\ UNCHANGED <<clients, queries, resub, start, kills,
                                                          orphans, named>>
  BY DEF Receive, server, calls
<1>3. /\ reader.queue \in Seq(Int) /\ reader.pushed \in Int /\ reader.got \in Int /\ n \in Int /\ m \in Int
      /\ reader.queue[1] = Head(reader.queue) /\ n >= 1 /\ 1 \in DOMAIN reader.queue
      /\ Tail(reader.queue) \in Seq(Int) /\ Len(Tail(reader.queue)) = n - 1
  <2>1. reader.queue \in Seq(Int) /\ reader.pushed \in Int /\ reader.got \in Int
    BY <1>0 DEF TypesOK
  <2> QED
    BY <1>2, <2>1, Dequeued
<1>4. reader.open => reader.got >= 0
  BY DEF HeldInv
<1>5. CASE Head(reader.queue) \in {End, Loss}
  <2>1. reader' = Detached(taken) /\ stream' = [stream EXCEPT !.live_id = None]
    BY <1>5 DEF Receive
  <2>2. (reader'.open => reader'.got >= 0)
    <3>1. taken \in ReaderType
      BY <1>0, <1>3 DEF TypeInv, ReaderType
    <3> QED
      BY <2>1, <3>1, NoReaderIs DEF Detached, ReaderType
  <2>3. ~reader.open \/ m <= 0
    <3>1. reader.open /\ 1 <= m => Head(reader.queue) = reader.got + 1
      BY <1>3 DEF LiveInv, Buffer, InOrder
    <3>2. End < 0 /\ Loss < 0
      BY DEF End, Loss
    <3> QED
      BY <1>3, <1>4, <1>5, <3>1, <3>2
  <2>4. stream.live_id # None => Ended
    <3>1. stream.live_id # None => reader.open
      BY DEF LiveInv, Roles
    <3> QED
      BY <1>3, <2>3, <3>1 DEF Ended
  <2>5. ~Lives(stream.live_id) \/ stream.live_id \in named
    BY <2>4, NoneLives DEF HeldInv
  <2>6. stream'.live_id = None
    BY <2>1, StreamForgets DEF LiveInv, TypeInv
  <2>7. \A q : Lives(q)' /\ Held(q) => Held(q)'
    BY <1>1, <1>2, <2>5, <2>6 DEF Held, Shrinks
  <2> QED
    BY <1>1, <1>2, <2>2, <2>6, <2>7, HeldStays
<1>6. CASE Head(reader.queue) \notin {End, Loss}
  <2>1. reader' = [taken EXCEPT !.got = Head(reader.queue)] /\ UNCHANGED stream
    BY <1>6 DEF Receive
  <2>2. /\ reader'.got = Head(reader.queue) /\ reader'.queue = Tail(reader.queue)
        /\ UNCHANGED <<reader.registered, reader.pushed, reader.open>>
    BY <1>0, <1>3, <2>1 DEF TypeInv, ReaderType
  <2>3. CASE reader.open
    <3>1. IF 1 <= m THEN Head(reader.queue) = reader.got + 1 ELSE Head(reader.queue) \in {End, Loss}
      BY <1>3, <2>3 DEF LiveInv, Buffer, InOrder
    <3>2. 1 <= m /\ reader'.got = reader.got + 1
      BY <1>6, <2>2, <3>1
    <3>3. reader'.pushed - reader'.got = m - 1 /\ Len(reader'.queue) = n - 1
      BY <1>3, <2>2, <3>2
    <3>4. Ended' => Ended
      BY <1>3, <3>3 DEF Ended
    <3>5. reader'.open => reader'.got >= 0
      BY <1>3, <1>4, <2>3, <3>2
    <3> QED
      BY <1>1, <1>2, <2>1, <2>2, <3>4, <3>5, Quiet
  <2>4. CASE ~reader.open
    <3>1. stream.live_id = None
      BY <2>4 DEF LiveInv, Roles
    <3>2. \A q : Held(q) => Held(q)'
      BY <1>2, <2>1 DEF Held
    <3>3. stream'.live_id = None /\ ~reader'.open /\ kills' = kills
      BY <1>2, <2>1, <2>2, <2>4, <3>1
    <3> QED
      BY <1>1, <3>2, <3>3, HeldStays
  <2> QED
    BY <2>3, <2>4
<1> QED
  BY <1>5, <1>6

LEMMA KillReturnsHolds ==
  ASSUME LiveInv, HeldInv, NEW by \in Callers, KillReturns(by)
  PROVE  HeldInv'
<1>0. TypeInv /\ TypesOK
  BY Types DEF LiveInv
<1>1. Shrinks
  BY SameQueriesShrink DEF KillReturns, server
<1>2. PICK k \in kills :
        /\ k.by = by
        /\ k.answer # "none" \/ Down(k.client)
        /\ kills' = kills \ {k}
        /\ IF by # "stop" THEN reader' = Released(reader, k.id) /\ UNCHANGED <<stream, stop>>
           ELSE IF k.answer = "refused" THEN reader' = Released(reader, k.id) /\ stop' = "off" /\ UNCHANGED stream
           ELSE Stopped /\ reader' = Detached(Released(reader, k.id))
        /\ named' = IF by = "program" /\ k.answer = "refused" THEN named \cup {k.id} ELSE named
        /\ UNCHANGED <<resub, start, orphans>>
  BY DEF KillReturns
<1>3. /\ Aimed(k) /\ k.answer \in {"none", "done", "refused"} /\ reader \in ReaderType
      /\ stream.live_id # None => reader.id = stream.live_id
  BY <1>0, <1>2 DEF HeldInv, TypeInv, KillType, LiveInv, Roles
<1>4. ~Lives(k.id) \/ k.id \in named'
  BY <1>2, <1>3 DEF Aimed, Lives, Dead, Down
<1>5. named \subseteq named'
  BY <1>2
<1>6. k.id \in Nat /\ Released(reader, k.id) \in ReaderType
  <2>1. k.id \in Nat
    BY <1>0, <1>2 DEF TypesOK, KillType
  <2> QED
    BY <1>3, <2>1, ReleasedIs
<1>7. \A q : (\E j \in kills : j.id = q) => q = k.id \/ \E j \in kills' : j.id = q
  BY <1>2
<1>8. CASE reader' = Released(reader, k.id) /\ UNCHANGED stream
  <2>1. \A q : Lives(q)' /\ Held(q) => Held(q)'
    BY <1>1, <1>2, <1>4, <1>5, <1>7, <1>8 DEF Held, Shrinks
  <2>2. CASE reader' = reader
    <3>1. (reader'.open => reader'.got >= 0) /\ (stream'.live_id # None /\ (~reader'.registered \/ Ended')
             => ~Lives(stream.live_id)' \/ stream'.live_id \in named')
      BY <1>1, <1>5, <1>8, <2>2 DEF HeldInv, Ended, Shrinks
    <3> QED
      BY <1>1, <1>2, <2>1, <3>1, HeldStays
  <2>3. CASE reader.registered /\ reader.id = k.id
    <3>1. reader'.got = reader.got /\ reader'.open = reader.open
      BY <1>3, <1>6, <1>8, <2>3, ReleasedIs
    <3>2. reader'.open => reader'.got >= 0
      BY <3>1 DEF HeldInv
    <3>3. stream'.live_id # None /\ (~reader'.registered \/ Ended')
             => ~Lives(stream.live_id)' \/ stream'.live_id \in named'
      BY <1>1, <1>3, <1>4, <1>8, <2>3 DEF Shrinks
    <3> QED
      BY <1>1, <1>2, <2>1, <3>2, <3>3, HeldStays
  <2> QED
    BY <1>8, <2>2, <2>3 DEF Released
<1>9. CASE by = "stop" /\ Stopped /\ reader' = Detached(Released(reader, k.id))
  <2>1. stream' = [stream EXCEPT !.live_id = None] /\ stream.live_id \in {None, k.id}
    BY <1>2, <1>9 DEF Stopped, LiveInv, Roles
  <2>2. ~Lives(stream.live_id) \/ stream.live_id \in named'
    BY <1>4, <2>1, NoneLives
  <2>3. ~reader'.open
    BY <1>6, <1>9, DetachedIs
  <2>4. stream'.live_id = None
    BY <2>1, StreamForgets DEF LiveInv, TypeInv
  <2>5. \A q : Lives(q)' /\ Held(q) => Held(q)'
    BY <1>1, <1>2, <1>4, <1>5, <1>7, <2>2, <2>4 DEF Held, Shrinks
  <2> QED
    BY <1>1, <1>2, <2>3, <2>4, <2>5, HeldStays
<1> QED
  BY <1>2, <1>8, <1>9

LEMMA ServerKillsHolds ==
  ASSUME LiveInv, HeldInv, NEW by \in Callers, ServerKills(by), "unstoppable" \notin Faults
  PROVE  HeldInv'
<1>0. TypeInv /\ TypesOK
  BY Types DEF LiveInv
<1>1. PICK k \in kills :
        /\ k.by = by /\ k.answer = "none"
        /\ \/ /\ queries' = [queries EXCEPT ![k.id] = Gone]
              /\ kills' = (kills \ {k}) \cup {[k EXCEPT !.answer = "done"]}
              /\ \/ UNCHANGED reader
                 \/ /\ reader.registered /\ reader.id = k.id
                    /\ reader' = [reader EXCEPT !.queue = Append(@, End)]
           \/ /\ (IF by = "program" THEN "unkillable" ELSE "unstoppable") \in Faults
              /\ kills' = (kills \ {k}) \cup {[k EXCEPT !.answer = "refused"]}
              /\ UNCHANGED <<queries, reader>>
        /\ UNCHANGED <<clients, stream, resub, start, orphans, named>>
  BY DEF ServerKills
<1>2. k.id \in DOMAIN queries /\ k \in KillType /\ Aimed(k)
  BY <1>0, <1>1 DEF LiveInv, Known, TypesOK, HeldInv
<1>3. ASSUME NEW answer \in {"done", "refused"}, kills' = (kills \ {k}) \cup {[k EXCEPT !.answer = answer]}
      PROVE  /\ \A j \in kills' : j \in kills \/ (j.id = k.id /\ j.by = k.by /\ j.client = k.client /\ j.answer = answer)
             /\ \A q : Held(q) => Held(q)'
  <2>1. PICK new : new = [k EXCEPT !.answer = answer]
    OBVIOUS
  <2>2. new.id = k.id /\ new.by = k.by /\ new.client = k.client /\ new.answer = answer
    BY <1>2, <2>1 DEF KillType
  <2>3. kills' = (kills \ {k}) \cup {new}
    BY <1>3, <2>1
  <2>4. \A q : (\E j \in kills : j.id = q) => \E j \in kills' : j.id = q
    BY <2>2, <2>3
  <2> QED
    BY <1>1, <2>2, <2>3, <2>4 DEF Held
<1>4. CASE /\ queries' = [queries EXCEPT ![k.id] = Gone]
           /\ kills' = (kills \ {k}) \cup {[k EXCEPT !.answer = "done"]}
           /\ \/ UNCHANGED reader
              \/ /\ reader.registered /\ reader.id = k.id
                 /\ reader' = [reader EXCEPT !.queue = Append(@, End)]
  <2>1. /\ \A j \in kills' : j \in kills \/ (j.id = k.id /\ j.by = k.by /\ j.client = k.client /\ j.answer = "done")
        /\ \A q : Held(q) => Held(q)'
    BY <1>3, <1>4
  <2>2. /\ DOMAIN queries' = DOMAIN queries /\ queries'[k.id] = Gone
        /\ \A q \in DOMAIN queries : q # k.id => queries'[q] = queries[q]
    BY <1>2, <1>4
  <2>3. ~Lives(k.id)'
    BY <2>2, GoneIs DEF Lives
  <2>4. Shrinks
    BY <1>1, <2>2, <2>3 DEF Shrinks, Lives, Dead
  <2>5. \A j \in kills' : j \in kills \/ Aimed(j)'
    BY <2>1, <2>3 DEF Aimed
  <2>6. CASE UNCHANGED reader
    <3>1. (reader'.open => reader'.got >= 0) /\ (stream'.live_id # None /\ (~reader'.registered \/ Ended')
             => ~Lives(stream.live_id)' \/ stream'.live_id \in named')
      BY <1>1, <2>4, <2>6 DEF HeldInv, Ended, Shrinks
    <3> QED
      BY <2>1, <2>4, <2>5, <3>1, HeldStays
  <2>7. CASE reader.registered /\ reader.id = k.id /\ reader' = [reader EXCEPT !.queue = Append(@, End)]
    <3>1. reader'.got = reader.got /\ reader'.open = reader.open
      BY <1>0, <2>7 DEF TypeInv, ReaderType
    <3>2. reader'.open => reader'.got >= 0
      BY <3>1 DEF HeldInv
    <3>3. stream'.live_id # None => stream'.live_id = k.id
      BY <1>1, <2>7 DEF LiveInv, Roles
    <3>4. stream'.live_id # None /\ (~reader'.registered \/ Ended')
             => ~Lives(stream.live_id)' \/ stream'.live_id \in named'
      BY <2>3, <3>3
    <3> QED
      BY <2>1, <2>4, <2>5, <3>2, <3>4, HeldStays
  <2> QED
    BY <1>4, <2>6, <2>7
<1>5. CASE /\ (IF by = "program" THEN "unkillable" ELSE "unstoppable") \in Faults
           /\ kills' = (kills \ {k}) \cup {[k EXCEPT !.answer = "refused"]}
           /\ UNCHANGED <<queries, reader>>
  <2>1. /\ \A j \in kills' : j \in kills \/ (j.id = k.id /\ j.by = k.by /\ j.client = k.client /\ j.answer = "refused")
        /\ \A q : Held(q) => Held(q)'
    BY <1>3, <1>5
  <2>2. Shrinks
    BY <1>1, <1>5, SameQueriesShrink
  <2>3. k.by = "program"
    BY <1>1, <1>5
  <2>4. \A j \in kills' : j \in kills \/ Aimed(j)'
    BY <1>2, <1>5, <2>1, <2>2, <2>3 DEF Aimed, Shrinks
  <2>5. (reader'.open => reader'.got >= 0) /\ (stream'.live_id # None /\ (~reader'.registered \/ Ended')
             => ~Lives(stream.live_id)' \/ stream'.live_id \in named')
    BY <1>1, <1>5, <2>2 DEF HeldInv, Ended, Shrinks
  <2> QED
    BY <2>1, <2>2, <2>4, <2>5, HeldStays
<1> QED
  BY <1>1, <1>4, <1>5

(* A live query more, and somebody holds it.                               *)
LEMMA MoreHolds ==
  ASSUME LiveInv, HeldInv, OneMore, UNCHANGED <<clients, stream, reader, kills, named>>,
         NEW n, n = Len(queries) + 1, Held(n)', \A q : q # None /\ Held(q) => Held(q)'
  PROVE  HeldInv'
<1>0. TypeInv /\ TypesOK
  BY Types DEF LiveInv
<1>1. /\ \A q \in DOMAIN queries' : q \in DOMAIN queries \/ q = n
      /\ \A q \in DOMAIN queries : q # None /\ q # n /\ queries'[q] = queries[q]
  <2>1. Len(queries) \in Nat /\ DOMAIN queries = 1 .. Len(queries) /\ DOMAIN queries' = 1 .. Len(queries) + 1
    BY <1>0 DEF TypesOK, OneMore
  <2>2. \A q \in 1 .. Len(queries) + 1 : q \in 1 .. Len(queries) \/ q = n
    BY <2>1
  <2>3. None \notin DOMAIN queries
    BY <1>0, NoneIsNoQuery
  <2>4. \A q \in DOMAIN queries : queries'[q] = queries[q] /\ q # n
    BY DEF OneMore
  <2> QED
    BY <2>1, <2>2, <2>3, <2>4
<1>2. \A q \in DOMAIN queries : Lives(q)' => Lives(q)
  BY <1>1 DEF Lives, Dead
<1>3. \A q \in DOMAIN queries' : Lives(q)' => Held(q)'
  BY <1>1, <1>2 DEF HeldInv
<1>4. \A k \in kills' : Aimed(k)'
  BY <1>1, <1>2 DEF HeldInv, Aimed, LiveInv, Known
<1>5. stream.live_id # None => stream.live_id \in DOMAIN queries
  BY <1>0 DEF LiveInv, Known, TypesOK, None
<1>6. (reader'.open => reader'.got >= 0) /\ (stream'.live_id # None /\ (~reader'.registered \/ Ended')
             => ~Lives(stream.live_id)' \/ stream'.live_id \in named')
  BY <1>1, <1>2, <1>5 DEF HeldInv, Ended
<1> QED
  BY <1>3, <1>4, <1>6 DEF HeldInv

LEMMA ServerStartsHolds ==
  ASSUME LiveInv, HeldInv, ServerStarts
  PROVE  HeldInv'
<1>0. TypeInv /\ TypesOK
  BY Types DEF LiveInv
<1>1. UNCHANGED <<clients, stream, reader, kills, named>>
  BY DEF ServerStarts
<1>2. PICK n : n = Len(queries) + 1
  OBVIOUS
<1>3. ASSUME NEW t \in TaskType, t.client \in DOMAIN clients, Starts(t)
      PROVE  OneMore /\ t.id = None
  <2>1. t.raced \in BOOLEAN
    BY <1>3 DEF TaskType
  <2> QED
    BY <1>0, <1>3, <2>1, StartsIs DEF Starts
<1>4. CASE resub.pc = "selecting" /\ Starts(resub) /\ resub' = [resub EXCEPT !.id = Len(queries) + 1] /\ UNCHANGED <<start, orphans>>
  <2>1. OneMore /\ resub.id = None
    <3>1. resub \in TaskType /\ resub.client \in DOMAIN clients
      BY <1>0, <1>4 DEF TypeInv, LiveInv, Known
    <3> QED
      BY <1>3, <1>4, <3>1
  <2>2. resub'.id = n
    BY <1>0, <1>2, <1>4 DEF TypeInv, TaskType
  <2>3. Held(n)' /\ \A q : q # None /\ Held(q) => Held(q)'
    BY <1>1, <1>4, <2>1, <2>2 DEF Held
  <2> QED
    BY <1>1, <1>2, <2>1, <2>3, MoreHolds
<1>5. CASE start.pc = "selecting" /\ Starts(start) /\ start' = [start EXCEPT !.id = Len(queries) + 1] /\ UNCHANGED <<resub, orphans>>
  <2>1. OneMore /\ start.id = None
    <3>1. start \in TaskType /\ start.client \in DOMAIN clients
      BY <1>0, <1>5 DEF TypeInv, LiveInv, Known
    <3> QED
      BY <1>3, <1>5, <3>1
  <2>2. start'.id = n
    BY <1>0, <1>2, <1>5 DEF TypeInv, TaskType
  <2>3. Held(n)' /\ \A q : q # None /\ Held(q) => Held(q)'
    BY <1>1, <1>5, <2>1, <2>2 DEF Held
  <2> QED
    BY <1>1, <1>2, <2>1, <2>3, MoreHolds
<1>6. ASSUME NEW o \in orphans, Starts(o), UNCHANGED <<resub, start>>,
             orphans' = (orphans \ {o}) \cup {[o EXCEPT !.id = Len(queries) + 1]}
      PROVE  HeldInv'
  <2>1. o \in OrphanType /\ o.client \in DOMAIN clients
    BY <1>0 DEF LiveInv, Known, TypesOK
  <2>2. PICK new : new = [o EXCEPT !.id = Len(queries) + 1]
    OBVIOUS
  <2>3. new.id = n /\ o.raced \in BOOLEAN
    BY <1>2, <2>1, <2>2 DEF OrphanType
  <2>4. OneMore /\ o.id = None
    BY <1>0, <1>6, <2>1, <2>3, StartsIs DEF Starts
  <2>5. orphans' = (orphans \ {o}) \cup {new}
    BY <1>6, <2>2
  <2>6. /\ \E p \in orphans' : p.id = n
        /\ \A q : q # None /\ (\E p \in orphans : p.id = q) => \E p \in orphans' : p.id = q
    BY <2>3, <2>4, <2>5
  <2>7. Held(n)' /\ \A q : q # None /\ Held(q) => Held(q)'
    BY <1>1, <1>6, <2>6 DEF Held
  <2> QED
    BY <1>1, <1>2, <2>4, <2>7, MoreHolds
<1> QED
  BY <1>4, <1>5, <1>6 DEF ServerStarts

LEMMA HeldStep ==
  ASSUME LiveInv, HeldInv, [Next]_vars, "unstoppable" \notin Faults
  PROVE  HeldInv'
<1>1. CASE Resubscription
  BY <1>1, AttemptHolds, AcquiredHolds, SelectedHolds, SelectFailsHolds, CancelledHolds
     DEF Resubscription
<1>2. CASE Calls
  BY <1>2, StartAcquiresHolds, StartSelectsHolds, StartReturnsHolds, StopKillsHolds,
     KillOrphanHolds,
     SigninReturnsHolds, KillReturnsHolds DEF Calls
<1>3. CASE Server
  BY <1>3, ServerStartsHolds, ServerSignsHolds, ServerKillsHolds DEF Server
<1>4. CASE Notify \/ Drop \/ ConnectionLost \/ Read \/ CancelRead \/ Receive
  BY <1>4, NotifyHolds, DropHolds, ConnectionLostHolds, ReadHolds, CancelReadHolds, ReceiveHolds
<1>5. CASE Start \/ Stop \/ KillLive \/ Signin \/ ClearSession \/ Close \/ GetClient
  BY <1>5, StartHolds, StopHolds, KillLiveHolds, SigninHolds, ClearSessionHolds, CloseHolds,
     GetClientHolds
<1>6. CASE UNCHANGED vars
  <2>1. UNCHANGED <<clients, queries, stream, reader, resub, start, kills, orphans, named>>
    BY <1>6 DEF vars
  <2>2. Shrinks
    BY <2>1, SameQueriesShrink
  <2> QED
    BY <2>1, <2>2, QuietReader
<1> QED
  BY <1>1, <1>2, <1>3, <1>4, <1>5, <1>6 DEF Next

(* A live query the server runs is one somebody can still kill, through    *)
(* drops, resubscriptions, cancelled tasks and refused kills, as long as   *)
(* the server refuses no kill of the stream's own: _resubscribe_once() and *)
(* _kill_when_started() send theirs once (live.py:886, live.py:989), and a *)
(* refused one leaves its query running with nobody who keeps its uuid.    *)
THEOREM NoSubscriptionLost ==
  ASSUME "unstoppable" \notin Faults
  PROVE  Spec => []NoOrphan
<1>1. Init => HeldInv
  <2> SUFFICES ASSUME Init
               PROVE  HeldInv
    OBVIOUS
  <2>1. DOMAIN queries = {} /\ kills = {} /\ stream.live_id = None /\ ~reader.open
    BY NoReaderIs DEF Init
  <2> QED
    BY <2>1 DEF HeldInv
<1>2. LiveInv /\ HeldInv /\ [Next]_vars => HeldInv'
  BY HeldStep
<1>3. HeldInv => NoOrphan
  BY DEF HeldInv, NoOrphan, Lives
<1> QED
  BY <1>1, <1>2, <1>3, LiveInvariant, PTL DEF Spec
=============================================================================
