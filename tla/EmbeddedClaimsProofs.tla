------------------------ MODULE EmbeddedClaimsProofs ------------------------
(***************************************************************************)
(* The stores on disk that the process has claimed for its connections are *)
(* those of the engines that they have, for every value of the constants:  *)
(* an engine in the slot, one that a block put aside, one in the hand of   *)
(* the call that holds the guard.  A second invariant (ClaimsInv) beside   *)
(* SlotInv, with the same segments from one await to the next.             *)
(***************************************************************************)
EXTENDS EmbeddedSlotProofs

USE DEF Memory, None

-----------------------------------------------------------------------------
(***************************************************************************)
(* The invariant                                                           *)
(***************************************************************************)
(* A call that holds the guard has an engine in hand: one that it closes,  *)
(* or one that is not in the slot yet.                                     *)
Opens(tk)   == tk.pc = "opening" \/ (tk.pc \in Signing /\ tk.phase = "opening")
Carries(tk) == Opens(tk) \/ tk.pc \in {"forgetting", "replacing", "ending"}

(* The store of a block changes hands.                                     *)
Moving == {"detaching", "discarding", "reattaching"}

Resting(tk) == ~Carries(tk) /\ tk.pc \notin Moving

(* A store that the engine put aside by a block has.                       *)
Shared(cn, url) == OnDisk(url) /\ KeyOf(url) = KeyOf(cn.block.slot.engine.url)

(* The stores of a connection's engines.                                   *)
Engaged(cn, tk) == {KeyOf(cn.slot.engine.url), KeyOf(cn.block.slot.engine.url), KeyOf(tk.engine.url)}

(* Inside a block the connection is on the store of the engine put aside   *)
(* just when that engine was closed for it; a block that leaves it open is *)
(* on another store, and so is every block of the program then.            *)
Aside(cn, tk) ==
  LET out == cn.block.slot.engine IN
  /\ Shared(cn, cn.slot.engine.url) => cn.block.closed
  /\ cn.block.closed =>
       /\ OnDisk(out.url)
       /\ cn.slot.engine.url # None => Shared(cn, cn.slot.engine.url)
  /\ tk.pc \notin Moving =>
       /\ cn.block.closed <=> Shared(cn, cn.url)
       /\ cn.block.closed /\ cn.slot.engine.url # None => cn.slot.engine.url = cn.url
  /\ ~cn.block.closed /\ OnDisk(out.url) /\ tk.pc # "detaching" =>
       \E b \in Blocks : KeyOf(b.url) # KeyOf(out.url)

(* What the holder of the guard knows of the engine in its hand: that it   *)
(* closes no store another engine of the connection has, and that it took  *)
(* a claim itself just when none of them had it.                           *)
Hand(cn, tk) ==
  LET url == tk.engine.url IN
  /\ tk.pc \in {"forgetting", "replacing"} => ~Shared(cn, url)
  /\ tk.pc = "ending" => cn.block = Outside /\ (tk.claimed <=> KeyOf(url) # KeyOf(cn.slot.engine.url))
  /\ Opens(tk) =>
       /\ OnDisk(url) => (tk.claimed <=> ~Shared(cn, url))
       /\ Shared(cn, url) => cn.block.closed
       /\ cn.block.closed => url = cn.url
  /\ tk.pc = "detaching" => SameStore(cn.block.slot.engine.url, tk.target.url)
  /\ ~Carries(tk) => url = None

(* The stores a connection has claimed are those of its engines.           *)
Account(cn, tk, held, c) ==
  /\ \A s \in Stores : held[s] = c <=> s \in Engaged(cn, tk)
  /\ Aside(cn, tk)
  /\ Hand(cn, tk)

(* Only the claims of one connection changed.                              *)
Only(held, held2, c) == \A s \in Stores : held2[s] = held[s] \/ (held[s] \in {None, c} /\ held2[s] \in {None, c})

(* Who holds the guard of a connection, or nobody does.                    *)
Holder(c) == IF conn[c].guard = None THEN Idle ELSE task[conn[c].guard]

(* A block is entered when there is none, by one task; while it opens its  *)
(* connection's own store again nobody closes it.                          *)
Agreed(t) ==
  LET c == task[t].conn IN
  /\ task[t].op = "enter" =>
       /\ "enter" \in Does[c] /\ task[t].target \in Blocks
       /\ task[t].pc = "waiting" => conn[c].block = Outside
       /\ \A u \in Tasks : task[u].op = "enter" /\ task[u].conn = c => u = t
  /\ task[t].op = "remove" =>
       conn[c].block = Outside /\ \A u \in Tasks : ~(task[u].conn = c /\ task[u].op = "enter")
  /\ task[t].op = "close" =>
       ~conn[c].block.closed /\ \A u \in Tasks : ~(task[u].conn = c /\ task[u].pc = "detaching")

Agreements ==
  /\ \A t \in Tasks : Agreed(t)
  /\ \A c \in Connections : conn[c].block # Outside => "enter" \in Does[c]

ClaimsInv ==
  /\ \A t \in Tasks : task[t].pc \notin Holding => task[t].engine.url = None
  /\ \A c \in Connections : Account(conn[c], Holder(c), claims, c)
  /\ Agreements

(* A program that enters blocks and registers a connection again does not  *)
(* register it, inside a block, on the store of the engine put aside: what *)
(* it may register is in memory, or on the store of its blocks.            *)
ReturnsApart ==
  \A c \in Connections :
    {"enter", "register"} \subseteq Does[c] =>
      \A r \in Registered, b \in Blocks : OnDisk(r.url) => KeyOf(r.url) = KeyOf(b.url)

-----------------------------------------------------------------------------
(* The stores of URLs.                                                     *)
LEMMA Keys ==
  ASSUME NEW url \in Urls
  PROVE  /\ KeyOf(url) \in Stores \cup {None, Memory}
         /\ OnDisk(url) <=> KeyOf(url) \in Stores
         /\ url = None => KeyOf(url) = None
         /\ None \notin Stores /\ KeyOf(None) = None /\ ~OnDisk(None)
<1>1. None \notin Stores /\ Memory \notin Stores
  BY SlotAssumption DEF SlotAssumption
<1>2. url # None => StoreOf[url] \in Stores \cup {Memory}
  BY SlotAssumption DEF SlotAssumption, Urls
<1> QED BY <1>1, <1>2 DEF KeyOf, OnDisk

(* The URLs of the engines of a world.                                     *)
LEMMA UrlsIn ==
  ASSUME NEW w \in WorldType
  PROVE  /\ w.cn.url \in Urls /\ w.cn.slot.engine.url \in Urls /\ w.cn.block.slot.engine.url \in Urls
         /\ w.tk.engine.url \in Urls
<1>1. w.cn \in ConnType /\ w.tk \in TaskType
  BY DEF WorldType
<1>2. w.cn.slot \in SlotType /\ w.cn.block \in BlockType /\ w.cn.url \in Urls /\ w.tk.engine \in EngineType
  BY <1>1 DEF ConnType, TaskType
<1>3. w.cn.slot.engine \in EngineType /\ w.cn.block.slot \in SlotType
  BY <1>2 DEF SlotType, BlockType
<1>4. w.cn.block.slot.engine \in EngineType
  BY <1>3 DEF SlotType
<1> QED BY <1>2, <1>3, <1>4 DEF EngineType

(* Of a task without an engine in hand nothing counts but the connection.  *)
LEMMA IdleRests == Resting(Idle) /\ Idle.engine.url = None
BY DEF Resting, Carries, Opens, Moving, Signing, Idle, NoEngine

LEMMA AtRest ==
  ASSUME NEW cn, NEW tk, NEW held, NEW c, Resting(tk)
  PROVE  /\ Account(cn, tk, held, c) => Account(cn, Idle, held, c) /\ tk.engine.url = None
         /\ Account(cn, Idle, held, c) /\ tk.engine.url = None => Account(cn, tk, held, c)
<1>1. Resting(Idle) /\ Idle.engine.url = None
  BY IdleRests
<1>2. ASSUME NEW a, NEW b, Resting(a), Resting(b), b.engine.url = None, a.engine.url = None, Account(cn, a, held, c)
      PROVE  Account(cn, b, held, c)
  <2>1. Engaged(cn, b) = Engaged(cn, a)
    BY <1>2 DEF Engaged
  <2>2. Aside(cn, b)
    BY <1>2 DEF Account, Aside, Resting, Moving
  <2>3. Hand(cn, b)
    BY <1>2 DEF Hand, Resting, Carries, Moving
  <2> QED BY <1>2, <2>1, <2>2, <2>3 DEF Account
<1>3. Account(cn, tk, held, c) => tk.engine.url = None
  BY DEF Account, Hand, Resting
<1> QED BY <1>1, <1>2, <1>3

-----------------------------------------------------------------------------
(***************************************************************************)
(* What a segment does to the engines                                      *)
(***************************************************************************)
SameBlock(w, v) == v.cn.url = w.cn.url /\ v.cn.block = w.cn.block

(* The engines stay where they are.                                        *)
SameEngines(w, v) ==
  /\ SameBlock(w, v) /\ v.claims = w.claims
  /\ v.cn.slot.engine.url = w.cn.slot.engine.url /\ v.tk.engine.url = w.tk.engine.url
  /\ v.tk.phase = w.tk.phase /\ v.tk.claimed = w.tk.claimed

(* With no engine in hand: the call is over, waits with none, or closes    *)
(* that of the slot.                                                       *)
Passes(w, v) ==
  /\ SameBlock(w, v) /\ v.claims = w.claims
  /\ \/ Resting(v.tk) /\ v.cn.slot.engine.url = w.cn.slot.engine.url /\ v.tk.engine.url = None
     \/ /\ v.tk.pc \in {"forgetting", "replacing"}
        /\ v.cn.slot.engine.url = None /\ v.tk.engine.url = w.cn.slot.engine.url
        /\ w.cn.slot.engine.url # w.cn.url \/ ~Shared(w.cn, w.cn.slot.engine.url)

(* The engine of the session is in the slot.                               *)
Publishes(w, u) ==
  /\ SameBlock(w, u) /\ u.claims = w.claims
  /\ u.cn.slot.engine.url = Session(w).url /\ u.tk.engine.url = None

(* The engine that was being opened is dropped.                            *)
Drops(w, v, c) ==
  /\ SameBlock(w, v) /\ v.cn.slot.engine.url = w.cn.slot.engine.url
  /\ Resting(v.tk) /\ v.tk.engine.url = None
  /\ v.claims = IF w.tk.claimed THEN Unclaimed(w.claims, w.tk.engine.url, c) ELSE w.claims

(* A session is under way: it goes on, its engine is in the slot, or not.  *)
Proceeding(w, v, c) ==
  \/ SameEngines(w, v) /\ v.tk.pc \in Signing
  \/ \E u : Publishes(w, u) /\ Passes(u, v)
  \/ w.tk.phase = "opening" /\ Drops(w, v, c)

LEMMA ProceedingFrom ==
  ASSUME NEW w, NEW u, NEW v, NEW c, SameEngines(w, u), Proceeding(u, v, c)
  PROVE  Proceeding(w, v, c)
<1>1. Session(u).url = Session(w).url
  BY DEF SameEngines, Session
<1>2. ASSUME NEW x, Publishes(u, x), Passes(x, v) PROVE Publishes(w, x)
  BY <1>1, <1>2 DEF Publishes, SameEngines, SameBlock
<1>3. Drops(u, v, c) => Drops(w, v, c)
  BY DEF Drops, SameEngines, SameBlock
<1>4. SameEngines(u, v) => SameEngines(w, v)
  BY DEF SameEngines, SameBlock
<1>5. u.tk.phase = w.tk.phase
  BY DEF SameEngines
<1> QED BY <1>2, <1>3, <1>4, <1>5 DEF Proceeding

LEMMA PassesFrom ==
  ASSUME NEW w, NEW u, NEW v, SameBlock(w, u), u.claims = w.claims,
         u.cn.slot.engine.url = w.cn.slot.engine.url, Passes(u, v)
  PROVE  Passes(w, v)
BY DEF Passes, SameBlock, Shared

LEMMA PassesProceeds ==
  ASSUME NEW w, NEW v, NEW c, w.tk.phase # "opening", w.tk.engine.url = None, Passes(w, v)
  PROVE  Proceeding(w, v, c)
<1>1. Publishes(w, w)
  BY DEF Publishes, SameBlock, Session
<1> QED BY <1>1 DEF Proceeding

-----------------------------------------------------------------------------
(* Claims and releases, store by store.                                    *)
LEMMA Releases ==
  ASSUME NEW held, NEW url, NEW c \in Connections, NEW freed, freed = Unclaimed(held, url, c)
  PROVE  Only(held, freed, c) /\ \A s \in Stores : (freed[s] = c) <=> (held[s] = c /\ s # KeyOf(url))
BY SlotAssumption DEF SlotAssumption, Only, Unclaimed

LEMMA Takes ==
  ASSUME NEW held, NEW url, NEW c \in Connections, NEW taken, taken = Claim(held, url, c)
  PROVE  /\ Only(held, taken, c)
         /\ \A s \in Stores : (taken[s] = c) <=> (held[s] = c \/ (s = KeyOf(url) /\ held[s] = None))
BY SlotAssumption DEF SlotAssumption, Only, Claim

LEMMA OnlySame == \A held, c : Only(held, held, c)
BY DEF Only

LEMMA PassesAccount ==
  ASSUME NEW w, NEW v, NEW c, Account(w.cn, Idle, w.claims, c), Passes(w, v)
  PROVE  Account(v.cn, v.tk, v.claims, c)
<1>1. v.cn.url = w.cn.url /\ v.cn.block = w.cn.block /\ v.claims = w.claims
  BY DEF Passes, SameBlock
<1>2. /\ \A s \in Stores : w.claims[s] = c <=> s \in Engaged(w.cn, Idle)
      /\ Aside(w.cn, Idle)
  BY DEF Account
<1>3. Idle.engine.url = None /\ Idle.pc \notin Moving
  BY IdleRests DEF Resting
<1>4. KeyOf(None) = None /\ ~OnDisk(None) /\ None \notin Stores
  BY Constants, Keys
<1>5. CASE Resting(v.tk) /\ v.cn.slot.engine.url = w.cn.slot.engine.url /\ v.tk.engine.url = None
  <2>1. Engaged(v.cn, Idle) = Engaged(w.cn, Idle)
    BY <1>1, <1>5 DEF Engaged
  <2>2. Aside(v.cn, Idle)
    BY <1>1, <1>2, <1>5 DEF Aside, Shared
  <2>3. Hand(v.cn, Idle)
    BY <1>3, IdleRests DEF Hand, Resting, Carries, Moving
  <2>4. Account(v.cn, Idle, v.claims, c)
    BY <1>1, <1>2, <2>1, <2>2, <2>3 DEF Account
  <2> QED BY <1>5, <2>4, AtRest
<1>6. CASE /\ v.tk.pc \in {"forgetting", "replacing"}
           /\ v.cn.slot.engine.url = None /\ v.tk.engine.url = w.cn.slot.engine.url
           /\ w.cn.slot.engine.url # w.cn.url \/ ~Shared(w.cn, w.cn.slot.engine.url)
  <2>1. ASSUME NEW s \in Stores PROVE s \in Engaged(v.cn, v.tk) <=> s \in Engaged(w.cn, Idle)
    BY <1>1, <1>3, <1>4, <1>6 DEF Engaged
  <2>2. ~Shared(w.cn, w.cn.slot.engine.url)
    BY <1>2, <1>3, <1>4, <1>6 DEF Aside, Shared
  <2>3. v.tk.pc \notin Moving /\ v.tk.pc # "ending" /\ ~Opens(v.tk) /\ Carries(v.tk)
    BY <1>6 DEF Moving, Opens, Carries, Signing
  <2>4. Aside(v.cn, v.tk)
    <3>1. ~Shared(v.cn, v.cn.slot.engine.url)
      BY <1>4, <1>6 DEF Shared
    <3>2. v.cn.block.closed => OnDisk(v.cn.block.slot.engine.url)
      BY <1>1, <1>2 DEF Aside
    <3>3. v.cn.block.closed <=> Shared(v.cn, v.cn.url)
      BY <1>1, <1>2, <1>3 DEF Aside, Shared
    <3>4. Idle.pc # "detaching"
      BY <1>3 DEF Moving
    <3>5. ~v.cn.block.closed /\ OnDisk(v.cn.block.slot.engine.url) =>
             \E b \in Blocks : KeyOf(b.url) # KeyOf(v.cn.block.slot.engine.url)
      BY <1>1, <1>2, <3>4 DEF Aside
    <3> QED BY <1>6, <3>1, <3>2, <3>3, <3>5 DEF Aside
  <2>5. Hand(v.cn, v.tk)
    BY <1>1, <1>6, <2>2, <2>3 DEF Hand, Shared, Moving
  <2> QED BY <1>1, <1>2, <2>1, <2>4, <2>5 DEF Account
<1> QED BY <1>5, <1>6 DEF Passes

(* The engine that was being opened comes into the slot.                   *)
LEMMA PublishesAccount ==
  ASSUME NEW w, NEW u, NEW c, Account(w.cn, w.tk, w.claims, c), Opens(w.tk),
         w.tk.phase = "opening", w.cn.slot.engine.url = None, Publishes(w, u)
  PROVE  Account(u.cn, Idle, u.claims, c)
<1>1. u.cn.url = w.cn.url /\ u.cn.block = w.cn.block /\ u.claims = w.claims
      /\ u.cn.slot.engine.url = w.tk.engine.url
  BY DEF Publishes, SameBlock, Session
<1>2. Idle.engine.url = None /\ Resting(Idle)
  BY IdleRests
<1>3. KeyOf(None) = None /\ ~OnDisk(None) /\ None \notin Stores
  BY Constants, Keys
<1>4. w.tk.pc \notin Moving /\ w.tk.pc # "detaching"
  BY DEF Opens, Moving, Signing
<1>5. /\ \A s \in Stores : w.claims[s] = c <=> s \in Engaged(w.cn, w.tk)
      /\ Aside(w.cn, w.tk) /\ Hand(w.cn, w.tk)
  BY DEF Account
<1>6. ASSUME NEW s \in Stores PROVE s \in Engaged(u.cn, Idle) <=> s \in Engaged(w.cn, w.tk)
  BY <1>1, <1>2, <1>3 DEF Engaged
<1>7. /\ Shared(w.cn, w.tk.engine.url) => w.cn.block.closed
      /\ w.cn.block.closed => w.tk.engine.url = w.cn.url
  BY <1>5 DEF Hand
<1>8. /\ w.cn.block.closed => OnDisk(w.cn.block.slot.engine.url)
      /\ w.cn.block.closed <=> Shared(w.cn, w.cn.url)
      /\ ~w.cn.block.closed /\ OnDisk(w.cn.block.slot.engine.url) =>
           \E b \in Blocks : KeyOf(b.url) # KeyOf(w.cn.block.slot.engine.url)
  BY <1>4, <1>5 DEF Aside
<1>9. Aside(u.cn, Idle)
  BY <1>1, <1>7, <1>8 DEF Aside, Shared
<1>10. Hand(u.cn, Idle)
  BY <1>2 DEF Hand, Resting, Carries, Moving
<1> QED BY <1>1, <1>5, <1>6, <1>9, <1>10 DEF Account

(* The engine did not open: a claim it took itself is let go.              *)
LEMMA DropsAccount ==
  ASSUME NEW w \in WorldType, NEW v, NEW c \in Connections, Account(w.cn, w.tk, w.claims, c), Opens(w.tk),
         w.tk.phase = "opening", w.cn.slot.engine.url = None, Drops(w, v, c)
  PROVE  Account(v.cn, v.tk, v.claims, c) /\ Only(w.claims, v.claims, c)
<1>1. v.cn.url = w.cn.url /\ v.cn.block = w.cn.block /\ v.cn.slot.engine.url = None
      /\ Resting(v.tk) /\ v.tk.engine.url = None
      /\ v.claims = IF w.tk.claimed THEN Unclaimed(w.claims, w.tk.engine.url, c) ELSE w.claims
  BY DEF Drops, SameBlock
<1>2. Idle.engine.url = None /\ Resting(Idle)
  BY IdleRests
<1>3. /\ KeyOf(None) = None /\ ~OnDisk(None) /\ None \notin Stores
      /\ w.tk.engine.url \in Urls /\ w.cn.block.slot.engine.url \in Urls
  BY UrlsIn, Keys
<1>4. w.tk.pc \notin Moving /\ w.tk.pc # "detaching"
  BY DEF Opens, Moving, Signing
<1>5. /\ \A s \in Stores : w.claims[s] = c <=> s \in Engaged(w.cn, w.tk)
      /\ Aside(w.cn, w.tk) /\ Hand(w.cn, w.tk)
  BY DEF Account
<1>6. OnDisk(w.tk.engine.url) => (w.tk.claimed <=> ~Shared(w.cn, w.tk.engine.url))
  BY <1>5 DEF Hand
<1>7. /\ Only(w.claims, v.claims, c)
      /\ w.tk.claimed => \A s \in Stores : v.claims[s] = c <=> w.claims[s] = c /\ s # KeyOf(w.tk.engine.url)
  <2>1. PICK freed : freed = Unclaimed(w.claims, w.tk.engine.url, c)
    OBVIOUS
  <2>2. /\ Only(w.claims, freed, c)
        /\ \A s \in Stores : freed[s] = c <=> w.claims[s] = c /\ s # KeyOf(w.tk.engine.url)
    BY <1>3, <2>1, Releases
  <2>3. Only(w.claims, w.claims, c)
    BY OnlySame
  <2>4. v.claims = IF w.tk.claimed THEN freed ELSE w.claims
    BY <1>1, <2>1
  <2> QED BY <2>2, <2>3, <2>4
<1>8. ASSUME NEW s \in Stores PROVE v.claims[s] = c <=> s \in Engaged(v.cn, Idle)
  <2>1. s \in Engaged(w.cn, w.tk) <=> s = KeyOf(w.cn.block.slot.engine.url) \/ s = KeyOf(w.tk.engine.url)
    BY <1>1, <1>3 DEF Engaged, Drops
  <2>2. s \in Engaged(v.cn, Idle) <=> s = KeyOf(w.cn.block.slot.engine.url)
    BY <1>1, <1>2, <1>3 DEF Engaged
  <2>3. s = KeyOf(w.tk.engine.url) => OnDisk(w.tk.engine.url)
    BY <1>3, Keys
  <2>4. OnDisk(w.tk.engine.url) =>
          (Shared(w.cn, w.tk.engine.url) <=> KeyOf(w.tk.engine.url) = KeyOf(w.cn.block.slot.engine.url))
    BY DEF Shared
  <2>5. CASE w.tk.claimed
    BY <1>5, <1>6, <1>7, <2>1, <2>2, <2>3, <2>4, <2>5
  <2>6. CASE ~w.tk.claimed
    <3>1. v.claims = w.claims
      BY <1>1, <2>6
    <3> QED BY <1>5, <1>6, <2>1, <2>2, <2>3, <2>4, <2>6, <3>1
  <2> QED BY <2>5, <2>6
<1>9. /\ w.cn.block.closed => OnDisk(w.cn.block.slot.engine.url)
      /\ w.cn.block.closed <=> Shared(w.cn, w.cn.url)
      /\ ~w.cn.block.closed /\ OnDisk(w.cn.block.slot.engine.url) =>
           \E b \in Blocks : KeyOf(b.url) # KeyOf(w.cn.block.slot.engine.url)
  BY <1>4, <1>5 DEF Aside
<1>10. Aside(v.cn, Idle)
  BY <1>1, <1>3, <1>9 DEF Aside, Shared
<1>11. Hand(v.cn, Idle)
  BY <1>2 DEF Hand, Resting, Carries, Moving
<1>12. Account(v.cn, Idle, v.claims, c)
  BY <1>8, <1>10, <1>11 DEF Account
<1> QED BY <1>1, <1>7, <1>12, AtRest

(* Whatever becomes of a session under way, the claims are those of the    *)
(* engines.                                                                *)
LEMMA ProceedingAccount ==
  ASSUME NEW w \in WorldType, NEW v, NEW c \in Connections, Account(w.cn, w.tk, w.claims, c),
         w.tk.pc \in {"opening", "reading"} \cup WayBack \cup Signing,
         w.tk.phase = "opening" <=> Opens(w.tk),
         w.tk.phase = "opening" => w.cn.slot.engine.url = None,
         Proceeding(w, v, c)
  PROVE  Account(v.cn, v.tk, v.claims, c) /\ Only(w.claims, v.claims, c)
<1>1. CASE w.tk.phase = "opening"
  <2>1. Opens(w.tk) /\ w.cn.slot.engine.url = None /\ w.tk.pc \notin Moving
    BY <1>1 DEF Opens, Moving, Signing
  <2>2. CASE SameEngines(w, v) /\ v.tk.pc \in Signing
    <3>1. /\ v.cn.url = w.cn.url /\ v.cn.block = w.cn.block /\ v.claims = w.claims
          /\ v.cn.slot.engine.url = w.cn.slot.engine.url /\ v.tk.engine.url = w.tk.engine.url
          /\ v.tk.phase = "opening" /\ v.tk.claimed = w.tk.claimed
      BY <1>1, <2>2 DEF SameEngines, SameBlock
    <3>2. Opens(v.tk) /\ Carries(v.tk) /\ v.tk.pc \notin Moving /\ v.tk.pc \notin {"forgetting", "replacing", "ending"}
      BY <2>2, <3>1 DEF Opens, Carries, Moving, Signing
    <3>3. Engaged(v.cn, v.tk) = Engaged(w.cn, w.tk)
      BY <3>1 DEF Engaged
    <3>4. Aside(v.cn, v.tk)
      BY <2>1, <3>1, <3>2 DEF Account, Aside, Shared, Moving
    <3>5. Hand(v.cn, v.tk)
      BY <2>1, <3>1, <3>2 DEF Account, Hand, Shared, Moving
    <3> QED BY <3>1, <3>3, <3>4, <3>5, OnlySame DEF Account
  <2>3. ASSUME NEW u, Publishes(w, u), Passes(u, v) PROVE Account(v.cn, v.tk, v.claims, c) /\ Only(w.claims, v.claims, c)
    <3>1. Account(u.cn, Idle, u.claims, c)
      BY <1>1, <2>1, <2>3, PublishesAccount
    <3>2. v.claims = w.claims
      BY <2>3 DEF Publishes, Passes
    <3> QED BY <2>3, <3>1, <3>2, PassesAccount, OnlySame
  <2>4. CASE Drops(w, v, c)
    BY <1>1, <2>1, <2>4, DropsAccount
  <2> QED BY <2>2, <2>3, <2>4 DEF Proceeding
<1>2. CASE w.tk.phase # "opening"
  <2>1. ~Opens(w.tk) /\ Resting(w.tk)
    BY <1>2 DEF Resting, Carries, Opens, Moving, Signing, WayBack
  <2>2. Account(w.cn, Idle, w.claims, c) /\ w.tk.engine.url = None
    BY <2>1, AtRest
  <2>3. CASE SameEngines(w, v) /\ v.tk.pc \in Signing
    <3>1. Resting(v.tk)
      BY <1>2, <2>3 DEF SameEngines, Resting, Carries, Opens, Moving, Signing
    <3>2. Passes(w, v)
      BY <2>2, <2>3, <3>1 DEF SameEngines, Passes
    <3> QED BY <2>2, <2>3, <3>2, PassesAccount, OnlySame DEF SameEngines
  <2>4. ASSUME NEW u, Publishes(w, u), Passes(u, v) PROVE Account(v.cn, v.tk, v.claims, c) /\ Only(w.claims, v.claims, c)
    <3>1. Passes(w, v) /\ v.claims = w.claims
      BY <1>2, <2>4 DEF Publishes, Passes, Session, SameBlock, Shared
    <3> QED BY <2>2, <3>1, PassesAccount, OnlySame
  <2> QED BY <1>2, <2>3, <2>4 DEF Proceeding
<1> QED BY <1>1, <1>2

-----------------------------------------------------------------------------
(***************************************************************************)
(* The segments, by what they do to the engines                            *)
(***************************************************************************)
(* Nothing of the engines, nor of the call, is written.                    *)
Written(w, u) == u \in WorldType /\ SameEngines(w, u) /\ u.tk.op = w.tk.op

LEMMA WrittenTwice ==
  ASSUME NEW w, NEW u, NEW v, Written(w, u), Written(u, v)
  PROVE  Written(w, v)
BY DEF Written, SameEngines, SameBlock

LEMMA SlotWritten ==
  ASSUME NEW w \in WorldType, NEW s \in SlotType, s.engine.url = w.cn.slot.engine.url,
         NEW u, u = WithSlot(w, s)
  PROVE  Written(w, u)
<1>1. w.cn \in ConnType
  BY DEF WorldType
<1>2. u \in WorldType
  BY <1>1 DEF WithSlot, WorldType, ConnType
<1>3. u.tk = w.tk /\ u.claims = w.claims /\ u.cn = [w.cn EXCEPT !.slot = s]
  BY DEF WithSlot, WorldType
<1>4. u.cn.url = w.cn.url /\ u.cn.block = w.cn.block /\ u.cn.slot = s
  BY <1>1, <1>3 DEF ConnType
<1> QED BY <1>2, <1>3, <1>4 DEF Written, SameEngines, SameBlock

LEMMA TokenWritten ==
  ASSUME NEW w \in WorldType, NEW token \in Whos, NEW u, u = [w EXCEPT !.cn.token = token]
  PROVE  Written(w, u)
<1>1. w.cn \in ConnType
  BY DEF WorldType
<1>2. u \in WorldType
  BY <1>1 DEF WorldType, ConnType
<1>3. u.tk = w.tk /\ u.claims = w.claims /\ u.cn = [w.cn EXCEPT !.token = token]
  BY DEF WorldType
<1>4. u.cn.url = w.cn.url /\ u.cn.block = w.cn.block /\ u.cn.slot = w.cn.slot
  BY <1>1, <1>3 DEF ConnType
<1> QED BY <1>2, <1>3, <1>4 DEF Written, SameEngines, SameBlock

(* The task is written, but for the engine in its hand.                    *)
LEMMA TaskWritten ==
  ASSUME NEW w \in WorldType, NEW tk \in TaskType, tk.engine.url = w.tk.engine.url,
         tk.phase = w.tk.phase, tk.claimed = w.tk.claimed, tk.op = w.tk.op,
         NEW u, u = [w EXCEPT !.tk = tk]
  PROVE  Written(w, u)
<1>1. u \in WorldType /\ u.tk = tk /\ u.claims = w.claims /\ u.cn = w.cn
  BY DEF WorldType
<1> QED BY <1>1 DEF Written, SameEngines, SameBlock

(* The session is written: its engine stays on its store.                  *)
LEMMA SessionWritten ==
  ASSUME NEW w \in WorldType, NEW e \in EngineType, e.url = Session(w).url, NEW u, u = WithSession(w, e)
  PROVE  Written(w, u) /\ Session(u) = e
<1>1. w.tk \in TaskType /\ w.cn \in ConnType /\ w.cn.slot \in SlotType
  BY DEF WorldType, ConnType
<1>2. CASE w.tk.phase = "opening"
  <2>1. PICK tk : tk = [w.tk EXCEPT !.engine = e]
    OBVIOUS
  <2>2. /\ tk \in TaskType /\ tk.engine = e /\ tk.phase = w.tk.phase /\ tk.claimed = w.tk.claimed
        /\ tk.op = w.tk.op
    BY <1>1, <2>1 DEF TaskType
  <2>3. u = [w EXCEPT !.tk = tk]
    BY <1>2, <2>1 DEF WithSession
  <2>4. e.url = w.tk.engine.url /\ u.tk = tk
    BY <1>2, <2>3 DEF Session, WorldType
  <2>5. Written(w, u)
    BY <2>2, <2>3, <2>4, TaskWritten
  <2> QED BY <1>2, <2>2, <2>4, <2>5 DEF Session
<1>3. CASE w.tk.phase # "opening"
  <2>1. PICK s : s = [w.cn.slot EXCEPT !.engine = e]
    OBVIOUS
  <2>2. s \in SlotType /\ s.engine = e
    BY <1>1, <2>1 DEF SlotType
  <2>3. u = WithSlot(w, s)
    BY <1>3, <2>1 DEF WithSession, WithSlot
  <2>4. e.url = w.cn.slot.engine.url
    BY <1>3 DEF Session
  <2>5. Written(w, u)
    BY <2>2, <2>3, <2>4, SlotWritten
  <2>6. u.cn.slot = s /\ u.tk = w.tk
    BY <1>1, <2>3 DEF WithSlot, WorldType, ConnType
  <2> QED BY <1>3, <2>2, <2>5, <2>6 DEF Session
<1> QED BY <1>2, <1>3

LEMMA RunsWritten ==
  ASSUME NEW w \in WorldType, NEW who \in Whos, NEW selects \in Databases, NEW u, u = Runs(w, who, selects)
  PROVE  Written(w, u)
<1>1. Session(w) \in EngineType
  BY SlotFields DEF SlotType
<1>2. PICK e : e = [Session(w) EXCEPT !.who = who, !.selects = selects]
  OBVIOUS
<1>3. e \in EngineType /\ e.url = Session(w).url /\ u = WithSession(w, e)
  BY <1>1, <1>2 DEF EngineType, Runs
<1> QED BY <1>3, SessionWritten

LEMMA DefinesWritten ==
  ASSUME NEW w \in WorldType, NEW is \in BOOLEAN, NEW u, u = Defines(w, is)
  PROVE  Written(w, u)
<1>1. Session(w) \in EngineType
  BY SlotFields DEF SlotType
<1>2. PICK e : e = [Session(w) EXCEPT !.user = is]
  OBVIOUS
<1>3. PICK x : x = WithSession(w, e)
  OBVIOUS
<1>4. e \in EngineType /\ e.url = Session(w).url
  BY <1>1, <1>2 DEF EngineType
<1>5. Written(w, x) /\ x \in WorldType
  BY <1>3, <1>4, SessionWritten DEF Written
<1>6. x.cn.slot \in SlotType
  BY <1>5 DEF WorldType, ConnType
<1>7. PICK s : s = [x.cn.slot EXCEPT !.user = is]
  OBVIOUS
<1>8. s \in SlotType /\ s.engine = x.cn.slot.engine
  BY <1>6, <1>7 DEF SlotType
<1>9. u = WithSlot(x, s)
  BY <1>2, <1>3, <1>7 DEF Defines, WithSlot
<1>10. Written(x, u)
  BY <1>5, <1>8, <1>9, SlotWritten
<1> QED BY <1>5, <1>10, WrittenTwice

LEMMA EndsPasses ==
  ASSUME NEW w \in WorldType, w.tk.engine.url = None
  PROVE  Passes(w, Ends(w))
<1>1. PICK v : v = Ends(w)
  OBVIOUS
<1>2. w.cn \in ConnType
  BY DEF WorldType
<1>3. v.tk = Idle /\ v.claims = w.claims /\ v.cn = [w.cn EXCEPT !.guard = None]
  BY <1>1 DEF Ends, WorldType
<1>4. v.cn.url = w.cn.url /\ v.cn.block = w.cn.block /\ v.cn.slot = w.cn.slot
  BY <1>2, <1>3 DEF ConnType
<1> QED BY <1>1, <1>3, <1>4, IdleRests DEF Passes, SameBlock

LEMMA AtIs ==
  ASSUME NEW w \in WorldType, NEW pc \in Holding, NEW v, v = At(w, pc)
  PROVE  Written(w, v) /\ v.tk.pc = pc /\ v.cn = w.cn /\ v.tk.target = w.tk.target
<1>1. w.tk \in TaskType
  BY DEF WorldType
<1>2. PICK tk : tk = [w.tk EXCEPT !.pc = pc]
  OBVIOUS
<1>3. /\ tk \in TaskType /\ tk.pc = pc /\ tk.engine = w.tk.engine /\ tk.phase = w.tk.phase
      /\ tk.claimed = w.tk.claimed /\ tk.op = w.tk.op /\ tk.target = w.tk.target
  BY <1>1, <1>2 DEF TaskType
<1>4. v = [w EXCEPT !.tk = tk]
  BY <1>2 DEF At
<1>5. v.tk = tk /\ v.cn = w.cn
  BY <1>4 DEF WorldType
<1> QED BY <1>3, <1>4, <1>5, TaskWritten

LEMMA AtPasses ==
  ASSUME NEW w \in WorldType, w.tk.engine.url = None,
         NEW pc \in WayBack \cup Signing \cup {"reading"}, pc \in Signing => w.tk.phase # "opening"
  PROVE  Passes(w, At(w, pc))
<1>1. PICK v : v = At(w, pc)
  OBVIOUS
<1>2. pc \in Holding /\ pc \notin Moving /\ pc \notin {"opening", "forgetting", "replacing", "ending"}
  BY DEF Holding, Moving, WayBack, Signing
<1>3. Written(w, v) /\ v.tk.pc = pc
  BY <1>1, <1>2, AtIs
<1>4. Resting(v.tk)
  BY <1>2, <1>3 DEF Resting, Carries, Opens, Written, SameEngines
<1> QED BY <1>1, <1>3, <1>4 DEF Passes, Written, SameEngines

LEMMA ForgetPasses ==
  ASSUME NEW w \in WorldType, NEW pc \in {"forgetting", "replacing"},
         w.cn.slot.engine.url # w.cn.url \/ ~Shared(w.cn, w.cn.slot.engine.url)
  PROVE  Passes(w, Forget(w, pc))
<1>1. PICK v : v = Forget(w, pc)
  OBVIOUS
<1>2. w.tk \in TaskType /\ w.cn \in ConnType /\ w.cn.slot \in SlotType /\ w.cn.slot.engine \in EngineType
  BY DEF WorldType, ConnType, SlotType
<1>3. PICK e : e = [Down(w.cn.slot.engine) EXCEPT !.up = w.cn.slot.engine.up]
  OBVIOUS
<1>4. e.url = w.cn.slot.engine.url
  <2>1. Down(w.cn.slot.engine) \in EngineType /\ Down(w.cn.slot.engine).url = w.cn.slot.engine.url
    BY <1>2, DownIs
  <2> QED BY <1>3, <2>1 DEF EngineType
<1>5. /\ v.cn = [w.cn EXCEPT !.slot = EmptySlot] /\ v.claims = w.claims
      /\ v.tk = [w.tk EXCEPT !.engine = e, !.pc = pc]
  BY <1>1, <1>3 DEF Forget, WorldType
<1>6. /\ v.cn.slot = EmptySlot /\ v.cn.url = w.cn.url /\ v.cn.block = w.cn.block
      /\ v.tk.engine = e /\ v.tk.pc = pc
  BY <1>2, <1>5 DEF ConnType, TaskType
<1>7. EmptySlot.engine.url = None
  BY DEF EmptySlot, NoEngine
<1> QED BY <1>1, <1>4, <1>5, <1>6, <1>7 DEF Passes, SameBlock

LEMMA WrittenPasses ==
  ASSUME NEW w, NEW u, NEW v, Written(w, u), Passes(u, v)
  PROVE  Passes(w, v)
BY PassesFrom DEF Written, SameEngines

LEMMA UnselectedIs ==
  ASSUME NEW w \in WorldType, NEW u, u = [w EXCEPT !.cn.slot.selected = None]
  PROVE  Written(w, u)
<1>1. w.cn.slot \in SlotType
  BY DEF WorldType, ConnType
<1>2. PICK s : s = [w.cn.slot EXCEPT !.selected = None]
  OBVIOUS
<1>3. s \in SlotType /\ s.engine = w.cn.slot.engine
  BY <1>1, <1>2, Constants DEF SlotType
<1>4. u = WithSlot(w, s)
  BY <1>2 DEF WithSlot
<1> QED BY <1>3, <1>4, SlotWritten

LEMMA RetiredPasses ==
  ASSUME NEW w \in WorldType, w.tk.engine.url = None
  PROVE  Passes(w, Retired(w))
<1>1. CASE w.cn.slot.engine.url # w.cn.url
  BY <1>1, ForgetPasses DEF Retired
<1>2. CASE w.cn.slot.engine.url = w.cn.url
  <2>1. PICK u : u = [w EXCEPT !.cn.slot.selected = None]
    OBVIOUS
  <2>2. Written(w, u)
    BY <2>1, UnselectedIs
  <2>3. Passes(u, Ends(u))
    BY <2>2, EndsPasses DEF Written, SameEngines
  <2>4. Retired(w) = Ends(u)
    BY <1>2, <2>1 DEF Retired
  <2> QED BY <2>2, <2>3, <2>4, WrittenPasses
<1> QED BY <1>1, <1>2

LEMMA FailsPasses ==
  ASSUME NEW w \in WorldType, w.tk.engine.url = None
  PROVE  Passes(w, Raises(w)) /\ Passes(w, Fails(w))
BY RetiredPasses, EndsPasses DEF Fails, Raises

LEMMA SelectPasses ==
  ASSUME NEW w \in WorldType, w.tk.engine.url = None
  PROVE  Passes(w, Select(w))
<1>1. "using" \in WayBack
  BY DEF WayBack
<1>2. CASE w.tk.phase = "own"
  <2>1. PICK u : u = [w EXCEPT !.cn.token = NoOne, !.tk.database = w.cn.database]
    OBVIOUS
  <2>2. w.cn \in ConnType /\ w.tk \in TaskType /\ w.cn.database \in Databases
    BY DEF WorldType, ConnType
  <2>3. u \in WorldType
    BY <2>1, <2>2, Constants DEF WorldType, ConnType, TaskType
  <2>4. u.cn = [w.cn EXCEPT !.token = NoOne] /\ u.tk = [w.tk EXCEPT !.database = w.cn.database]
        /\ u.claims = w.claims
    BY <2>1 DEF WorldType
  <2>5. /\ u.cn.url = w.cn.url /\ u.cn.block = w.cn.block /\ u.cn.slot = w.cn.slot
        /\ u.tk.engine = w.tk.engine
    BY <2>2, <2>4 DEF ConnType, TaskType
  <2>6. Passes(u, Ends(u)) /\ Passes(u, At(u, "using"))
    BY <1>1, <2>3, <2>5, EndsPasses, AtPasses DEF WayBack, Signing
  <2>7. Select(w) = IF w.cn.database = None THEN Ends(u) ELSE At(u, "using")
    BY <1>2, <2>1 DEF Select
  <2>8. Passes(u, Select(w))
    BY <2>6, <2>7
  <2> QED BY <2>4, <2>5, <2>8, PassesFrom DEF SameBlock
<1>3. CASE w.tk.phase # "own"
  BY <1>1, <1>3, AtPasses DEF Select, WayBack, Signing
<1> QED BY <1>2, <1>3

LEMMA BackPasses ==
  ASSUME NEW w \in WorldType, w.tk.engine.url = None
  PROVE  Passes(w, BackToOwner(w))
<1>1. ASSUME NEW pc \in {"removing", "closing", "invalidating"} PROVE Passes(w, At(w, pc))
  <2>1. pc \in WayBack /\ pc \notin Signing
    BY DEF WayBack, Signing
  <2> QED BY <2>1, AtPasses
<1> QED BY <1>1, SelectPasses DEF BackToOwner

LEMMA ResetPasses ==
  ASSUME NEW w \in WorldType, NEW phase \in Phases, w.tk.engine.url = None
  PROVE  Passes(w, Reset(w, phase))
<1>1. CASE w.cn.database = None
  BY <1>1, EndsPasses DEF Reset
<1>2. CASE w.cn.database # None
  <2>1. PICK u : u = [w EXCEPT !.tk.phase = phase, !.tk.database = w.cn.database, !.cn.slot.selected = None]
    OBVIOUS
  <2>2. w.cn \in ConnType /\ w.tk \in TaskType /\ w.cn.database \in Databases /\ w.cn.slot \in SlotType
    BY DEF WorldType, ConnType
  <2>3. /\ u.cn = [w.cn EXCEPT !.slot.selected = None] /\ u.claims = w.claims /\ u.me = w.me
        /\ u.tk = [w.tk EXCEPT !.phase = phase, !.database = w.cn.database]
    BY <2>1 DEF WorldType
  <2>4. /\ u.cn.url = w.cn.url /\ u.cn.block = w.cn.block
        /\ u.cn.slot = [w.cn.slot EXCEPT !.selected = None] /\ u.tk.engine = w.tk.engine
    BY <2>2, <2>3 DEF ConnType, TaskType
  <2>5. u.cn.slot.engine = w.cn.slot.engine
    BY <2>2, <2>4 DEF SlotType
  <2>6. u \in WorldType
    BY <2>1, <2>2, Constants DEF WorldType, ConnType, TaskType, SlotType
  <2>7. Passes(u, BackToOwner(u))
    BY <2>4, <2>6, BackPasses
  <2>8. Reset(w, phase) = BackToOwner(u)
    BY <1>2, <2>1 DEF Reset
  <2> QED BY <2>3, <2>4, <2>5, <2>7, <2>8, PassesFrom DEF SameBlock
<1> QED BY <1>1, <1>2

LEMMA ServesPasses ==
  ASSUME NEW w \in WorldType, w.tk.engine.url = None, w.tk.op \in Gets
  PROVE  Passes(w, Serves(w))
<1>1. w.cn \in ConnType /\ w.tk \in TaskType /\ w.cn.slot \in SlotType
  BY DEF WorldType, ConnType
<1>2. CASE w.tk.op = "get"
  BY <1>2, EndsPasses DEF Serves
<1>3. CASE w.tk.op \in {"signin", "bind"}
  <2>1. PICK u : u = [w EXCEPT !.tk.phase = "own", !.tk.was = w.cn.slot.owner,
                               !.tk.generation = 0, !.tk.replays = NoOne]
    OBVIOUS
  <2>2. /\ u.cn = w.cn /\ u.claims = w.claims
        /\ u.tk = [w.tk EXCEPT !.phase = "own", !.was = w.cn.slot.owner, !.generation = 0, !.replays = NoOne]
    BY <2>1 DEF WorldType
  <2>3. u.tk.engine = w.tk.engine /\ u.tk.phase = "own"
    BY <1>1, <2>2 DEF TaskType
  <2>4. w.cn.slot.owner \in BOOLEAN /\ "own" \in Phases
    BY <1>1 DEF SlotType, Phases
  <2>5. u \in WorldType
    BY <1>1, <2>1, <2>4, Constants DEF WorldType, TaskType
  <2>6. ASSUME NEW pc \in {"defining", "exchanging"} PROVE Passes(u, At(u, pc))
    <3>1. pc \in Signing
      BY DEF Signing
    <3> QED BY <2>3, <2>5, <3>1, AtPasses
  <2>7. PICK pc \in {"defining", "exchanging"} : Serves(w) = At(u, pc)
    <3>1. Serves(w) = At(u, IF NeedsUser(w) THEN "defining" ELSE "exchanging")
      BY <1>3, <2>1 DEF Serves
    <3> QED BY <3>1
  <2>8. Passes(u, Serves(w))
    BY <2>6, <2>7
  <2> QED BY <2>2, <2>8, PassesFrom DEF SameBlock
<1>4. CASE w.tk.op = "invalidate"
  <2>1. PICK u : u = [w EXCEPT !.tk.phase = "own", !.cn.slot.selected = None, !.tk.generation = 0]
    OBVIOUS
  <2>2. /\ u.cn = [w.cn EXCEPT !.slot.selected = None] /\ u.claims = w.claims
        /\ u.tk = [w.tk EXCEPT !.phase = "own", !.generation = 0]
    BY <2>1 DEF WorldType
  <2>3. /\ u.cn.url = w.cn.url /\ u.cn.block = w.cn.block
        /\ u.cn.slot = [w.cn.slot EXCEPT !.selected = None] /\ u.tk.engine = w.tk.engine
    BY <1>1, <2>2 DEF ConnType, TaskType
  <2>4. u.cn.slot.engine = w.cn.slot.engine
    BY <1>1, <2>3 DEF SlotType
  <2>5. u \in WorldType
    <3>1. u.tk \in TaskType
      <4>1. "own" \in Phases
        BY DEF Phases
      <4>2. PICK tk : tk = [w.tk EXCEPT !.phase = "own", !.generation = 0]
        OBVIOUS
      <4>3. tk \in TaskType
        BY <1>1, <4>1, <4>2 DEF TaskType
      <4> QED BY <2>2, <4>2, <4>3
    <3>2. u.cn.slot \in SlotType
      BY <1>1, <2>3, Constants DEF SlotType
    <3>3. u.cn \in ConnType
      BY <1>1, <2>2, <2>3, <3>2 DEF ConnType
    <3> QED BY <2>1, <3>1, <3>3 DEF WorldType
  <2>6. Passes(u, BackToOwner(u))
    BY <2>3, <2>5, BackPasses
  <2>7. Serves(w) = BackToOwner(u)
    BY <1>4, <2>1 DEF Serves
  <2> QED BY <2>2, <2>3, <2>4, <2>6, <2>7, PassesFrom DEF SameBlock
<1> QED BY <1>2, <1>3, <1>4 DEF Gets

(* The selection is written, and the engine that was opened comes in.      *)
LEMMA PublishedIn ==
  ASSUME NEW w \in WorldType, w.tk.phase # "opening" => w.tk.engine.url = None, NEW u, u = Published(w)
  PROVE  u \in WorldType /\ Publishes(w, u) /\ u.tk.op = w.tk.op
<1>1. w.cn \in ConnType /\ w.tk \in TaskType /\ w.cn.slot \in SlotType /\ w.tk.engine \in EngineType
      /\ w.tk.database \in Databases
  BY DEF WorldType, ConnType, TaskType
<1>2. PICK x : x = WithSlot(w, [w.cn.slot EXCEPT !.selected = w.tk.database])
  OBVIOUS
<1>3. PICK s : s = [w.cn.slot EXCEPT !.selected = w.tk.database]
  OBVIOUS
<1>4. s \in SlotType /\ s.engine = w.cn.slot.engine
  BY <1>1, <1>3 DEF SlotType
<1>5. x = WithSlot(w, s)
  BY <1>2, <1>3
<1>6. Written(w, x) /\ x.tk = w.tk /\ x.cn.slot = s
  <2>1. x.tk = w.tk /\ x.cn.slot = s
    BY <1>1, <1>5 DEF WithSlot, WorldType, ConnType
  <2> QED BY <1>4, <1>5, <2>1, SlotWritten
<1>7. x = [w EXCEPT !.cn.slot.selected = w.tk.database]
  BY <1>2 DEF WithSlot
<1>8. CASE w.tk.phase # "opening"
  <2>1. u = x
    BY <1>7, <1>8 DEF Published
  <2> QED BY <1>6, <1>8, <2>1 DEF Written, SameEngines, Publishes, Session
<1>9. CASE w.tk.phase = "opening"
  <2>1. u = [x EXCEPT !.cn.slot.engine = w.tk.engine, !.tk.engine = NoEngine]
    BY <1>7, <1>9 DEF Published
  <2>2. x \in WorldType /\ x.cn \in ConnType /\ x.cn.slot \in SlotType /\ x.tk \in TaskType
    BY <1>6 DEF Written, WorldType, ConnType
  <2>3. /\ u.cn = [x.cn EXCEPT !.slot.engine = w.tk.engine] /\ u.claims = x.claims /\ u.me = x.me
        /\ u.tk = [x.tk EXCEPT !.engine = NoEngine]
    BY <2>1, <2>2 DEF WorldType
  <2>4. /\ u.cn.url = x.cn.url /\ u.cn.block = x.cn.block
        /\ u.cn.slot = [x.cn.slot EXCEPT !.engine = w.tk.engine]
        /\ u.tk.engine = NoEngine /\ u.tk.op = x.tk.op
    BY <2>2, <2>3 DEF ConnType, TaskType
  <2>5. u.cn.slot \in SlotType /\ u.cn.slot.engine = w.tk.engine
    BY <1>1, <2>2, <2>4 DEF SlotType
  <2>6. u.cn \in ConnType
    BY <2>2, <2>3, <2>4, <2>5 DEF ConnType
  <2>7. u.tk \in TaskType
    BY <2>2, <2>3, Constants DEF TaskType
  <2>8. u \in WorldType
    BY <2>1, <2>2, <2>6, <2>7 DEF WorldType
  <2>9. Session(w).url = w.tk.engine.url /\ NoEngine.url = None
    BY <1>9 DEF Session, NoEngine
  <2> QED BY <1>6, <2>3, <2>4, <2>5, <2>8, <2>9 DEF Written, SameEngines, SameBlock, Publishes
<1> QED BY <1>8, <1>9

LEMMA ReplayedProceeds ==
  ASSUME NEW w \in WorldType, NEW c, w.tk.phase # "opening" => w.tk.engine.url = None,
         w.tk.phase \in {"opening", "resetting", "restoring"},
         w.tk.phase \in {"opening", "resetting"} => w.tk.op \in Gets
  PROVE  Proceeding(w, Replayed(w), c)
<1>1. PICK u : u = Published(w)
  OBVIOUS
<1>2. u \in WorldType /\ Publishes(w, u) /\ u.tk.op = w.tk.op /\ u.tk.engine.url = None
  BY <1>1, PublishedIn DEF Publishes
<1>3. Passes(u, Ends(u)) /\ Passes(u, Retired(u))
  BY <1>2, EndsPasses, RetiredPasses
<1>4. w.tk.phase \in {"opening", "resetting"} => Passes(u, Serves(u))
  BY <1>2, ServesPasses
<1>5. \/ w.tk.phase = "restoring" /\ Replayed(w) = Ends(u)
      \/ /\ w.tk.phase \in {"opening", "resetting"}
         /\ Replayed(w) \in {Serves(u), Retired(u)}
  BY <1>1 DEF Replayed
<1>6. Passes(u, Replayed(w))
  BY <1>3, <1>4, <1>5
<1> QED BY <1>2, <1>6 DEF Proceeding

LEMMA ReplaySendsProceeds ==
  ASSUME NEW w \in WorldType, NEW c, w.tk.phase # "opening" => w.tk.engine.url = None,
         w.tk.phase \in {"opening", "resetting", "restoring"},
         w.tk.phase \in {"opening", "resetting"} => w.tk.op \in Gets
  PROVE  Proceeding(w, ReplaySends(w), c)
<1>1. w.cn \in ConnType /\ w.tk \in TaskType /\ w.cn.slot \in SlotType /\ w.cn.token \in Whos
  BY DEF WorldType, ConnType
<1>2. CASE w.cn.token = NoOne
  <2>1. PICK s : s = [w.cn.slot EXCEPT !.owner = FALSE]
    OBVIOUS
  <2>2. s \in SlotType /\ s.engine = w.cn.slot.engine
    BY <1>1, <2>1 DEF SlotType
  <2>3. PICK u : u = WithSlot(w, s)
    OBVIOUS
  <2>4. Written(w, u)
    BY <2>2, <2>3, SlotWritten
  <2>5. Proceeding(u, Replayed(u), c)
    BY <2>4, ReplayedProceeds DEF Written, SameEngines
  <2>6. ReplaySends(w) = Replayed(u)
    BY <1>2, <2>1, <2>3 DEF ReplaySends, WithSlot
  <2> QED BY <2>4, <2>5, <2>6, ProceedingFrom DEF Written
<1>3. CASE w.cn.token # NoOne
  <2>1. PICK tk : tk = [w.tk EXCEPT !.replays = w.cn.token]
    OBVIOUS
  <2>2. /\ tk \in TaskType /\ tk.engine = w.tk.engine /\ tk.phase = w.tk.phase /\ tk.claimed = w.tk.claimed
        /\ tk.op = w.tk.op
    BY <1>1, <2>1 DEF TaskType
  <2>3. PICK u : u = [w EXCEPT !.tk = tk]
    OBVIOUS
  <2>4. Written(w, u)
    BY <2>2, <2>3, TaskWritten
  <2>5. PICK v : v = At(u, "replaying")
    OBVIOUS
  <2>6. Written(u, v) /\ v.tk.pc = "replaying"
    BY <2>4, <2>5, AtIs DEF Holding, Signing, Written
  <2>7. ReplaySends(w) = v
    BY <1>3, <2>1, <2>3, <2>5 DEF ReplaySends
  <2>8. SameEngines(w, v) /\ v.tk.pc \in Signing
    BY <2>4, <2>6, WrittenTwice DEF Written, Signing
  <2> QED BY <2>7, <2>8 DEF Proceeding
<1> QED BY <1>2, <1>3

LEMMA ReplayProceeds ==
  ASSUME NEW w \in WorldType, NEW c, w.tk.phase # "opening" => w.tk.engine.url = None,
         w.tk.phase \in {"opening", "resetting", "restoring"},
         w.tk.phase \in {"opening", "resetting"} => w.tk.op \in Gets
  PROVE  Proceeding(w, Replay(w), c)
<1>1. w.tk \in TaskType /\ w.cn.slot.owner \in BOOLEAN
  BY DEF WorldType, ConnType, SlotType
<1>2. PICK tk : tk = [w.tk EXCEPT !.was = w.cn.slot.owner]
  OBVIOUS
<1>3. /\ tk \in TaskType /\ tk.engine = w.tk.engine /\ tk.phase = w.tk.phase /\ tk.claimed = w.tk.claimed
      /\ tk.op = w.tk.op
  BY <1>1, <1>2 DEF TaskType
<1>4. PICK u : u = [w EXCEPT !.tk = tk]
  OBVIOUS
<1>5. Written(w, u) /\ u.tk.phase = w.tk.phase
  BY <1>3, <1>4, TaskWritten DEF Written, SameEngines
<1>6. PICK v : v = At(u, "defining")
  OBVIOUS
<1>7. SameEngines(w, v) /\ v.tk.pc \in Signing
  <2>1. Written(u, v) /\ v.tk.pc = "defining"
    BY <1>5, <1>6, AtIs DEF Holding, Signing, Written
  <2> QED BY <1>5, <2>1, WrittenTwice DEF Written, Signing
<1>8. Proceeding(w, v, c)
  BY <1>7 DEF Proceeding
<1>9. Proceeding(w, Replayed(w), c)
  BY ReplayedProceeds
<1>10. Proceeding(u, ReplaySends(u), c)
  BY <1>5, ReplaySendsProceeds DEF Written, SameEngines
<1>11. Proceeding(w, ReplaySends(u), c)
  BY <1>5, <1>10, ProceedingFrom DEF Written
<1>12. Replay(w) = IF w.cn.token = NoOne THEN Replayed(w) ELSE IF NeedsUser(w) THEN v ELSE ReplaySends(u)
  BY <1>2, <1>4, <1>6 DEF Replay
<1> QED BY <1>8, <1>9, <1>11, <1>12

(* The engine did not open, or the session was not signed in.              *)
LEMMA NotOpenedDrops ==
  ASSUME NEW w \in WorldType, w.tk.phase = "opening"
  PROVE  Proceeding(w, NotOpened(w), w.tk.conn)
<1>1. PICK held : held = Unclaimed(w.claims, w.tk.engine.url, w.tk.conn)
  OBVIOUS
<1>2. PICK u : u = IF w.tk.claimed THEN [w EXCEPT !.claims = held] ELSE w
  OBVIOUS
<1>3. u.cn = w.cn /\ u.claims = (IF w.tk.claimed THEN held ELSE w.claims)
  BY <1>2 DEF WorldType
<1>4. PICK v : v = Ends(u)
  OBVIOUS
<1>5. v.tk = Idle /\ v.cn = [w.cn EXCEPT !.guard = None] /\ v.claims = u.claims
  BY <1>2, <1>4 DEF Ends, WorldType
<1>6. v.cn.url = w.cn.url /\ v.cn.block = w.cn.block /\ v.cn.slot = w.cn.slot
  BY <1>5 DEF WorldType, ConnType
<1>7. v = NotOpened(w)
  BY <1>1, <1>2, <1>4 DEF NotOpened
<1>8. Drops(w, v, w.tk.conn)
  BY <1>1, <1>3, <1>5, <1>6, IdleRests DEF Drops, SameBlock
<1> QED BY <1>7, <1>8 DEF Proceeding

LEMMA UndefinedProceeds ==
  ASSUME NEW w \in WorldType, w.tk.phase # "opening" => w.tk.engine.url = None
  PROVE  Proceeding(w, Undefined(w), w.tk.conn)
<1>1. CASE w.tk.phase = "opening"
  BY <1>1, NotOpenedDrops DEF Undefined
<1>2. CASE w.tk.phase # "opening"
  <2>1. Passes(w, Reset(w, "restoring")) /\ Passes(w, Fails(w))
    BY <1>2, ResetPasses, FailsPasses DEF Phases
  <2>2. Undefined(w) \in {Reset(w, "restoring"), Fails(w)}
    BY <1>2 DEF Undefined
  <2> QED BY <1>2, <2>1, <2>2, PassesProceeds
<1> QED BY <1>1, <1>2

LEMMA RefusedProceeds ==
  ASSUME NEW w \in WorldType, NEW c, w.tk.phase # "opening" => w.tk.engine.url = None,
         \/ w.tk.phase \in {"opening", "resetting", "restoring"}
         \/ w.tk.phase = "own" /\ w.tk.op \in {"bind", "signin"}
  PROVE  Proceeding(w, Refused(w), c)
<1>1. CASE w.tk.phase \in {"opening", "resetting", "restoring"}
  <2>1. PICK u : u = Published(w)
    OBVIOUS
  <2>2. u \in WorldType /\ Publishes(w, u) /\ u.tk.engine.url = None
    BY <2>1, PublishedIn DEF Publishes
  <2>3. Passes(u, Ends(u)) /\ Passes(u, Raises(u))
    BY <2>2, EndsPasses, FailsPasses
  <2>4. Refused(w) \in {Ends(u), Raises(u)}
    BY <1>1, <2>1 DEF Refused
  <2> QED BY <2>2, <2>3, <2>4 DEF Proceeding
<1>2. CASE w.tk.phase = "own"
  <2>1. Passes(w, Reset(w, "restoring")) /\ Passes(w, Ends(w))
    BY <1>2, ResetPasses, EndsPasses DEF Phases
  <2>2. Refused(w) \in {Reset(w, "restoring"), Ends(w)}
    BY <1>2 DEF Refused
  <2> QED BY <1>2, <2>1, <2>2, PassesProceeds
<1> QED BY <1>1, <1>2

LEMMA AdoptsPasses ==
  ASSUME NEW w \in WorldType, NEW kept \in BOOLEAN, w.tk.engine.url = None
  PROVE  Passes(w, Adopts(w, kept))
<1>1. PICK u : u = [w EXCEPT !.cn.token = IF kept THEN w.tk.who ELSE @, !.cn.slot.bound = FALSE]
  OBVIOUS
<1>2. w.cn \in ConnType /\ w.tk \in TaskType /\ w.cn.slot \in SlotType /\ w.tk.who \in Whos /\ w.cn.token \in Whos
  BY DEF WorldType, ConnType, TaskType
<1>3. PICK token \in Whos : token = IF kept THEN w.tk.who ELSE w.cn.token
  BY <1>2
<1>4. u = [w EXCEPT !.cn.token = token, !.cn.slot.bound = FALSE]
  BY <1>1, <1>3
<1>5. u \in WorldType
  BY <1>2, <1>4 DEF WorldType, ConnType, SlotType
<1>6. u.tk = w.tk /\ u.claims = w.claims /\ u.cn = [w.cn EXCEPT !.token = token, !.slot.bound = FALSE]
  BY <1>4 DEF WorldType
<1>7. /\ u.cn.url = w.cn.url /\ u.cn.block = w.cn.block
      /\ u.cn.slot = [w.cn.slot EXCEPT !.bound = FALSE]
  BY <1>2, <1>6 DEF ConnType
<1>8. u.cn.slot.engine = w.cn.slot.engine
  BY <1>2, <1>7 DEF SlotType
<1>9. Passes(u, Ends(u))
  BY <1>5, <1>6, EndsPasses
<1>10. Adopts(w, kept) = Ends(u)
  BY <1>1 DEF Adopts
<1> QED BY <1>6, <1>7, <1>8, <1>9, <1>10, PassesFrom DEF SameBlock

(* An engine is opened: its store is claimed unless the connection has it. *)
LEMMA OpenAccount ==
  ASSUME NEW w \in WorldType, NEW c \in Connections, w.tk.conn = c, Account(w.cn, Idle, w.claims, c),
         w.cn.slot.engine.url = None, w.tk.engine.url = None
  PROVE  Account(Open(w).cn, Open(w).tk, Open(w).claims, c) /\ Only(w.claims, Open(w).claims, c)
<1>1. w.cn \in ConnType /\ w.tk \in TaskType /\ w.claims \in ClaimsType
  BY DEF WorldType
<1>2. CASE w.cn.url = None \/ ~Claimed(w.claims, w.cn.url, c)
  <2>1. Open(w) = Ends(w)
    BY <1>2 DEF Open
  <2>2. Passes(w, Ends(w))
    BY EndsPasses
  <2>3. Ends(w).claims = w.claims
    BY <2>2 DEF Passes
  <2> QED BY <2>1, <2>2, <2>3, PassesAccount, OnlySame
<1>3. CASE ~(w.cn.url = None \/ ~Claimed(w.claims, w.cn.url, c))
  <2>1. PICK taken : taken = Claim(w.claims, w.cn.url, c)
    OBVIOUS
  <2>2. PICK claimed \in BOOLEAN : claimed <=> (OnDisk(w.cn.url) /\ w.claims[KeyOf(w.cn.url)] = None)
    OBVIOUS
  <2>3. PICK e : e = [NoEngine EXCEPT !.url = w.cn.url]
    OBVIOUS
  <2>4. e.url = w.cn.url
    BY <2>3 DEF NoEngine
  <2>5. claimed = (OnDisk(w.cn.url) /\ w.claims[KeyOf(w.cn.url)] = None)
    BY <2>2
  <2>6. PICK v : v = [w EXCEPT !.tk.pc = "opening", !.tk.phase = "opening", !.tk.database = w.cn.database,
                               !.tk.claimed = claimed, !.tk.engine = e,
                               !.cn.slot = EmptySlot, !.claims = taken]
    OBVIOUS
  <2>7. Open(w) = v
    BY <1>3, <2>1, <2>3, <2>5, <2>6 DEF Open
  <2>8. /\ v.claims = taken /\ v.cn = [w.cn EXCEPT !.slot = EmptySlot]
        /\ v.tk = [w.tk EXCEPT !.pc = "opening", !.phase = "opening", !.database = w.cn.database,
                               !.claimed = claimed, !.engine = e]
    BY <2>6 DEF WorldType
  <2>9. v.tk.pc = "opening" /\ v.tk.engine = e /\ (v.tk.claimed <=> claimed)
    BY <1>1, <2>8 DEF TaskType
  <2>10. v.cn.slot = EmptySlot /\ v.cn.url = w.cn.url /\ v.cn.block = w.cn.block
    BY <1>1, <2>8 DEF ConnType
  <2>11. v.cn.slot.engine.url = None
    BY <2>10 DEF EmptySlot, NoEngine
  <2>12. Only(w.claims, taken, c) /\ \A s \in Stores : (taken[s] = c) <=> (w.claims[s] = c \/ (s = KeyOf(w.cn.url) /\ w.claims[s] = None))
    BY <2>1, Takes
  <2>13. /\ KeyOf(None) = None /\ ~OnDisk(None) /\ None \notin Stores
         /\ OnDisk(w.cn.url) <=> KeyOf(w.cn.url) \in Stores
         /\ OnDisk(w.cn.block.slot.engine.url) <=> KeyOf(w.cn.block.slot.engine.url) \in Stores
    BY UrlsIn, Keys
  <2>14. c # None
    BY SlotAssumption DEF SlotAssumption
  <2>15. Idle.engine.url = None /\ Idle.pc \notin Moving /\ Idle.pc # "detaching"
    BY IdleRests DEF Resting, Moving
  <2>16. \A s \in Stores : w.claims[s] = c <=> s = KeyOf(w.cn.block.slot.engine.url)
    BY <2>13, <2>15 DEF Account, Engaged
  <2>17. KeyOf(w.cn.url) \in Stores => w.claims[KeyOf(w.cn.url)] \in {None, c}
    BY <1>3, <2>13 DEF Claimed
  <2>18. ASSUME NEW s \in Stores PROVE v.claims[s] = c <=> s \in Engaged(v.cn, v.tk)
    <3>1. s \in Engaged(v.cn, v.tk) <=> s = KeyOf(w.cn.block.slot.engine.url) \/ s = KeyOf(w.cn.url)
      BY <2>4, <2>9, <2>10, <2>11, <2>13 DEF Engaged
    <3> QED BY <2>8, <2>12, <2>16, <2>17, <3>1
  <2>19. /\ w.cn.block.closed => OnDisk(w.cn.block.slot.engine.url)
         /\ w.cn.block.closed <=> Shared(w.cn, w.cn.url)
         /\ ~w.cn.block.closed /\ OnDisk(w.cn.block.slot.engine.url) =>
              \E b \in Blocks : KeyOf(b.url) # KeyOf(w.cn.block.slot.engine.url)
    BY <2>15 DEF Account, Aside
  <2>20. Aside(v.cn, v.tk)
    BY <2>9, <2>10, <2>11, <2>13, <2>19 DEF Aside, Shared
  <2>21. OnDisk(w.cn.url) => (claimed <=> ~Shared(w.cn, w.cn.url))
    BY <2>2, <2>13, <2>14, <2>16, <2>17 DEF Shared
  <2>22. Opens(v.tk) /\ Carries(v.tk) /\ v.tk.pc \notin {"forgetting", "replacing", "ending", "detaching"}
    BY <2>9 DEF Opens, Carries
  <2>23. Hand(v.cn, v.tk)
    BY <2>4, <2>9, <2>10, <2>19, <2>21, <2>22 DEF Hand, Shared
  <2>24. Account(v.cn, v.tk, v.claims, c)
    BY <2>18, <2>20, <2>23 DEF Account
  <2> QED BY <2>7, <2>8, <2>12, <2>24
<1> QED BY <1>2, <1>3

LEMMA OpenSame ==
  ASSUME NEW w \in WorldType
  PROVE  SameBlock(w, Open(w))
<1>1. w.cn \in ConnType
  BY DEF WorldType
<1>2. Open(w).cn \in {[w.cn EXCEPT !.guard = None], [w.cn EXCEPT !.slot = EmptySlot]}
  BY DEF Open, Ends, WorldType
<1> QED BY <1>1, <1>2 DEF SameBlock, ConnType

LEMMA HeldAccount ==
  ASSUME NEW w, Sound(w), FreeOK(w.cn.slot), w.tk.op \in Gets, NEW c \in Connections, w.tk.conn = c,
         Account(w.cn, Idle, w.claims, c), w.tk.engine.url = None
  PROVE  /\ Account(Held(w).cn, Held(w).tk, Held(w).claims, c) /\ Only(w.claims, Held(w).claims, c)
         /\ SameBlock(w, Held(w))
<1>1. w \in WorldType /\ w.cn \in ConnType /\ w.tk \in TaskType /\ w.cn.slot \in SlotType
      /\ w.cn.generation \in Nat
  BY DEF Sound, WorldType, ConnType
<1>2. ASSUME NEW v, Passes(w, v)
      PROVE  Account(v.cn, v.tk, v.claims, c) /\ Only(w.claims, v.claims, c) /\ SameBlock(w, v)
  BY <1>2, PassesAccount, OnlySame DEF Passes
<1>3. PICK tk : tk = [w.tk EXCEPT !.generation = w.cn.generation]
  OBVIOUS
<1>4. tk \in TaskType /\ tk.engine = w.tk.engine /\ tk.phase = w.tk.phase /\ tk.claimed = w.tk.claimed /\ tk.op = w.tk.op
      /\ tk.conn = w.tk.conn
  BY <1>1, <1>3 DEF TaskType
<1>5. PICK u : u = [w EXCEPT !.tk = tk]
  OBVIOUS
<1>6. Written(w, u) /\ u.cn = w.cn /\ u.tk = tk /\ u.claims = w.claims
  <2>1. u.cn = w.cn /\ u.tk = tk /\ u.claims = w.claims
    BY <1>1, <1>5 DEF WorldType
  <2> QED BY <1>1, <1>4, <1>5, <2>1, TaskWritten
<1>7. u \in WorldType /\ u.tk.engine.url = None /\ u.tk.op \in Gets /\ u.tk.conn = c
  BY <1>4, <1>6 DEF Written
<1> DEFINE s == w.cn.slot
<1>8. s.engine.url = None <=> s.engine = NoEngine
  BY DEF FreeOK, SlotOK, NoEngine
<1>9. CASE w.cn.url = None
  BY <1>1, <1>2, <1>9, EndsPasses DEF Held
<1>10. CASE w.cn.url # None /\ s.engine.url = w.cn.url /\ s.selected = w.cn.database
  <2>1. Held(w) = Serves(u)
    BY <1>3, <1>5, <1>8, <1>10 DEF Held
  <2> QED BY <1>2, <1>6, <1>7, <2>1, ServesPasses, WrittenPasses
<1>11. CASE w.cn.url # None /\ s.engine.url = w.cn.url /\ s.selected # w.cn.database
  <2>1. PICK x : x = [u EXCEPT !.cn.token = NoOne]
    OBVIOUS
  <2>2. Written(u, x)
    BY <1>7, <2>1, Constants, TokenWritten
  <2>3. Passes(w, Reset(x, "resetting"))
    BY <1>6, <1>7, <2>2, ResetPasses, WrittenPasses, WrittenTwice DEF Written, SameEngines, Phases
  <2>4. Passes(w, Reset(u, "resetting"))
    BY <1>6, <1>7, ResetPasses, WrittenPasses DEF Phases
  <2>5. Held(w) = Reset(IF s.selected = None THEN u ELSE x, "resetting")
    BY <1>3, <1>5, <1>8, <1>11, <2>1 DEF Held
  <2> QED BY <1>2, <2>3, <2>4, <2>5
<1>12. CASE w.cn.url # None /\ s.engine.url \notin {None, w.cn.url}
  <2>1. Held(w) = Forget(u, "replacing")
    BY <1>3, <1>5, <1>8, <1>12 DEF Held
  <2>2. Passes(u, Forget(u, "replacing"))
    BY <1>6, <1>7, <1>12, ForgetPasses
  <2> QED BY <1>2, <1>6, <2>1, <2>2, WrittenPasses
<1>13. CASE w.cn.url # None /\ s.engine = NoEngine
  <2>1. Held(w) = Open(u)
    BY <1>3, <1>5, <1>8, <1>13 DEF Held
  <2>2. Account(Open(u).cn, Open(u).tk, Open(u).claims, c) /\ Only(u.claims, Open(u).claims, c)
    BY <1>6, <1>7, <1>8, <1>13, OpenAccount
  <2>3. SameBlock(w, Open(u))
    BY <1>6, <1>7, OpenSame DEF SameBlock
  <2> QED BY <1>6, <2>1, <2>2, <2>3
<1> QED BY <1>8, <1>9, <1>10, <1>11, <1>12, <1>13

LEMMA OnlyTwice ==
  ASSUME NEW a, NEW b, NEW d, NEW c, Only(a, b, c), Only(b, d, c)
  PROVE  Only(a, d, c)
BY DEF Only

-----------------------------------------------------------------------------
(***************************************************************************)
(* A block's own store                                                     *)
(***************************************************************************)
LEMMA OutsideIs == Outside.slot.engine.url = None /\ Outside.closed = FALSE /\ Outside.by = None
BY DEF Outside, EmptySlot, NoEngine

(* set_connection(): the engines stay.                                     *)
LEMMA SetIs ==
  ASSUME NEW w \in WorldType, NEW v, v = SetConnection(w)
  PROVE  /\ v.tk = Idle /\ v.claims = w.claims /\ v.cn.url = w.tk.target.url /\ v.cn.block = w.cn.block
         /\ v.cn.slot = w.cn.slot
<1>1. w.cn \in ConnType
  BY DEF WorldType
<1>2. /\ v.tk = Idle /\ v.claims = w.claims
      /\ v.cn = [w.cn EXCEPT !.url = w.tk.target.url, !.database = w.tk.target.database, !.token = NoOne, !.guard = None]
  BY DEF SetConnection, Ends, WorldType
<1> QED BY <1>1, <1>2 DEF ConnType

LEMMA EntersAccount ==
  ASSUME NEW w \in WorldType, NEW c \in Connections, Account(w.cn, Idle, w.claims, c), w.cn.block = Outside,
         w.tk.engine.url = None, w.tk.target \in Blocks, NEW v, v = EntersBlock(w)
  PROVE  /\ Account(v.cn, v.tk, v.claims, c) /\ v.claims = w.claims
         /\ v.tk = Idle \/ (v.tk.pc = "detaching" /\ v.tk.target = w.tk.target)
<1>1. w.cn \in ConnType /\ w.tk \in TaskType /\ w.cn.slot \in SlotType
  BY DEF WorldType, ConnType
<1>2. PICK b : b = [by |-> w.me, closed |-> FALSE, url |-> w.cn.url, database |-> w.cn.database,
                    token |-> w.cn.token, slot |-> w.cn.slot]
  OBVIOUS
<1>3. b \in BlockType /\ b.slot = w.cn.slot /\ b.closed = FALSE
  BY <1>1, <1>2 DEF BlockType, WorldType, ConnType
<1>4. PICK x : x = [w EXCEPT !.cn.block = b, !.cn.slot = EmptySlot]
  OBVIOUS
<1>5. x \in WorldType
  BY <1>1, <1>3, <1>4, Constants DEF WorldType, ConnType
<1>6. x.tk = w.tk /\ x.claims = w.claims /\ x.cn = [w.cn EXCEPT !.block = b, !.slot = EmptySlot]
  BY <1>4 DEF WorldType
<1>7. x.cn.slot = EmptySlot /\ x.cn.block = b
  BY <1>1, <1>6 DEF ConnType
<1>8. EmptySlot.engine.url = None
  BY DEF EmptySlot, NoEngine
<1>9. PICK out \in Urls : out = w.cn.slot.engine.url
  BY UrlsIn
<1>10. PICK url \in Urls : url = w.tk.target.url
  BY <1>1 DEF TaskType
<1>11. /\ KeyOf(None) = None /\ ~OnDisk(None) /\ None \notin Stores
       /\ OnDisk(out) <=> KeyOf(out) \in Stores
       /\ OnDisk(url) <=> KeyOf(url) \in Stores
  BY Keys
<1>12. Idle.engine.url = None /\ Resting(Idle) /\ Idle.pc \notin Moving
  BY IdleRests DEF Resting
<1>13. \A s \in Stores : w.claims[s] = c <=> s = KeyOf(out)
  BY <1>9, <1>11, <1>12, OutsideIs DEF Account, Engaged
<1>14. EntersBlock(w) = IF SameStore(out, url) THEN At(x, "detaching") ELSE SetConnection(x)
  BY <1>2, <1>4, <1>9, <1>10 DEF EntersBlock
<1>15. CASE SameStore(out, url)
  <2>1. v = At(x, "detaching")
    BY <1>14, <1>15
  <2>2. Written(x, v) /\ v.tk.pc = "detaching" /\ v.cn = x.cn /\ v.tk.target = x.tk.target
    BY <1>5, <2>1, AtIs DEF Holding
  <2>3. v.claims = w.claims /\ v.tk.engine.url = None
    BY <1>6, <2>2 DEF Written, SameEngines
  <2>4. ASSUME NEW s \in Stores PROVE s \in Engaged(v.cn, v.tk) <=> s = KeyOf(out)
    BY <1>3, <1>7, <1>8, <1>9, <1>11, <2>2, <2>3 DEF Engaged
  <2>5. Aside(v.cn, v.tk)
    BY <1>3, <1>7, <1>8, <1>11, <2>2 DEF Aside, Shared, Moving
  <2>6. ~Opens(v.tk) /\ ~Carries(v.tk) /\ v.tk.pc \notin {"forgetting", "replacing", "ending"}
    BY <2>2 DEF Opens, Carries, Signing
  <2>7. Hand(v.cn, v.tk)
    BY <1>3, <1>6, <1>7, <1>9, <1>10, <1>15, <2>2, <2>3, <2>6 DEF Hand
  <2> QED BY <1>6, <1>13, <2>2, <2>3, <2>4, <2>5, <2>7 DEF Account
<1>16. CASE ~SameStore(out, url)
  <2>1. v = SetConnection(x)
    BY <1>14, <1>16
  <2>2. /\ v.tk = Idle /\ v.claims = w.claims /\ v.cn.url = url /\ v.cn.block = b /\ v.cn.slot = EmptySlot
    <3>1. /\ v.tk = Idle /\ v.claims = x.claims /\ v.cn.url = x.tk.target.url /\ v.cn.block = x.cn.block
          /\ v.cn.slot = x.cn.slot
      BY <1>5, <2>1, SetIs
    <3> QED BY <1>6, <1>7, <1>10, <3>1
  <2>3. ASSUME NEW s \in Stores PROVE s \in Engaged(v.cn, v.tk) <=> s = KeyOf(out)
    BY <1>3, <1>8, <1>9, <1>11, <1>12, <2>2 DEF Engaged
  <2>4. ~Shared(v.cn, url)
    BY <1>3, <1>9, <1>11, <1>16, <2>2 DEF Shared, SameStore
  <2>5. OnDisk(out) => KeyOf(url) # KeyOf(out)
    BY <1>16 DEF SameStore
  <2>6. ~Shared(v.cn, v.cn.slot.engine.url)
    BY <1>8, <1>11, <2>2 DEF Shared
  <2>7. v.cn.block.slot.engine.url = out /\ ~v.cn.block.closed
    BY <1>3, <1>9, <2>2
  <2>8. OnDisk(out) => \E d \in Blocks : KeyOf(d.url) # KeyOf(out)
    BY <1>10, <2>5
  <2>9. Aside(v.cn, v.tk)
    BY <1>12, <2>2, <2>4, <2>6, <2>7, <2>8 DEF Aside
  <2>10. Hand(v.cn, v.tk)
    BY <1>12, <2>2 DEF Hand, Resting, Carries, Moving
  <2> QED BY <1>13, <2>2, <2>3, <2>9, <2>10 DEF Account
<1> QED BY <1>15, <1>16

LEMMA DetachedAccount ==
  ASSUME NEW w \in WorldType, NEW c \in Connections, Account(w.cn, w.tk, w.claims, c), w.tk.pc = "detaching",
         w.cn.slot = EmptySlot, NEW v, v = SetConnection(LetGo(w))
  PROVE  Account(v.cn, v.tk, v.claims, c) /\ v.claims = w.claims /\ v.tk = Idle
<1>1. /\ w.cn \in ConnType /\ w.tk \in TaskType /\ w.cn.block \in BlockType
      /\ w.cn.block.slot \in SlotType /\ w.cn.block.slot.engine \in EngineType
  BY DEF WorldType, ConnType, BlockType, SlotType
<1>2. PICK d : d = Down(w.cn.block.slot.engine)
  OBVIOUS
<1>3. d \in EngineType /\ d.url = w.cn.block.slot.engine.url
  BY <1>1, <1>2, DownIs
<1>4. PICK s : s = [EmptySlot EXCEPT !.engine = d]
  OBVIOUS
<1>5. s \in SlotType /\ s.engine = d
  BY <1>3, <1>4, Constants DEF SlotType
<1>6. PICK b : b = [w.cn.block EXCEPT !.slot = s, !.closed = TRUE]
  OBVIOUS
<1>7. b \in BlockType /\ b.slot = s /\ b.closed = TRUE
  BY <1>1, <1>5, <1>6 DEF BlockType
<1>8. PICK x : x = LetGo(w)
  OBVIOUS
<1>9. x = [w EXCEPT !.cn.block = b]
  BY <1>1, <1>2, <1>4, <1>6, <1>8 DEF LetGo, WorldType, ConnType, BlockType
<1>10. x \in WorldType
  BY <1>1, <1>7, <1>9 DEF WorldType, ConnType
<1>11. x.tk = w.tk /\ x.claims = w.claims /\ x.cn.slot = w.cn.slot /\ x.cn.block = b
  BY <1>1, <1>9 DEF WorldType, ConnType
<1>12. v.tk = Idle /\ v.claims = w.claims /\ v.cn.url = w.tk.target.url /\ v.cn.block = b /\ v.cn.slot = EmptySlot
  BY <1>8, <1>10, <1>11, SetIs
<1>13. PICK out \in Urls : out = w.cn.block.slot.engine.url
  BY UrlsIn
<1>14. PICK url \in Urls : url = w.tk.target.url
  BY <1>1 DEF TaskType
<1>15. /\ KeyOf(None) = None /\ ~OnDisk(None) /\ None \notin Stores
       /\ OnDisk(out) <=> KeyOf(out) \in Stores
       /\ OnDisk(url) <=> KeyOf(url) \in Stores
  BY Keys
<1>16. SameStore(out, url)
  BY <1>13, <1>14 DEF Account, Hand
<1>17. w.tk.engine.url = None
  BY DEF Account, Hand, Carries, Opens, Signing
<1>18. Idle.engine.url = None /\ Resting(Idle) /\ Idle.pc \notin Moving
  BY IdleRests DEF Resting
<1>19. v.cn.block.slot.engine.url = out /\ v.cn.block.closed /\ v.cn.slot.engine.url = None
  BY <1>3, <1>5, <1>7, <1>12, <1>13 DEF EmptySlot, NoEngine
<1>20. Engaged(v.cn, v.tk) = Engaged(w.cn, w.tk)
  BY <1>12, <1>13, <1>17, <1>18, <1>19 DEF Engaged
<1>21. Shared(v.cn, v.cn.url) /\ OnDisk(out)
  BY <1>12, <1>14, <1>15, <1>16, <1>19 DEF Shared, SameStore
<1>22. Aside(v.cn, v.tk)
  BY <1>12, <1>15, <1>18, <1>19, <1>21 DEF Aside, Shared
<1>23. Hand(v.cn, v.tk)
  BY <1>12, <1>18 DEF Hand, Resting, Carries, Moving
<1> QED BY <1>12, <1>20, <1>22, <1>23 DEF Account

(* Outside any block there is nothing to share.                            *)
LEMMA OutsideAside ==
  ASSUME NEW cn, NEW tk, cn.block = Outside
  PROVE  Aside(cn, tk)
<1>1. KeyOf(None) = None /\ ~OnDisk(None)
  BY Constants, Keys
<1>2. \A url : ~Shared(cn, url)
  BY <1>1, OutsideIs DEF Shared, OnDisk
<1> QED BY <1>1, <1>2, OutsideIs DEF Aside

(* The engine put aside is back in the slot, or none is; its store is      *)
(* claimed just when it is.                                                *)
LEMMA PutBackAccount ==
  ASSUME NEW w \in WorldType, NEW c \in Connections, w.tk.conn = c, NEW engine \in EngineType,
         \A s \in Stores : w.claims[s] = c <=> s \in {KeyOf(w.cn.slot.engine.url), KeyOf(w.cn.block.slot.engine.url)},
         engine.url = w.cn.block.slot.engine.url \/ (engine = NoEngine /\ w.cn.block.closed),
         w.cn.block.closed /\ w.cn.slot.engine.url # None =>
           KeyOf(w.cn.slot.engine.url) = KeyOf(w.cn.block.slot.engine.url),
         NEW v, v = PutBack(w, engine)
  PROVE  Account(v.cn, v.tk, v.claims, c) /\ Only(w.claims, v.claims, c) /\ v.cn.block = Outside
<1> DEFINE b    == w.cn.block
           ours == w.cn.slot.engine
<1>1. /\ w.cn \in ConnType /\ w.tk \in TaskType /\ ours \in EngineType /\ w.claims \in ClaimsType
      /\ b.slot \in SlotType
  BY DEF WorldType, ConnType, SlotType, BlockType
<1>2. PICK out \in Urls : out = b.slot.engine.url
  BY UrlsIn
<1>3. PICK our \in Urls : our = ours.url
  BY UrlsIn
<1>4. /\ KeyOf(None) = None /\ ~OnDisk(None) /\ None \notin Stores /\ NoEngine.url = None
      /\ c # None
  BY Constants, Keys, SlotAssumption DEF NoEngine, SlotAssumption
<1>5. PICK held : held = Claim(w.claims, engine.url, c)
  OBVIOUS
<1>6. Only(w.claims, held, c) /\ \A s \in Stores : (held[s] = c) <=> (w.claims[s] = c \/ (s = KeyOf(engine.url) /\ w.claims[s] = None))
  BY <1>5, Takes
<1>7. PICK let : let = Unclaimed(held, out, c)
  OBVIOUS
<1>8. Only(held, let, c) /\ \A s \in Stores : (let[s] = c) <=> (held[s] = c /\ s # KeyOf(out))
  BY <1>7, Releases
<1>9. PICK freed : freed = IF engine = NoEngine THEN let ELSE held
  OBVIOUS
<1>10. Only(w.claims, freed, c)
  BY <1>6, <1>8, <1>9, OnlyTwice
<1>11. \A s \in Stores : held[s] = c <=> w.claims[s] = c
  <2>1. KeyOf(engine.url) \in Stores => w.claims[KeyOf(engine.url)] = c
    BY <1>4
  <2> QED BY <1>4, <1>6, <2>1
<1>12. ASSUME NEW s \in Stores PROVE freed[s] = c <=> s \in {KeyOf(our), KeyOf(engine.url)} /\ (b.closed => s = KeyOf(engine.url))
  <2>1. w.claims[s] = c <=> s = KeyOf(our) \/ s = KeyOf(out)
    BY <1>2, <1>3
  <2>2. b.closed /\ s = KeyOf(our) => s = KeyOf(out)
    BY <1>2, <1>3, <1>4
  <2>3. CASE engine.url = out
    <3>1. freed[s] = c <=> held[s] = c
      <4>1. engine = NoEngine => s # KeyOf(out)
        BY <1>4, <2>3
      <4> QED BY <1>8, <1>9, <4>1
    <3> QED BY <1>11, <2>1, <2>2, <2>3, <3>1
  <2>4. CASE engine = NoEngine /\ b.closed
    <3>1. freed[s] = c <=> held[s] = c /\ s # KeyOf(out)
      BY <1>8, <1>9, <2>4
    <3>2. s # KeyOf(engine.url)
      BY <1>4, <2>4
    <3> QED BY <1>11, <2>1, <2>2, <2>4, <3>1, <3>2
  <2> QED BY <1>2, <2>3, <2>4
<1>13. PICK s : s = [b.slot EXCEPT !.engine = engine]
  OBVIOUS
<1>14. s.engine = engine
  BY <1>1, <1>13 DEF SlotType
<1>15. PICK x : x = [w EXCEPT !.claims = freed, !.cn.block = Outside, !.cn.slot = s]
  OBVIOUS
<1>16. PICK e : e = [Down(ours) EXCEPT !.up = ours.up]
  OBVIOUS
<1>17. e.url = our
  <2>1. Down(ours) \in EngineType /\ Down(ours).url = our
    BY <1>1, <1>3, DownIs
  <2> QED BY <1>16, <2>1 DEF EngineType
<1>18. PICK other \in BOOLEAN : other = (KeyOf(our) # KeyOf(engine.url))
  OBVIOUS
<1>19. v = IF b.closed \/ ours = NoEngine THEN Ends(x)
           ELSE [x EXCEPT !.tk.engine = e, !.tk.pc = "ending", !.tk.claimed = other]
  BY <1>2, <1>3, <1>5, <1>7, <1>9, <1>13, <1>15, <1>16, <1>18 DEF PutBack
<1>20. x.tk = w.tk /\ x.claims = freed /\ x.cn = [w.cn EXCEPT !.block = Outside, !.slot = s]
  BY <1>15 DEF WorldType
<1>21. /\ v.claims = freed
       /\ v.cn = x.cn \/ v.cn = [x.cn EXCEPT !.guard = None]
       /\ v.tk = IF b.closed \/ ours = NoEngine THEN Idle ELSE [w.tk EXCEPT !.engine = e, !.pc = "ending", !.claimed = other]
  BY <1>15, <1>19, <1>20 DEF Ends, WorldType
<1>22. v.cn.slot = s /\ v.cn.block = Outside
  <2>1. CASE v.cn = x.cn
    BY <1>1, <1>20, <2>1 DEF ConnType
  <2>2. CASE v.cn = [x.cn EXCEPT !.guard = None]
    <3>1. v.cn = [w.cn EXCEPT !.block = Outside, !.slot = s, !.guard = None]
      BY <1>20, <2>2
    <3> QED BY <1>1, <3>1 DEF ConnType
  <2> QED BY <1>21, <2>1, <2>2
<1>23. Aside(v.cn, v.tk)
  BY <1>22, OutsideAside
<1>24. CASE b.closed \/ ours = NoEngine
  <2>1. v.tk = Idle /\ Idle.engine.url = None
    BY <1>21, <1>24, IdleRests
  <2>2. ASSUME NEW st \in Stores PROVE v.claims[st] = c <=> st \in Engaged(v.cn, v.tk)
    <3>1. st \in Engaged(v.cn, v.tk) <=> st = KeyOf(engine.url)
      BY <1>4, <1>14, <1>22, <2>1, OutsideIs DEF Engaged
    <3>2. ours = NoEngine => st # KeyOf(our)
      BY <1>3, <1>4
    <3> QED BY <1>12, <1>21, <1>24, <3>1, <3>2
  <2>3. Hand(v.cn, v.tk)
    BY <2>1, IdleRests DEF Hand, Resting, Carries, Moving
  <2> QED BY <1>10, <1>21, <1>22, <1>23, <2>2, <2>3 DEF Account
<1>25. CASE ~(b.closed \/ ours = NoEngine)
  <2>1. v.tk = [w.tk EXCEPT !.engine = e, !.pc = "ending", !.claimed = other]
    BY <1>21, <1>25
  <2>2. v.tk.engine = e /\ v.tk.pc = "ending" /\ v.tk.claimed = other
    BY <1>1, <2>1 DEF TaskType
  <2>3. ASSUME NEW st \in Stores PROVE v.claims[st] = c <=> st \in Engaged(v.cn, v.tk)
    <3>1. st \in Engaged(v.cn, v.tk) <=> st = KeyOf(engine.url) \/ st = KeyOf(our)
      BY <1>4, <1>14, <1>17, <1>22, <2>2, OutsideIs DEF Engaged
    <3> QED BY <1>12, <1>21, <1>25, <3>1
  <2>4. Hand(v.cn, v.tk)
    <3>1. ~Opens(v.tk) /\ Carries(v.tk)
      BY <2>2 DEF Opens, Carries, Signing
    <3> QED BY <1>14, <1>17, <1>18, <1>22, <2>2, <3>1 DEF Hand
  <2> QED BY <1>10, <1>21, <1>22, <1>23, <2>3, <2>4 DEF Account
<1> QED BY <1>24, <1>25

LEMMA LeavesAccount ==
  ASSUME NEW w \in WorldType, NEW c \in Connections, w.tk.conn = c, Account(w.cn, Idle, w.claims, c),
         w.tk.engine.url = None, NEW v, v = LeavesBlock(w)
  PROVE  Account(v.cn, v.tk, v.claims, c) /\ Only(w.claims, v.claims, c) /\ v.cn.block \in {w.cn.block, Outside}
<1>1. /\ w.cn \in ConnType /\ w.tk \in TaskType /\ w.cn.block \in BlockType
      /\ w.cn.block.slot \in SlotType /\ w.cn.block.slot.engine \in EngineType
      /\ w.cn.block.url \in Urls /\ w.cn.block.database \in Databases /\ w.cn.block.token \in Whos
  BY DEF WorldType, ConnType, BlockType, SlotType
<1>2. PICK x : x = Restored(w)
  OBVIOUS
<1>3. x \in WorldType
  BY <1>1, <1>2 DEF Restored, WorldType, ConnType
<1>4. x.tk = w.tk /\ x.claims = w.claims
  BY <1>1, <1>2 DEF Restored, WorldType
<1>5. x.cn.slot = w.cn.slot /\ x.cn.block = w.cn.block
  BY <1>1, <1>2 DEF Restored, WorldType, ConnType
<1>6. LeavesBlock(w) =
        IF ~w.cn.block.closed THEN PutBack(x, w.cn.block.slot.engine)
        ELSE At(x, IF w.cn.slot.engine = NoEngine THEN "reattaching" ELSE "discarding")
  BY <1>2 DEF LeavesBlock, Restored
<1>7. Idle.engine.url = None /\ Resting(Idle) /\ Idle.pc \notin Moving /\ KeyOf(None) = None /\ None \notin Stores
  BY IdleRests, Constants, Keys DEF Resting
<1>8. \A s \in Stores : w.claims[s] = c <=> s \in {KeyOf(w.cn.slot.engine.url), KeyOf(w.cn.block.slot.engine.url)}
  BY <1>7 DEF Account, Engaged
<1>9. CASE ~w.cn.block.closed
  <2>1. v = PutBack(x, w.cn.block.slot.engine)
    BY <1>6, <1>9
  <2>2. Account(v.cn, v.tk, v.claims, c) /\ Only(x.claims, v.claims, c) /\ v.cn.block = Outside
    BY <1>1, <1>3, <1>4, <1>5, <1>8, <1>9, <2>1, PutBackAccount
  <2> QED BY <1>4, <2>2
<1>10. CASE w.cn.block.closed
  <2>1. PICK pc \in {"reattaching", "discarding"} :
          pc = IF w.cn.slot.engine = NoEngine THEN "reattaching" ELSE "discarding"
    OBVIOUS
  <2>2. v = At(x, pc) /\ pc \in Holding
    BY <1>6, <1>10, <2>1 DEF Holding
  <2>3. Written(x, v) /\ v.tk.pc = pc /\ v.cn = x.cn
    BY <1>3, <2>2, AtIs
  <2>4. v.claims = w.claims /\ v.tk.engine.url = None
    BY <1>4, <2>3 DEF Written, SameEngines
  <2>5. Engaged(v.cn, v.tk) = Engaged(w.cn, Idle)
    BY <1>5, <1>7, <2>3, <2>4 DEF Engaged
  <2>6. Aside(v.cn, v.tk)
    BY <1>5, <1>7, <1>10, <2>1, <2>3 DEF Account, Aside, Shared, Moving
  <2>7. Hand(v.cn, v.tk)
    BY <2>1, <2>3, <2>4 DEF Hand, Opens, Signing
  <2> QED BY <1>5, <2>3, <2>4, <2>5, <2>6, <2>7, OnlySame DEF Account
<1> QED BY <1>9, <1>10

LEMMA DiscardedIs ==
  ASSUME NEW w \in WorldType, NEW x, x = [w EXCEPT !.cn.slot.engine = Down(w.cn.slot.engine)],
         NEW v, v = At(x, "reattaching")
  PROVE  SameEngines(w, v) /\ v.tk.pc = "reattaching"
<1>1. w.cn \in ConnType /\ w.cn.slot \in SlotType /\ w.cn.slot.engine \in EngineType
  BY DEF WorldType, ConnType, SlotType
<1>2. PICK d \in EngineType : d = Down(w.cn.slot.engine) /\ d.url = w.cn.slot.engine.url
  BY <1>1, DownIs
<1>3. PICK s : s = [w.cn.slot EXCEPT !.engine = d]
  OBVIOUS
<1>4. s \in SlotType /\ s.engine = d
  BY <1>1, <1>2, <1>3 DEF SlotType
<1>5. x = WithSlot(w, s)
  BY <1>1, <1>2, <1>3 DEF WithSlot, WorldType, ConnType
<1>6. Written(w, x)
  BY <1>2, <1>4, <1>5, SlotWritten
<1>7. x \in WorldType /\ "reattaching" \in Holding
  BY <1>6 DEF Written, Holding
<1>8. Written(x, v) /\ v.tk.pc = "reattaching"
  BY <1>7, AtIs
<1> QED BY <1>6, <1>8, WrittenTwice DEF Written

LEMMA DiscardedAccount ==
  ASSUME NEW w, NEW v, NEW c, Account(w.cn, w.tk, w.claims, c), w.tk.pc = "discarding",
         SameEngines(w, v), v.tk.pc = "reattaching"
  PROVE  Account(v.cn, v.tk, v.claims, c) /\ v.claims = w.claims /\ v.cn.block = w.cn.block
<1>1. v.cn.block = w.cn.block /\ v.cn.slot.engine.url = w.cn.slot.engine.url /\ v.tk.engine.url = w.tk.engine.url
      /\ v.claims = w.claims
  BY DEF SameEngines, SameBlock
<1>2. Engaged(v.cn, v.tk) = Engaged(w.cn, w.tk)
  BY <1>1 DEF Engaged
<1>3. Aside(v.cn, v.tk)
  BY <1>1 DEF Account, Aside, Shared, Moving
<1>4. Hand(v.cn, v.tk)
  BY <1>1 DEF Account, Hand, Opens, Carries, Signing
<1> QED BY <1>1, <1>2, <1>3, <1>4 DEF Account

LEMMA ReattachedAccount ==
  ASSUME NEW w \in WorldType, NEW c \in Connections, w.tk.conn = c, Account(w.cn, w.tk, w.claims, c),
         w.tk.pc = "reattaching", w.cn.block.closed, NEW engine \in {Fresh(w.cn.block.slot.engine.url), NoEngine},
         NEW v, v = PutBack(w, engine)
  PROVE  Account(v.cn, v.tk, v.claims, c) /\ Only(w.claims, v.claims, c) /\ v.cn.block = Outside
<1>1. engine \in EngineType /\ (engine.url = w.cn.block.slot.engine.url \/ engine = NoEngine)
  BY FreshIs, UrlsIn, Constants
<1>2. w.tk.engine.url = None
  BY DEF Account, Hand, Carries, Opens, Signing
<1>3. KeyOf(None) = None /\ None \notin Stores
  BY Constants, Keys
<1>4. \A s \in Stores : w.claims[s] = c <=> s \in {KeyOf(w.cn.slot.engine.url), KeyOf(w.cn.block.slot.engine.url)}
  BY <1>2, <1>3 DEF Account, Engaged
<1>5. w.cn.slot.engine.url # None => KeyOf(w.cn.slot.engine.url) = KeyOf(w.cn.block.slot.engine.url)
  BY DEF Account, Aside, Shared
<1> QED BY <1>1, <1>4, <1>5, PutBackAccount

(* The block's own engine is closed, and another store of it let go.       *)
LEMMA BlockEndsAccount ==
  ASSUME NEW w \in WorldType, NEW c \in Connections, w.tk.conn = c, Account(w.cn, w.tk, w.claims, c),
         w.tk.pc = "ending",
         NEW v, v = Ends(IF w.tk.claimed THEN [w EXCEPT !.claims = Unclaimed(w.claims, w.tk.engine.url, c)] ELSE w)
  PROVE  Account(v.cn, v.tk, v.claims, c) /\ Only(w.claims, v.claims, c) /\ v.cn.block = w.cn.block
<1>1. w.cn \in ConnType
  BY DEF WorldType
<1>2. PICK freed : freed = Unclaimed(w.claims, w.tk.engine.url, c)
  OBVIOUS
<1>3. Only(w.claims, freed, c) /\ \A s \in Stores : (freed[s] = c) <=> (w.claims[s] = c /\ s # KeyOf(w.tk.engine.url))
  BY <1>2, Releases
<1>4. /\ v.tk = Idle /\ v.cn = [w.cn EXCEPT !.guard = None]
      /\ v.claims = IF w.tk.claimed THEN freed ELSE w.claims
  BY <1>2 DEF Ends, WorldType
<1>5. v.cn.url = w.cn.url /\ v.cn.slot = w.cn.slot /\ v.cn.block = w.cn.block
  BY <1>1, <1>4 DEF ConnType
<1>6. w.cn.block = Outside /\ (w.tk.claimed <=> KeyOf(w.tk.engine.url) # KeyOf(w.cn.slot.engine.url))
  BY DEF Account, Hand
<1>7. Idle.engine.url = None /\ KeyOf(None) = None /\ ~OnDisk(None) /\ None \notin Stores
  BY IdleRests, Constants, Keys
<1>8. ASSUME NEW s \in Stores PROVE v.claims[s] = c <=> s \in Engaged(v.cn, v.tk)
  <2>1. w.claims[s] = c <=> s = KeyOf(w.cn.slot.engine.url) \/ s = KeyOf(w.tk.engine.url)
    BY <1>6, <1>7, OutsideIs DEF Account, Engaged
  <2>2. s \in Engaged(v.cn, v.tk) <=> s = KeyOf(w.cn.slot.engine.url)
    BY <1>4, <1>5, <1>6, <1>7, OutsideIs DEF Engaged
  <2>3. CASE w.tk.claimed
    <3>1. v.claims = freed
      BY <1>4, <2>3
    <3> QED BY <1>3, <1>6, <2>1, <2>2, <2>3, <3>1
  <2>4. CASE ~w.tk.claimed
    <3>1. v.claims = w.claims
      BY <1>4, <2>4
    <3> QED BY <1>6, <2>1, <2>2, <2>4, <3>1
  <2> QED BY <2>3, <2>4
<1>9. Only(w.claims, v.claims, c)
  <2>1. Only(w.claims, w.claims, c)
    BY OnlySame
  <2> QED BY <1>3, <1>4, <2>1
<1>10. Aside(v.cn, v.tk)
  BY <1>5, <1>6, OutsideAside
<1>11. Hand(v.cn, v.tk)
  BY <1>4, IdleRests DEF Hand, Resting, Carries, Moving
<1> QED BY <1>5, <1>8, <1>9, <1>10, <1>11 DEF Account

(* An engine was closed, and its store is let go.                          *)
LEMMA LetsGoAccount ==
  ASSUME NEW w \in WorldType, NEW c \in Connections, w.tk.conn = c, Account(w.cn, w.tk, w.claims, c),
         w.tk.pc \in {"forgetting", "replacing"}, w.cn.slot = EmptySlot,
         NEW freed, freed = Unclaimed(w.claims, w.tk.engine.url, c)
  PROVE  Account(w.cn, Idle, freed, c) /\ Only(w.claims, freed, c)
<1>1. Only(w.claims, freed, c) /\ \A s \in Stores : (freed[s] = c) <=> (w.claims[s] = c /\ s # KeyOf(w.tk.engine.url))
  BY Releases
<1>2. w.tk.pc \notin Moving /\ Idle.pc \notin Moving /\ Idle.engine.url = None
  BY IdleRests DEF Moving, Resting
<1>3. /\ KeyOf(None) = None /\ None \notin Stores
      /\ OnDisk(w.tk.engine.url) <=> KeyOf(w.tk.engine.url) \in Stores
  BY Keys, UrlsIn
<1>4. ~Shared(w.cn, w.tk.engine.url)
  BY DEF Account, Hand
<1>5. w.cn.slot.engine.url = None
  BY DEF EmptySlot, NoEngine
<1>6. ASSUME NEW s \in Stores PROVE freed[s] = c <=> s \in Engaged(w.cn, Idle)
  <2>1. w.claims[s] = c <=> s = KeyOf(w.cn.block.slot.engine.url) \/ s = KeyOf(w.tk.engine.url)
    BY <1>3, <1>5 DEF Account, Engaged
  <2>2. s \in Engaged(w.cn, Idle) <=> s = KeyOf(w.cn.block.slot.engine.url)
    BY <1>2, <1>3, <1>5 DEF Engaged
  <2>3. s = KeyOf(w.tk.engine.url) => s # KeyOf(w.cn.block.slot.engine.url)
    BY <1>3, <1>4 DEF Shared
  <2> QED BY <1>1, <2>1, <2>2, <2>3
<1>7. Aside(w.cn, Idle)
  BY <1>2 DEF Account, Aside, Moving
<1>8. Hand(w.cn, Idle)
  BY IdleRests DEF Hand, Resting, Carries, Moving
<1> QED BY <1>1, <1>6, <1>7, <1>8 DEF Account

-----------------------------------------------------------------------------
(***************************************************************************)
(* The claims after a task's step                                          *)
(***************************************************************************)
LEMMA HolderIs ==
  ASSUME SlotInv, NEW t \in Tasks, task[t].pc \in Holding
  PROVE  Holder(task[t].conn) = task[t]
BY WorldIs, SlotAssumption DEF Holder, SlotAssumption

(* What a step shows of the connection is all that changes, but for a      *)
(* block that is entered, which needs the agreement that nobody closes.    *)
LEMMA StepClaims ==
  ASSUME SlotInv, ClaimsInv, SlotInv', NEW t \in Tasks, task[t].pc # "idle", Landed(t),
         NEW c, c = task[t].conn, conn[c].guard \in {None, t}, NEW v, Becomes(t, v),
         Account(v.cn, v.tk, v.claims, c), Only(claims, v.claims, c),
         v.tk.op = "enter" => v.tk.target = task[t].target /\ (v.tk.pc = "detaching" => NoClose(c)),
         v.tk.pc = "detaching" => v.tk.op = "enter",
         v.cn.block \in {conn[c].block, Outside} \/ (task[t].op = "enter" /\ NoClose(c))
  PROVE  ClaimsInv'
<1>1. c \in Connections /\ conn \in [Connections -> ConnType] /\ task \in [Tasks -> TaskType]
  BY DEF SlotInv, CallKnown, TypeOK
<1>2. conn'[c] = v.cn /\ (\A d \in Connections : d # c => conn'[d] = conn[d]) /\ claims' = v.claims
  BY <1>1 DEF Becomes
<1>3. task'[t] = v.tk /\ \A u \in Tasks : u # t => task'[u] = task[u]
  BY <1>1 DEF Becomes
<1>4. /\ None \notin Tasks /\ None \notin Connections
      /\ Idle.pc \notin Holding /\ Idle.op = None /\ Idle.pc = "idle" /\ Idle.engine.url = None
  BY SlotAssumption, IdleRests DEF SlotAssumption, Idle, Holding, WayBack, Signing
<1>5. ASSUME NEW d \in Connections, NEW u \in Tasks, conn[d].guard = u PROVE task[u].conn = d /\ task[u].pc \in Holding
  BY <1>5 DEF SlotInv, GuardHeld
<1>6. ASSUME NEW d \in Connections, NEW u \in Tasks, conn'[d].guard = u PROVE task'[u].conn = d /\ task'[u].pc \in Holding
  BY <1>6 DEF SlotInv, GuardHeld
<1>7. ASSUME NEW u \in Tasks, task'[u].pc \in Holding PROVE conn'[task'[u].conn].guard = u
  BY <1>7 DEF SlotInv, GuardHeld
<1>8. \A d \in Connections : conn'[d].guard \in Tasks \cup {None} /\ conn[d].guard \in Tasks \cup {None}
  <2>1. conn' \in [Connections -> ConnType]
    BY DEF SlotInv, TypeOK
  <2> QED BY <1>1, <2>1 DEF ConnType
<1>9. \/ v.tk = Idle
      \/ v.tk.pc \in Holding /\ v.tk.op = task[t].op /\ v.tk.conn = c
  BY <1>3 DEF Landed
<1>10. Holder(c)' = v.tk
  <2>1. CASE v.tk = Idle
    <3>1. ASSUME NEW u \in Tasks, conn'[c].guard = u PROVE FALSE
      <4>1. task'[u].conn = c /\ task'[u].pc \in Holding
        BY <1>1, <1>6, <3>1
      <4>2. u # t
        BY <1>3, <1>4, <2>1, <4>1
      <4>3. task[u].conn = c /\ task[u].pc \in Holding
        BY <1>3, <4>1, <4>2
      <4>4. conn[c].guard = u
        BY <4>3 DEF SlotInv, GuardHeld
      <4> QED BY <1>4, <4>2, <4>4
    <3>2. conn'[c].guard = None
      BY <1>1, <1>8, <3>1
    <3> QED BY <2>1, <3>2 DEF Holder
  <2>2. CASE v.tk.pc \in Holding /\ v.tk.conn = c
    <3>1. conn'[c].guard = t
      BY <1>3, <1>7, <2>2
    <3> QED BY <1>3, <1>4, <3>1 DEF Holder
  <2> QED BY <1>9, <2>1, <2>2
<1>11. ASSUME NEW d \in Connections, d # c PROVE Holder(d)' = Holder(d) /\ conn'[d] = conn[d]
  <2>1. conn'[d] = conn[d]
    BY <1>2, <1>11
  <2>2. conn[d].guard # t
    BY <1>5, <1>11
  <2> QED BY <1>3, <1>8, <2>1, <2>2 DEF Holder
<1>12. ASSUME NEW d \in Connections PROVE Account(conn'[d], Holder(d)', claims', d)
  <2>1. CASE d = c
    BY <1>2, <1>10, <2>1
  <2>2. CASE d # c
    <3>1. PICK cn, tk : cn = conn[d] /\ tk = Holder(d)
      OBVIOUS
    <3>2. Account(cn, tk, claims, d)
      BY <3>1 DEF ClaimsInv
    <3>3. \A s \in Stores : v.claims[s] = d <=> claims[s] = d
      BY <1>4, <2>2 DEF Only
    <3>4. Account(cn, tk, v.claims, d)
      BY <3>2, <3>3 DEF Account
    <3> QED BY <1>2, <1>11, <2>2, <3>1, <3>4
  <2> QED BY <2>1, <2>2
<1>13. ASSUME NEW u \in Tasks, task'[u].pc \notin Holding PROVE task'[u].engine.url = None
  <2>1. u = t => task'[u] = Idle
    BY <1>3, <1>9, <1>13
  <2>2. u # t => task'[u] = task[u]
    BY <1>3
  <2> QED BY <1>4, <1>13, <2>1, <2>2 DEF ClaimsInv
<1>14. ASSUME NEW u \in Tasks
       PROVE  \/ task'[u].op = None /\ task'[u].pc = "idle"
              \/ /\ task'[u].op = task[u].op /\ task'[u].conn = task[u].conn
                 /\ task'[u].pc = "waiting" => task[u].pc = "waiting"
                 /\ task'[u].op = "enter" => task'[u].target = task[u].target
  <2>1. CASE u = t
    <3>1. v.tk.pc \in Holding => v.tk.pc # "waiting"
      BY DEF Holding, WayBack, Signing
    <3> QED BY <1>3, <1>4, <1>9, <2>1, <3>1
  <2>2. CASE u # t
    BY <1>3, <2>2
  <2> QED BY <2>1, <2>2
<1>15. ASSUME NEW u \in Tasks, NEW op, op # None, task'[u].op = op
       PROVE  task[u].op = op /\ task'[u].conn = task[u].conn
  BY <1>14, <1>15
<1>16. \A u \in Tasks : Agreed(u)
  BY DEF ClaimsInv, Agreements
<1>17. ASSUME NEW u \in Tasks, task'[u].op # None PROVE task[u].conn \in Connections /\ conn[task[u].conn].block \in BlockType
  <2>1. task[u].op # None
    BY <1>15, <1>17
  <2>2. task[u].conn \in Connections
    BY <1>4, <2>1 DEF SlotInv, CallKnown
  <2>3. conn[task[u].conn] \in ConnType
    BY <1>1, <2>2
  <2> QED BY <2>2, <2>3 DEF ConnType
<1>18. ASSUME NEW d \in Connections
       PROVE  \/ conn'[d].block \in {conn[d].block, Outside}
              \/ d = c /\ task[t].op = "enter" /\ NoClose(c)
  BY <1>2, <1>18
<1>19. ASSUME NEW u \in Tasks, task'[u].op = "enter" PROVE Agreed(u)'
  <2>1. PICK d : d = task[u].conn
    OBVIOUS
  <2>2. task[u].op = "enter" /\ task'[u].conn = d
    BY <1>15, <1>19, <2>1
  <2>3. "enter" \in Does[d] /\ task[u].target \in Blocks /\ (task[u].pc = "waiting" => conn[d].block = Outside)
        /\ \A x \in Tasks : task[x].op = "enter" /\ task[x].conn = d => x = u
    BY <1>16, <2>1, <2>2 DEF Agreed
  <2>4. task'[u].target \in Blocks
    BY <1>14, <1>19, <2>3
  <2>5. \A x \in Tasks : task'[x].op = "enter" /\ task'[x].conn = d => x = u
    BY <1>15, <2>3
  <2>6. task'[u].pc = "waiting" => conn'[d].block = Outside
    <3>1. SUFFICES ASSUME task'[u].pc = "waiting" PROVE conn'[d].block = Outside
      OBVIOUS
    <3>2. task[u].pc = "waiting" /\ u # t
      <4>1. task[u].pc = "waiting"
        BY <1>14, <1>19, <3>1
      <4>2. v.tk.pc # "waiting"
        BY <1>4, <1>9 DEF Holding, WayBack, Signing
      <4> QED BY <1>3, <3>1, <4>1, <4>2
    <3>3. conn[d].block = Outside /\ d \in Connections
      BY <1>17, <1>19, <2>1, <2>3, <3>2
    <3>4. ~(d = c /\ task[t].op = "enter")
      BY <2>3, <3>2
    <3> QED BY <1>18, <3>3, <3>4
  <2> QED BY <1>19, <2>2, <2>3, <2>4, <2>5, <2>6 DEF Agreed
<1>20. ASSUME NEW u \in Tasks, task'[u].op = "remove" PROVE Agreed(u)'
  <2>1. PICK d : d = task[u].conn
    OBVIOUS
  <2>2. task[u].op = "remove" /\ task'[u].conn = d
    BY <1>15, <1>20, <2>1
  <2>3. conn[d].block = Outside /\ \A x \in Tasks : ~(task[x].conn = d /\ task[x].op = "enter")
    BY <1>16, <2>1, <2>2 DEF Agreed
  <2>4. \A x \in Tasks : ~(task'[x].conn = d /\ task'[x].op = "enter")
    BY <1>15, <2>3
  <2>5. conn'[d].block = Outside
    BY <1>17, <1>18, <1>20, <2>1, <2>3
  <2> QED BY <1>20, <2>2, <2>4, <2>5 DEF Agreed
<1>21. ASSUME NEW u \in Tasks, task'[u].op = "close" PROVE Agreed(u)'
  <2>1. PICK d : d = task[u].conn
    OBVIOUS
  <2>2. task[u].op = "close" /\ task'[u].conn = d
    BY <1>15, <1>21, <2>1
  <2>3. ~conn[d].block.closed /\ \A x \in Tasks : ~(task[x].conn = d /\ task[x].pc = "detaching")
    BY <1>16, <2>1, <2>2 DEF Agreed
  <2>4. ~(d = c /\ NoClose(c))
    BY <2>1, <2>2 DEF NoClose
  <2>5. ~conn'[d].block.closed
    BY <1>17, <1>18, <1>21, <2>1, <2>3, <2>4, OutsideIs
  <2>6. ASSUME NEW x \in Tasks, task'[x].conn = d, task'[x].pc = "detaching" PROVE FALSE
    <3>1. CASE x = t
      <4>1. v.tk.pc = "detaching" /\ v.tk.conn = d
        BY <1>3, <2>6, <3>1
      <4>2. d = c
        BY <1>4, <1>9, <4>1
      <4> QED BY <2>4, <4>1, <4>2
    <3>2. CASE x # t
      BY <1>3, <2>3, <2>6, <3>2
    <3> QED BY <3>1, <3>2
  <2> QED BY <1>21, <2>2, <2>5, <2>6 DEF Agreed
<1>22. \A u \in Tasks : Agreed(u)'
  BY <1>19, <1>20, <1>21 DEF Agreed
<1>23. ASSUME NEW d \in Connections, conn'[d].block # Outside PROVE "enter" \in Does[d]
  <2>1. conn[d].block # Outside => "enter" \in Does[d]
    BY DEF ClaimsInv, Agreements
  <2>2. task[t].op = "enter" => "enter" \in Does[c]
    BY <1>16 DEF Agreed
  <2> QED BY <1>18, <1>23, <2>1, <2>2
<1>24. Agreements'
  BY <1>22, <1>23 DEF Agreements
<1> QED BY <1>12, <1>13, <1>24 DEF ClaimsInv

LEMMA HolderClaims ==
  ASSUME SlotInv, ClaimsInv, SlotInv', NEW t \in Tasks, task[t].pc \in Holding \ {"forgetting", "detaching"},
         Landed(t), NEW c, c = task[t].conn, NEW v, Becomes(t, v),
         Account(v.cn, v.tk, v.claims, c), Only(claims, v.claims, c),
         v.cn.block \in {conn[c].block, Outside}
  PROVE  ClaimsInv'
<1>1. /\ Stage(conn[c], task[t]) /\ conn[c].guard = t /\ task \in [Tasks -> TaskType]
  BY WorldIs DEF SlotInv, TypeOK
<1>2. task[t].op # "enter" /\ task[t].pc # "idle"
  BY <1>1, NeverEnters DEF Holding, WayBack, Signing
<1>3. task'[t] = v.tk
  BY <1>1 DEF Becomes
<1>4. v.tk.op # "enter"
  BY <1>2, <1>3 DEF Landed, Idle
<1>5. v.tk.pc # "detaching"
  <2>1. SUFFICES ASSUME v.tk.pc = "detaching" PROVE FALSE
    OBVIOUS
  <2>2. task'[t].pc \in Holding
    BY <1>3, <2>1 DEF Holding
  <2>3. Stage(conn'[task'[t].conn], task'[t])
    BY <2>2 DEF SlotInv
  <2> QED BY <1>3, <1>4, <2>1, <2>3 DEF Stage
<1> QED BY <1>1, <1>2, <1>4, <1>5, StepClaims

(* What a session under way knows of its engine.                           *)
Sessions == {"opening", "reading"} \cup WayBack \cup Signing

LEMMA SessionStage ==
  ASSUME SlotInv, ClaimsInv, NEW t \in Tasks, task[t].pc \in Sessions, NEW w, w = World(t)
  PROVE  /\ w \in WorldType /\ w.tk = task[t] /\ w.claims = claims /\ w.cn = conn[task[t].conn]
         /\ Stage(w.cn, w.tk) /\ task[t].conn \in Connections
         /\ Account(w.cn, w.tk, w.claims, task[t].conn)
         /\ w.tk.phase = "opening" <=> Opens(w.tk)
         /\ w.tk.phase = "opening" => w.cn.slot.engine.url = None
         /\ w.tk.phase # "opening" => w.tk.engine.url = None
         /\ task[t].pc \in Holding \ {"forgetting", "detaching"}
<1>1. task[t].pc \in Holding \ {"forgetting", "detaching"}
  BY DEF Sessions, Holding, WayBack, Signing
<1>2. /\ w \in WorldType /\ Stage(w.cn, w.tk) /\ w.tk = task[t] /\ w.claims = claims /\ w.cn = conn[task[t].conn]
      /\ task[t].conn \in Connections
  BY <1>1, WorldIs DEF Sound
<1>3. Account(w.cn, w.tk, w.claims, task[t].conn)
  <2>1. Holder(task[t].conn) = task[t]
    BY <1>1, HolderIs
  <2> QED BY <1>2, <2>1 DEF ClaimsInv
<1>4. NoEngine.url = None
  BY DEF NoEngine
<1>5. /\ w.tk.phase = "opening" <=> Opens(w.tk)
      /\ w.tk.phase = "opening" => w.cn.slot.engine.url = None
  <2>1. CASE w.tk.pc = "opening"
    BY <1>2, <1>4, <2>1 DEF Stage, Opens, Phased
  <2>2. CASE w.tk.pc = "reading"
    BY <1>2, <2>2 DEF Stage, Opens, Owns, Signing
  <2>3. CASE w.tk.pc \in WayBack
    <3>1. Returning(w.cn, w.tk)
      BY <1>2, <2>3 DEF Stage, StageBack
    <3>2. w.tk.phase # "opening"
      BY <3>1 DEF Returning
    <3>3. w.tk.pc # "opening" /\ w.tk.pc \notin Signing
      BY <2>3 DEF WayBack, Signing
    <3> QED BY <3>2, <3>3 DEF Opens
  <2>4. CASE w.tk.pc \in Signing
    <3>1. Phased(w.cn, w.tk) \/ Owns(w.cn, w.tk)
      BY <1>2, <2>4 DEF Stage, StageSigning
    <3>2. w.tk.phase = "opening" => w.cn.slot.engine = NoEngine
      BY <3>1 DEF Phased, Owns
    <3>3. w.tk.pc # "opening"
      BY <2>4 DEF Signing
    <3> QED BY <1>4, <2>4, <3>2, <3>3 DEF Opens
  <2> QED BY <1>2, <2>1, <2>2, <2>3, <2>4 DEF Sessions
<1>6. w.tk.phase # "opening" => w.tk.engine.url = None
  <2>1. ~Opens(w.tk) => ~Carries(w.tk)
    BY <1>2 DEF Carries, Sessions, WayBack, Signing
  <2> QED BY <1>3, <1>5, <2>1 DEF Account, Hand
<1> QED BY <1>1, <1>2, <1>3, <1>5, <1>6

LEMMA ProceedingSame ==
  ASSUME NEW w, NEW v, NEW c, Proceeding(w, v, c)
  PROVE  v.cn.block = w.cn.block
BY DEF Proceeding, SameEngines, Publishes, Passes, Drops, SameBlock

LEMMA SessionClaims ==
  ASSUME SlotInv, ClaimsInv, SlotInv', NEW t \in Tasks, task[t].pc \in Sessions, Landed(t),
         NEW w, w = World(t), NEW v, Becomes(t, v), Proceeding(w, v, task[t].conn)
  PROVE  ClaimsInv'
<1>1. /\ w \in WorldType /\ w.tk = task[t] /\ w.claims = claims /\ w.cn = conn[task[t].conn]
      /\ task[t].conn \in Connections
      /\ Account(w.cn, w.tk, w.claims, task[t].conn)
      /\ w.tk.phase = "opening" <=> Opens(w.tk)
      /\ w.tk.phase = "opening" => w.cn.slot.engine.url = None
      /\ task[t].pc \in Holding \ {"forgetting", "detaching"}
  BY SessionStage
<1>2. w.tk.pc \in {"opening", "reading"} \cup WayBack \cup Signing
  BY <1>1 DEF Sessions
<1>3. Account(v.cn, v.tk, v.claims, task[t].conn) /\ Only(w.claims, v.claims, task[t].conn)
  BY <1>1, <1>2, ProceedingAccount
<1>4. v.cn.block = w.cn.block
  BY ProceedingSame
<1> QED BY <1>1, <1>3, <1>4, HolderClaims

LEMMA SessionPasses ==
  ASSUME SlotInv, ClaimsInv, SlotInv', NEW t \in Tasks, task[t].pc \in Sessions, Landed(t), task[t].phase # "opening",
         NEW w, w = World(t), NEW v, Becomes(t, v), Passes(w, v)
  PROVE  ClaimsInv'
<1>1. w.tk.phase # "opening" /\ w.tk.engine.url = None
  BY SessionStage
<1>2. Proceeding(w, v, task[t].conn)
  BY <1>1, PassesProceeds
<1> QED BY <1>2, SessionClaims

-----------------------------------------------------------------------------
(***************************************************************************)
(* The claims after each action                                            *)
(***************************************************************************)
LEMMA FlagsWritten ==
  ASSUME NEW w \in WorldType
  PROVE  /\ Written(w, AsOwner(w)) /\ Written(w, NotOwner(w)) /\ Written(w, Binds(w))
         /\ Written(w, Tokenless(w)) /\ Written(w, Ended(w))
<1>1. w.cn \in ConnType /\ w.cn.slot \in SlotType
  BY DEF WorldType, ConnType
<1>2. PICK s : s = w.cn.slot
  OBVIOUS
<1>3. PICK a, b, d : a = [s EXCEPT !.owner = TRUE, !.bound = FALSE] /\ b = [s EXCEPT !.owner = FALSE] /\ d = [s EXCEPT !.bound = TRUE]
  OBVIOUS
<1>4. /\ a \in SlotType /\ b \in SlotType /\ d \in SlotType
      /\ a.engine = s.engine /\ b.engine = s.engine /\ d.engine = s.engine
  BY <1>1, <1>2, <1>3 DEF SlotType
<1>5. PICK x, y, z : x = AsOwner(w) /\ y = NotOwner(w) /\ z = Binds(w)
  OBVIOUS
<1>6. x = WithSlot(w, a)
  BY <1>1, <1>2, <1>3, <1>5 DEF AsOwner, WithSlot
<1>7. y = WithSlot(w, b)
  BY <1>1, <1>2, <1>3, <1>5 DEF NotOwner, WithSlot
<1>8. z = WithSlot(w, d)
  BY <1>1, <1>2, <1>3, <1>5 DEF Binds, WithSlot
<1>9. Written(w, x) /\ Written(w, y) /\ Written(w, z)
  BY <1>2, <1>4, <1>6, <1>7, <1>8, SlotWritten
<1>10. PICK u : u = Tokenless(w)
  OBVIOUS
<1>11. Written(w, u)
  BY <1>10, TokenWritten, Constants DEF Tokenless
<1>12. Written(w, w)
  BY DEF Written, SameEngines, SameBlock
<1>13. Written(w, Ended(w))
  BY <1>10, <1>11, <1>12 DEF Ended, Tokenless
<1> QED BY <1>5, <1>9, <1>10, <1>11, <1>13

LEMMA EngineWritten ==
  ASSUME NEW w \in WorldType, NEW e \in EngineType, e.url = w.cn.slot.engine.url,
         NEW u, u = [w EXCEPT !.cn.slot.engine = e]
  PROVE  Written(w, u)
<1>1. w.cn \in ConnType /\ w.cn.slot \in SlotType
  BY DEF WorldType, ConnType
<1>2. PICK s : s = [w.cn.slot EXCEPT !.engine = e]
  OBVIOUS
<1>3. s \in SlotType /\ s.engine = e
  BY <1>1, <1>2 DEF SlotType
<1>4. u = WithSlot(w, s)
  BY <1>1, <1>2 DEF WithSlot
<1> QED BY <1>3, <1>4, SlotWritten

(* Of a world that was written, what the segments need stays.              *)
LEMMA WrittenIs ==
  ASSUME NEW w, NEW u, Written(w, u)
  PROVE  /\ u \in WorldType /\ SameEngines(w, u) /\ u.tk.op = w.tk.op /\ u.tk.phase = w.tk.phase
         /\ u.tk.engine.url = w.tk.engine.url /\ u.cn.slot.engine.url = w.cn.slot.engine.url
         /\ SameBlock(w, u) /\ u.claims = w.claims
BY DEF Written, SameEngines

(* On the way back to the owner there is no engine in hand.                *)
LEMMA BackStage ==
  ASSUME SlotInv, ClaimsInv, NEW t \in Tasks, task[t].pc \in WayBack, NEW w, w = World(t)
  PROVE  /\ task[t].pc \in Sessions /\ w \in WorldType /\ w.tk = task[t]
         /\ w.tk.phase # "opening" /\ w.tk.engine.url = None
         /\ w.cn.slot \in SlotType /\ w.cn.slot.engine \in EngineType /\ Returning(w.cn, w.tk)
<1>1. task[t].pc \in Sessions
  BY DEF Sessions
<1>2. Sound(w) /\ w.tk = task[t] /\ Stage(w.cn, w.tk)
  BY WorldIs DEF Holding
<1>3. w \in WorldType /\ w.cn.slot \in SlotType /\ w.cn.slot.engine \in EngineType /\ w.tk.phase # "opening"
      /\ Returning(w.cn, w.tk)
  BY <1>2, BackIs
<1>4. w.tk.engine.url = None
  BY <1>1, <1>3, SessionStage
<1> QED BY <1>1, <1>2, <1>3, <1>4

(* An owner user is removed or not, the database selected.                 *)
LEMMA RemovedClaims ==
  ASSUME SlotInv, ClaimsInv, NEW t \in Tasks, Removed(t) \/ Dropped(t)
  PROVE  ClaimsInv'
<1>1. task[t].pc \in WayBack
  BY DEF Removed, Dropped, WayBack
<1>2. PICK w : w = World(t)
  OBVIOUS
<1>3. /\ task[t].pc \in Sessions /\ w \in WorldType /\ w.tk = task[t] /\ w.tk.phase # "opening" /\ w.tk.engine.url = None
  BY <1>1, <1>2, BackStage
<1>4. SlotInv' /\ Landed(t)
  BY RemovedStep, DroppedStep
<1>5. PICK u : u = Defines(w, FALSE)
  OBVIOUS
<1>6. Written(w, u)
  BY <1>3, <1>5, DefinesWritten
<1>7. Passes(u, Select(u))
  BY <1>3, <1>6, SelectPasses, WrittenIs
<1>8. Passes(w, Select(u)) /\ Passes(w, Select(w)) /\ Passes(w, Fails(w))
  BY <1>3, <1>6, <1>7, WrittenPasses, SelectPasses, FailsPasses
<1>9. PICK v : Becomes(t, v) /\ v \in {Select(u), Select(w), Fails(w)}
  BY <1>2, <1>5 DEF Removed, Dropped
<1>10. Passes(w, v)
  BY <1>8, <1>9
<1> QED BY <1>2, <1>3, <1>4, <1>9, <1>10, SessionPasses

LEMMA ClosedClaims ==
  ASSUME SlotInv, ClaimsInv, NEW t \in Tasks, Closed(t)
  PROVE  ClaimsInv'
<1>1. task[t].pc \in WayBack
  BY DEF Closed, WayBack
<1>2. PICK w : w = World(t)
  OBVIOUS
<1>3. /\ task[t].pc \in Sessions /\ w \in WorldType /\ w.tk = task[t] /\ w.tk.phase # "opening" /\ w.tk.engine.url = None
      /\ w.cn.slot.engine \in EngineType
  BY <1>1, <1>2, BackStage
<1>4. SlotInv' /\ Landed(t)
  BY ClosedStep
<1>5. PICK e : e = Down(w.cn.slot.engine)
  OBVIOUS
<1>6. e \in EngineType /\ e.url = w.cn.slot.engine.url
  BY <1>3, <1>5, DownIs
<1>7. PICK u : u = [w EXCEPT !.cn.slot.engine = e]
  OBVIOUS
<1>8. Written(w, u)
  BY <1>3, <1>6, <1>7, EngineWritten
<1>9. PICK x : x = Ended(u)
  OBVIOUS
<1>10. Written(w, x)
  BY <1>8, <1>9, FlagsWritten, WrittenIs, WrittenTwice
<1>11. PICK v : v = At(x, "connecting")
  OBVIOUS
<1>12. Becomes(t, v)
  BY <1>2, <1>5, <1>7, <1>9, <1>11 DEF Closed
<1>13. Passes(x, v)
  BY <1>3, <1>10, <1>11, AtPasses, WrittenIs DEF WayBack, Signing
<1>14. Passes(w, v)
  BY <1>10, <1>13, WrittenPasses
<1> QED BY <1>2, <1>3, <1>4, <1>12, <1>14, SessionPasses

LEMMA ConnectedClaims ==
  ASSUME SlotInv, ClaimsInv, NEW t \in Tasks, Connected(t)
  PROVE  ClaimsInv'
<1>1. task[t].pc \in WayBack
  BY DEF Connected, WayBack
<1>2. PICK w : w = World(t)
  OBVIOUS
<1>3. /\ task[t].pc \in Sessions /\ w \in WorldType /\ w.tk = task[t] /\ w.tk.phase # "opening" /\ w.tk.engine.url = None
      /\ w.cn.slot.engine \in EngineType
  BY <1>1, <1>2, BackStage
<1>4. SlotInv' /\ Landed(t)
  BY ConnectedStep
<1>5. PICK e : e = Fresh(w.cn.slot.engine.url)
  OBVIOUS
<1>6. w.cn.slot.engine.url \in Urls
  BY <1>3 DEF EngineType
<1>7. e \in EngineType /\ e.url = w.cn.slot.engine.url
  BY <1>5, <1>6, FreshIs
<1>8. PICK u : u = [w EXCEPT !.cn.slot.engine = e]
  OBVIOUS
<1>9. Written(w, u)
  BY <1>3, <1>7, <1>8, EngineWritten
<1>10. PICK x : x = AsOwner(u)
  OBVIOUS
<1>11. Written(w, x)
  BY <1>9, <1>10, FlagsWritten, WrittenIs, WrittenTwice
<1>12. x = [w EXCEPT !.cn.slot.engine = e, !.cn.slot.owner = TRUE, !.cn.slot.bound = FALSE]
  BY <1>8, <1>10 DEF AsOwner
<1>13. PICK v : Becomes(t, v) /\ (v = Select(x) \/ v = Fails(w))
  BY <1>2, <1>5, <1>12 DEF Connected
<1>14. Passes(x, Select(x))
  BY <1>3, <1>11, SelectPasses, WrittenIs
<1>15. Passes(w, v)
  BY <1>3, <1>11, <1>13, <1>14, WrittenPasses, FailsPasses
<1> QED BY <1>2, <1>3, <1>4, <1>13, <1>15, SessionPasses

(* The session's end, and the owner signed in.                             *)
LEMMA InvalidatedClaims ==
  ASSUME SlotInv, ClaimsInv, NEW t \in Tasks, Invalidated(t) \/ OwnerSignedIn(t)
  PROVE  ClaimsInv'
<1>1. task[t].pc \in WayBack
  BY DEF Invalidated, OwnerSignedIn, WayBack
<1>2. PICK w : w = World(t)
  OBVIOUS
<1>3. /\ task[t].pc \in Sessions /\ w \in WorldType /\ w.tk = task[t] /\ w.tk.phase # "opening" /\ w.tk.engine.url = None
      /\ w.cn.slot.engine \in EngineType
  BY <1>1, <1>2, BackStage
<1>4. SlotInv' /\ Landed(t)
  BY InvalidatedStep, OwnerSignedInStep
<1>5. w.cn.slot.engine.selects \in Databases
  BY <1>3 DEF EngineType
<1>6. PICK a : a = Runs(w, Anonymous, w.cn.slot.engine.selects)
  OBVIOUS
<1>7. PICK b : b = Runs(w, Owner, w.cn.slot.engine.selects)
  OBVIOUS
<1>8. Written(w, a) /\ Written(w, b)
  BY <1>3, <1>5, <1>6, <1>7, RunsWritten, Constants
<1>9. PICK x, y : x = Ended(a) /\ y = AsOwner(b)
  OBVIOUS
<1>10. Written(w, x) /\ Written(w, y)
  BY <1>8, <1>9, FlagsWritten, WrittenIs, WrittenTwice
<1>11. PICK v : Becomes(t, v) /\ v \in {At(x, "owning"), Fails(x), At(y, "dropping"), Fails(w)}
  BY <1>2, <1>6, <1>7, <1>9 DEF Invalidated, OwnerSignedIn, AsOwner
<1>12. Passes(x, At(x, "owning")) /\ Passes(x, Fails(x)) /\ Passes(y, At(y, "dropping")) /\ Passes(w, Fails(w))
  BY <1>3, <1>10, AtPasses, FailsPasses, WrittenIs DEF WayBack, Signing
<1>13. Passes(w, v)
  BY <1>10, <1>11, <1>12, WrittenPasses
<1> QED BY <1>2, <1>3, <1>4, <1>11, <1>13, SessionPasses

(* The database is selected: the session is replayed, or all is over.      *)
LEMMA UsedClaims ==
  ASSUME SlotInv, ClaimsInv, NEW t \in Tasks, Used(t)
  PROVE  ClaimsInv'
<1>1. task[t].pc \in WayBack
  BY DEF Used, WayBack
<1>2. PICK w : w = World(t)
  OBVIOUS
<1>3. /\ task[t].pc \in Sessions /\ w \in WorldType /\ w.tk = task[t] /\ w.tk.phase # "opening" /\ w.tk.engine.url = None
      /\ w.cn.slot.engine \in EngineType /\ Returning(w.cn, w.tk)
  BY <1>1, <1>2, BackStage
<1>4. SlotInv' /\ Landed(t)
  BY UsedStep
<1>5. w.cn.slot.engine.who \in Whos /\ w.tk.database \in Databases
  BY <1>3 DEF EngineType, WorldType, TaskType
<1>6. PICK u : u = Runs(w, w.cn.slot.engine.who, w.tk.database)
  OBVIOUS
<1>7. Written(w, u)
  BY <1>3, <1>5, <1>6, RunsWritten
<1>8. u \in WorldType /\ u.tk.phase = w.tk.phase /\ u.tk.engine.url = None /\ u.tk.op = w.tk.op /\ SameEngines(w, u)
  BY <1>3, <1>7, WrittenIs
<1>9. PICK c : c = task[t].conn
  OBVIOUS
<1>10. CASE Becomes(t, Fails(w))
  <2>1. Passes(w, Fails(w))
    BY <1>3, FailsPasses
  <2> QED BY <1>2, <1>3, <1>4, <1>10, <2>1, SessionPasses
<1>11. CASE w.tk.phase = "own" /\ Becomes(t, Ends(Published(u)))
  <2>1. PICK p : p = Published(u)
    OBVIOUS
  <2>2. p \in WorldType /\ Publishes(u, p)
    BY <1>8, <2>1, PublishedIn
  <2>3. Passes(p, Ends(p))
    BY <2>2, EndsPasses DEF Publishes
  <2>4. Proceeding(u, Ends(p), c)
    BY <2>2, <2>3 DEF Proceeding
  <2>5. Proceeding(w, Ends(p), c)
    BY <1>8, <2>4, ProceedingFrom
  <2> QED BY <1>2, <1>3, <1>4, <1>9, <1>11, <2>1, <2>5, SessionClaims
<1>12. CASE w.tk.phase # "own" /\ Becomes(t, Replay(u))
  <2>1. w.tk.phase \in {"resetting", "restoring"} /\ (w.tk.phase = "resetting" => w.tk.op \in Gets)
    BY <1>3, <1>12 DEF Returning, Phased
  <2>2. Proceeding(u, Replay(u), c)
    BY <1>3, <1>8, <2>1, ReplayProceeds
  <2>3. Proceeding(w, Replay(u), c)
    BY <1>8, <2>2, ProceedingFrom
  <2> QED BY <1>2, <1>3, <1>4, <1>9, <1>12, <2>3, SessionClaims
<1> QED BY <1>2, <1>6, <1>10, <1>11, <1>12 DEF Used

(* The engine answers: it goes on to the stored session, or is dropped.    *)
LEMMA OpenedClaims ==
  ASSUME SlotInv, ClaimsInv, NEW t \in Tasks, Opened(t) \/ OpenFails(t)
  PROVE  ClaimsInv'
<1>1. task[t].pc = "opening"
  BY DEF Opened, OpenFails
<1>2. task[t].pc \in Sessions
  BY <1>1 DEF Sessions
<1>3. PICK w : w = World(t)
  OBVIOUS
<1>4. w \in WorldType /\ w.tk = task[t] /\ Stage(w.cn, w.tk)
  BY <1>2, <1>3, SessionStage
<1>5. w.tk.phase = "opening" /\ w.tk.op \in Gets
  BY <1>1, <1>4 DEF Stage, Phased
<1>6. SlotInv' /\ Landed(t)
  BY OpenedStep
<1>7. CASE OpenFails(t)
  <2>1. Proceeding(w, NotOpened(w), w.tk.conn)
    BY <1>4, <1>5, NotOpenedDrops
  <2> QED BY <1>2, <1>3, <1>4, <1>6, <1>7, <2>1, SessionClaims DEF OpenFails
<1>8. CASE Opened(t)
  <2>1. w.tk.engine \in EngineType /\ w.tk.engine.url \in Urls /\ w.tk.database \in Databases
    BY <1>4 DEF WorldType, TaskType, EngineType
  <2>2. PICK f : f = Fresh(w.tk.engine.url)
    OBVIOUS
  <2>3. f \in EngineType /\ f.url = w.tk.engine.url
    BY <2>1, <2>2, FreshIs
  <2>4. PICK e : e = [f EXCEPT !.selects = w.tk.database]
    OBVIOUS
  <2>5. e \in EngineType /\ e.url = w.tk.engine.url
    BY <2>1, <2>3, <2>4 DEF EngineType
  <2>6. PICK u : u = [w EXCEPT !.tk.engine = e]
    OBVIOUS
  <2>7. u = WithSession(w, e) /\ Session(w) = w.tk.engine
    BY <1>5, <2>6 DEF WithSession, Session
  <2>8. Written(w, u)
    BY <1>4, <2>5, <2>7, SessionWritten
  <2>9. u \in WorldType /\ u.tk.phase = "opening" /\ u.tk.op \in Gets /\ SameEngines(w, u)
    BY <1>5, <2>8, WrittenIs
  <2>10. Becomes(t, Replay(u))
    BY <1>3, <1>8, <2>2, <2>4, <2>6 DEF Opened
  <2>11. Proceeding(u, Replay(u), task[t].conn)
    BY <2>9, ReplayProceeds
  <2>12. Proceeding(w, Replay(u), task[t].conn)
    BY <2>9, <2>11, ProceedingFrom
  <2> QED BY <1>2, <1>3, <1>6, <2>10, <2>12, SessionClaims
<1> QED BY <1>7, <1>8

-----------------------------------------------------------------------------
(* A task that signs in.                                                   *)
LEMMA SigningStage ==
  ASSUME SlotInv, ClaimsInv, NEW t \in Tasks, task[t].pc \in Signing, NEW w, w = World(t)
  PROVE  /\ task[t].pc \in Sessions /\ w \in WorldType /\ w.tk = task[t]
         /\ w.tk.phase # "opening" => w.tk.engine.url = None
         /\ \/ /\ w.tk.phase \in {"opening", "resetting", "restoring"} /\ w.tk.pc # "exchanging"
               /\ w.tk.phase \in {"opening", "resetting"} => w.tk.op \in Gets
            \/ w.tk.phase = "own" /\ w.tk.op \in {"signin", "bind"} /\ w.tk.pc # "replaying"
<1>1. task[t].pc \in Sessions
  BY DEF Sessions
<1>2. w \in WorldType /\ w.tk = task[t] /\ (w.tk.phase # "opening" => w.tk.engine.url = None)
  BY <1>1, SessionStage
<1>3. Sound(w) /\ Stage(w.cn, w.tk)
  BY WorldIs DEF Holding
<1>4. \/ /\ w.tk.phase \in {"opening", "resetting", "restoring"} /\ w.tk.pc # "exchanging"
         /\ Phased(w.cn, w.tk)
      \/ Owns(w.cn, w.tk) /\ w.tk.pc # "replaying"
  BY <1>2, <1>3, SigningIs
<1> QED BY <1>1, <1>2, <1>4 DEF Phased, Owns

LEMMA DefinedClaims ==
  ASSUME SlotInv, ClaimsInv, NEW t \in Tasks, Defined(t)
  PROVE  ClaimsInv'
<1>1. task[t].pc \in Signing /\ task[t].pc = "defining"
  BY DEF Defined, Signing
<1>2. PICK w : w = World(t)
  OBVIOUS
<1>3. /\ task[t].pc \in Sessions /\ w \in WorldType /\ w.tk = task[t]
      /\ w.tk.phase # "opening" => w.tk.engine.url = None
      /\ \/ /\ w.tk.phase \in {"opening", "resetting", "restoring"}
            /\ w.tk.phase \in {"opening", "resetting"} => w.tk.op \in Gets
         \/ w.tk.phase = "own" /\ w.tk.op \in {"signin", "bind"}
  BY <1>1, <1>2, SigningStage
<1>4. SlotInv' /\ Landed(t)
  BY DefinedStep
<1>5. PICK c : c = task[t].conn
  OBVIOUS
<1>6. PICK u : u = Defines(w, TRUE)
  OBVIOUS
<1>7. Written(w, u)
  BY <1>3, <1>6, DefinesWritten
<1>8. u \in WorldType /\ SameEngines(w, u) /\ u.tk.phase = w.tk.phase /\ u.tk.op = w.tk.op
      /\ u.tk.engine.url = w.tk.engine.url
  BY <1>7, WrittenIs
<1>9. CASE Becomes(t, Undefined(w))
  <2>1. Proceeding(w, Undefined(w), w.tk.conn)
    BY <1>3, UndefinedProceeds
  <2> QED BY <1>2, <1>3, <1>4, <1>9, <2>1, SessionClaims
<1>10. CASE w.tk.phase = "own" /\ Becomes(t, At(u, "exchanging"))
  <2>1. PICK v : v = At(u, "exchanging")
    OBVIOUS
  <2>2. Written(u, v) /\ v.tk.pc = "exchanging"
    BY <1>8, <2>1, AtIs DEF Holding, Signing
  <2>3. SameEngines(w, v)
    BY <1>7, <2>2, WrittenTwice, WrittenIs
  <2>4. Proceeding(w, v, c)
    BY <2>2, <2>3 DEF Proceeding, Signing
  <2> QED BY <1>2, <1>3, <1>4, <1>5, <1>10, <2>1, <2>4, SessionClaims
<1>11. CASE w.tk.phase # "own" /\ Becomes(t, ReplaySends(u))
  <2>1. Proceeding(u, ReplaySends(u), c)
    BY <1>3, <1>8, <1>11, ReplaySendsProceeds
  <2>2. Proceeding(w, ReplaySends(u), c)
    BY <1>8, <2>1, ProceedingFrom
  <2> QED BY <1>2, <1>3, <1>4, <1>5, <1>11, <2>2, SessionClaims
<1> QED BY <1>2, <1>6, <1>9, <1>10, <1>11 DEF Defined

(* The exchange's answer.                                                  *)
LEMMA ExchangedClaims ==
  ASSUME SlotInv, ClaimsInv, NEW t \in Tasks, Exchanged(t)
  PROVE  ClaimsInv'
<1>1. task[t].pc \in Signing /\ task[t].pc \in {"replaying", "exchanging"}
  BY DEF Exchanged, Signing
<1>2. PICK w : w = World(t)
  OBVIOUS
<1>3. /\ task[t].pc \in Sessions /\ w \in WorldType /\ w.tk = task[t]
      /\ w.tk.phase # "opening" => w.tk.engine.url = None
      /\ \/ /\ w.tk.phase \in {"opening", "resetting", "restoring"} /\ w.tk.pc # "exchanging"
            /\ w.tk.phase \in {"opening", "resetting"} => w.tk.op \in Gets
         \/ w.tk.phase = "own" /\ w.tk.op \in {"signin", "bind"} /\ w.tk.pc # "replaying"
  BY <1>1, <1>2, SigningStage
<1>4. SlotInv' /\ Landed(t)
  BY ExchangedStep
<1>5. PICK c : c = task[t].conn
  OBVIOUS
<1>6. PICK who : who = IF w.tk.phase = "own" THEN w.tk.who ELSE w.tk.replays
  OBVIOUS
<1>7. who \in Whos /\ who.of \in Databases
  BY <1>3, <1>6 DEF WorldType, TaskType, Whos
<1>8. PICK r : r = Runs(w, who, who.of)
  OBVIOUS
<1>9. PICK u : u = NotOwner(r)
  OBVIOUS
<1>10. Written(w, u)
  <2>1. Written(w, r)
    BY <1>3, <1>7, <1>8, RunsWritten
  <2>2. r \in WorldType
    BY <2>1, WrittenIs
  <2>3. Written(r, u)
    BY <1>9, <2>2, FlagsWritten
  <2> QED BY <2>1, <2>3, WrittenTwice
<1>11. u \in WorldType /\ SameEngines(w, u) /\ u.tk.phase = w.tk.phase /\ u.tk.op = w.tk.op
       /\ u.tk.engine.url = w.tk.engine.url
  BY <1>10, WrittenIs
<1>12. \/ task[t].pc = "replaying" /\ Becomes(t, Replayed(u))
       \/ task[t].pc = "exchanging" /\ Becomes(t, At(Binds(u), "reading"))
       \/ task[t].pc = "exchanging" /\ \E kept \in BOOLEAN : Becomes(t, Adopts(u, kept))
  BY <1>2, <1>6, <1>8, <1>9 DEF Exchanged, NotOwner, Binds
<1>13. CASE task[t].pc = "replaying" /\ Becomes(t, Replayed(u))
  <2>1. Proceeding(u, Replayed(u), c)
    BY <1>3, <1>11, <1>13, ReplayedProceeds
  <2>2. Proceeding(w, Replayed(u), c)
    BY <1>11, <2>1, ProceedingFrom
  <2> QED BY <1>2, <1>3, <1>4, <1>5, <1>13, <2>2, SessionClaims
<1>14. CASE task[t].pc = "exchanging" /\ Becomes(t, At(Binds(u), "reading"))
  <2>1. PICK b : b = Binds(u)
    OBVIOUS
  <2>2. Written(w, b)
    BY <1>10, <1>11, <2>1, FlagsWritten, WrittenTwice
  <2>3. w.tk.phase = "own" /\ w.tk.engine.url = None
    BY <1>3, <1>14
  <2>4. Passes(b, At(b, "reading"))
    BY <2>2, <2>3, WrittenIs, AtPasses DEF Signing
  <2>5. Passes(w, At(b, "reading"))
    BY <2>2, <2>4, WrittenPasses
  <2> QED BY <1>2, <1>3, <1>4, <1>14, <2>1, <2>3, <2>5, SessionPasses
<1>15. CASE task[t].pc = "exchanging" /\ \E kept \in BOOLEAN : Becomes(t, Adopts(u, kept))
  <2>1. PICK kept \in BOOLEAN : Becomes(t, Adopts(u, kept))
    BY <1>15
  <2>2. w.tk.phase = "own" /\ w.tk.engine.url = None
    BY <1>3, <1>15
  <2>3. Passes(u, Adopts(u, kept))
    BY <1>11, <2>2, AdoptsPasses
  <2>4. Passes(w, Adopts(u, kept))
    BY <1>10, <2>3, WrittenPasses
  <2> QED BY <1>2, <1>3, <1>4, <2>1, <2>2, <2>4, SessionPasses
<1> QED BY <1>12, <1>13, <1>14, <1>15

(* A model's record is read, or not.                                       *)
LEMMA ReadClaims ==
  ASSUME SlotInv, ClaimsInv, NEW t \in Tasks, Read(t)
  PROVE  ClaimsInv'
<1>1. task[t].pc = "reading" /\ task[t].pc \in Sessions
  BY DEF Read, Sessions
<1>2. PICK w : w = World(t)
  OBVIOUS
<1>3. w \in WorldType /\ w.tk = task[t] /\ Stage(w.cn, w.tk) /\ (w.tk.phase # "opening" => w.tk.engine.url = None)
  BY <1>1, <1>2, SessionStage
<1>4. w.tk.phase = "own"
  BY <1>1, <1>3 DEF Stage, Owns
<1>5. SlotInv' /\ Landed(t)
  BY ReadStep
<1>6. Passes(w, Adopts(w, TRUE)) /\ Passes(w, Reset(w, "restoring"))
  BY <1>3, <1>4, AdoptsPasses, ResetPasses DEF Phases
<1>7. PICK v : Becomes(t, v) /\ (v = Adopts(w, TRUE) \/ v = Reset(w, "restoring"))
  BY <1>2 DEF Read
<1>8. Passes(w, v)
  BY <1>6, <1>7
<1> QED BY <1>1, <1>2, <1>3, <1>4, <1>5, <1>7, <1>8, SessionPasses

(* The session is refused, at once or after the owner user is gone.        *)
LEMMA RefusedClaims ==
  ASSUME SlotInv, ClaimsInv, NEW t \in Tasks, ExchangeRefused(t) \/ Undone(t)
  PROVE  ClaimsInv'
<1>1. task[t].pc \in Signing
  BY DEF ExchangeRefused, Undone, Signing
<1>2. PICK w : w = World(t)
  OBVIOUS
<1>3. /\ task[t].pc \in Sessions /\ w \in WorldType /\ w.tk = task[t]
      /\ w.tk.phase # "opening" => w.tk.engine.url = None
      /\ \/ w.tk.phase \in {"opening", "resetting", "restoring"}
         \/ w.tk.phase = "own" /\ w.tk.op \in {"bind", "signin"}
  BY <1>1, <1>2, SigningStage
<1>4. SlotInv' /\ Landed(t)
  BY ExchangeRefusedStep, UndoneStep
<1>5. PICK c : c = task[t].conn
  OBVIOUS
<1>6. ASSUME NEW u, Written(w, u) PROVE Proceeding(w, Refused(u), c) /\ Proceeding(w, At(u, "undoing"), c)
  <2>1. u \in WorldType /\ SameEngines(w, u) /\ u.tk.phase = w.tk.phase /\ u.tk.op = w.tk.op
        /\ u.tk.engine.url = w.tk.engine.url
    BY <1>6, WrittenIs
  <2>2. Proceeding(u, Refused(u), c)
    BY <1>3, <2>1, RefusedProceeds
  <2>3. PICK v : v = At(u, "undoing")
    OBVIOUS
  <2>4. Written(u, v) /\ v.tk.pc = "undoing"
    BY <2>1, <2>3, AtIs DEF Holding, Signing
  <2>5. SameEngines(w, v)
    BY <1>6, <2>4, WrittenTwice, WrittenIs
  <2>6. Proceeding(w, v, c)
    BY <2>4, <2>5 DEF Proceeding, Signing
  <2> QED BY <2>1, <2>2, <2>3, <2>6, ProceedingFrom
<1>7. PICK x, y : x = Tokenless(w) /\ y = Defines(w, FALSE)
  OBVIOUS
<1>8. Written(w, x) /\ Written(w, y) /\ Written(w, w)
  <2>1. Written(w, x)
    BY <1>3, <1>7, FlagsWritten
  <2>2. Written(w, y)
    BY <1>3, <1>7, DefinesWritten
  <2>3. Written(w, w)
    BY <1>3 DEF Written, SameEngines, SameBlock
  <2> QED BY <2>1, <2>2, <2>3
<1>9. PICK v : /\ Becomes(t, v)
               /\ \E u \in {w, x, y} : v \in {Refused(u), At(u, "undoing")}
  <2>1. CASE Undone(t)
    BY <1>2, <1>7, <2>1 DEF Undone
  <2>2. CASE ExchangeRefused(t)
    <3>1. PICK u : u = IF w.tk.phase = "own" THEN w ELSE Tokenless(w)
      OBVIOUS
    <3>2. PICK z : z = IF w.tk.was /\ w.cn.slot.user THEN At(u, "undoing") ELSE Refused(u)
      OBVIOUS
    <3>3. Becomes(t, z)
      BY <1>2, <2>2, <3>1, <3>2 DEF ExchangeRefused, Tokenless
    <3>4. u \in {w, x, y} /\ z \in {Refused(u), At(u, "undoing")}
      BY <1>7, <3>1, <3>2
    <3> QED BY <3>3, <3>4
  <2> QED BY <2>1, <2>2
<1>10. Proceeding(w, v, c)
  BY <1>6, <1>8, <1>9
<1> QED BY <1>2, <1>3, <1>4, <1>5, <1>9, <1>10, SessionClaims

-----------------------------------------------------------------------------
LEMMA AccountSame ==
  ASSUME NEW cn, NEW cn2, NEW tk, NEW held, NEW c, Account(cn, tk, held, c),
         cn2.url = cn.url, cn2.slot = cn.slot, cn2.block = cn.block
  PROVE  Account(cn2, tk, held, c)
<1>1. Engaged(cn2, tk) = Engaged(cn, tk)
  BY DEF Engaged
<1>2. Aside(cn, tk) => Aside(cn2, tk)
  BY DEF Aside, Shared
<1>3. Hand(cn, tk) => Hand(cn2, tk)
  BY DEF Hand, Shared
<1> QED BY <1>1, <1>2, <1>3 DEF Account

(* A call that enters no block.                                            *)
LEMMA OtherClaims ==
  ASSUME SlotInv, ClaimsInv, SlotInv', NEW t \in Tasks, task[t].pc # "idle", task[t].op # "enter", Landed(t),
         NEW c, c = task[t].conn, conn[c].guard \in {None, t}, NEW v, Becomes(t, v),
         Account(v.cn, v.tk, v.claims, c), Only(claims, v.claims, c),
         v.cn.block \in {conn[c].block, Outside}
  PROVE  ClaimsInv'
<1>1. task \in [Tasks -> TaskType]
  BY DEF SlotInv, TypeOK
<1>2. task'[t] = v.tk
  BY <1>1 DEF Becomes
<1>3. v.tk.op # "enter"
  BY <1>2 DEF Landed, Idle
<1>4. v.tk.pc # "detaching"
  <2>1. SUFFICES ASSUME v.tk.pc = "detaching" PROVE FALSE
    OBVIOUS
  <2>2. task'[t].pc \in Holding
    BY <1>2, <2>1 DEF Holding
  <2>3. Stage(conn'[task'[t].conn], task'[t])
    BY <2>2 DEF SlotInv
  <2> QED BY <1>2, <1>3, <2>1, <2>3 DEF Stage
<1> QED BY <1>3, <1>4, StepClaims

(* The world of a call that takes the guard.                               *)
LEMMA GuardedAccount ==
  ASSUME SlotInv, ClaimsInv, NEW t \in Tasks, task[t].pc = "waiting", conn[task[t].conn].guard = None,
         NEW w, w = Guarded(t), NEW c, c = task[t].conn
  PROVE  /\ Account(w.cn, Idle, w.claims, c) /\ w.claims = claims /\ w.cn.block = conn[c].block
         /\ w.tk = task[t] /\ w.tk.engine.url = None /\ c \in Connections
<1>1. task[t].conn \in Connections
  BY DEF SlotInv, CallKnown
<1>2. conn[c] \in ConnType
  BY <1>1 DEF SlotInv, TypeOK
<1>3. PICK cn : cn = [conn[c] EXCEPT !.guard = t]
  OBVIOUS
<1>4. cn.url = conn[c].url /\ cn.slot = conn[c].slot /\ cn.block = conn[c].block
  BY <1>2, <1>3 DEF ConnType
<1>5. w = [me |-> t, tk |-> task[t], cn |-> cn, claims |-> claims]
  BY <1>3 DEF Guarded, World
<1>6. w.cn = cn /\ w.claims = claims /\ w.tk = task[t]
  BY <1>5
<1>7. Holder(c) = Idle
  BY DEF Holder
<1>8. Account(conn[c], Idle, claims, c)
  BY <1>1, <1>7 DEF ClaimsInv
<1>9. Account(cn, Idle, claims, c)
  BY <1>4, <1>8, AccountSame
<1>10. task[t].engine.url = None
  BY DEF ClaimsInv, Holding, WayBack, Signing
<1> QED BY <1>1, <1>4, <1>6, <1>9, <1>10

LEMMA AcquireClaims ==
  ASSUME SlotInv, ClaimsInv, NEW t \in Tasks, Acquire(t)
  PROVE  ClaimsInv'
<1>1. task[t].pc = "waiting" /\ conn[task[t].conn].guard = None
  BY DEF Acquire
<1>2. PICK w : w = Guarded(t)
  OBVIOUS
<1>3. Sound(w) /\ FreeOK(w.cn.slot) /\ w.tk = task[t] /\ w \in WorldType
  BY <1>1, <1>2, GuardedIs DEF Sound
<1>4. PICK c : c = task[t].conn
  OBVIOUS
<1>5. /\ Account(w.cn, Idle, w.claims, c) /\ w.claims = claims /\ w.cn.block = conn[c].block
      /\ w.tk.engine.url = None /\ c \in Connections
  BY <1>1, <1>2, <1>4, GuardedAccount
<1>6. SlotInv' /\ Landed(t)
  BY AcquireStep
<1>7. Agreed(t)
  BY DEF ClaimsInv, Agreements
<1>8. task[t].pc # "idle" /\ conn[c].guard \in {None, t}
  BY <1>1, <1>4
<1>9. w.tk.conn = c
  BY <1>3, <1>4
<1>10. CASE task[t].op \in Gets /\ Becomes(t, Held(w))
  <2>1. PICK v : v = Held(w)
    OBVIOUS
  <2>2. Account(v.cn, v.tk, v.claims, c) /\ Only(w.claims, v.claims, c) /\ SameBlock(w, v)
    BY <1>3, <1>5, <1>9, <1>10, <2>1, HeldAccount
  <2>3. task[t].op # "enter" /\ v.cn.block = conn[c].block /\ Only(claims, v.claims, c) /\ Becomes(t, v)
    BY <1>5, <1>10, <2>1, <2>2 DEF Gets, SameBlock
  <2> QED BY <1>4, <1>6, <1>8, <2>2, <2>3, OtherClaims
<1>11. CASE task[t].op \in {"close", "remove"}
            /\ Becomes(t, IF w.cn.slot.engine = NoEngine THEN Ends(w) ELSE Forget(w, "forgetting"))
  <2>1. PICK v : v = IF w.cn.slot.engine = NoEngine THEN Ends(w) ELSE Forget(w, "forgetting")
    OBVIOUS
  <2>2. ~w.cn.block.closed
    BY <1>4, <1>5, <1>7, <1>11, OutsideIs DEF Agreed
  <2>3. ~Shared(w.cn, w.cn.slot.engine.url)
    BY <1>5, <2>2 DEF Account, Aside
  <2>4. Passes(w, Ends(w)) /\ Passes(w, Forget(w, "forgetting"))
    BY <1>3, <1>5, <2>3, EndsPasses, ForgetPasses
  <2>5. Passes(w, v)
    BY <2>1, <2>4
  <2>6. Account(v.cn, v.tk, v.claims, c)
    BY <1>5, <2>5, PassesAccount
  <2>7. task[t].op # "enter" /\ v.cn.block = conn[c].block /\ Only(claims, v.claims, c) /\ Becomes(t, v)
    BY <1>5, <1>11, <2>1, <2>5, OnlySame DEF Passes, SameBlock
  <2> QED BY <1>4, <1>6, <1>8, <2>6, <2>7, OtherClaims
<1>12. CASE task[t].op = "enter" /\ NoClose(c) /\ Becomes(t, EntersBlock(w))
  <2>1. PICK v : v = EntersBlock(w)
    OBVIOUS
  <2>2. w.cn.block = Outside /\ w.tk.target \in Blocks
    BY <1>1, <1>3, <1>4, <1>5, <1>7, <1>12 DEF Agreed
  <2>3. /\ Account(v.cn, v.tk, v.claims, c) /\ v.claims = claims
        /\ v.tk = Idle \/ (v.tk.pc = "detaching" /\ v.tk.target = task[t].target)
    BY <1>3, <1>5, <2>1, <2>2, EntersAccount
  <2>4. Becomes(t, v) /\ Only(claims, v.claims, c)
    BY <1>12, <2>1, <2>3, OnlySame
  <2>5. task'[t] = v.tk
    BY <2>4 DEF Becomes, SlotInv, TypeOK
  <2>6. v.tk.op = "enter" => v.tk.target = task[t].target
    BY <2>3 DEF Idle
  <2>7. v.tk.pc = "detaching" => v.tk.op = "enter"
    BY <1>12, <2>5, <1>6 DEF Landed, Idle
  <2> QED BY <1>4, <1>6, <1>8, <1>12, <2>3, <2>4, <2>6, <2>7, StepClaims
<1>13. CASE task[t].op = "leave" /\ Becomes(t, LeavesBlock(w))
  <2>1. PICK v : v = LeavesBlock(w)
    OBVIOUS
  <2>2. Account(v.cn, v.tk, v.claims, c) /\ Only(w.claims, v.claims, c) /\ v.cn.block \in {w.cn.block, Outside}
    BY <1>3, <1>5, <1>9, <2>1, LeavesAccount
  <2>3. task[t].op # "enter" /\ v.cn.block \in {conn[c].block, Outside} /\ Only(claims, v.claims, c) /\ Becomes(t, v)
    BY <1>5, <1>13, <2>1, <2>2
  <2> QED BY <1>4, <1>6, <1>8, <2>2, <2>3, OtherClaims
<1>14. \/ task[t].op \in Gets /\ Becomes(t, Held(w))
       \/ /\ task[t].op \in {"close", "remove"}
          /\ Becomes(t, IF w.cn.slot.engine = NoEngine THEN Ends(w) ELSE Forget(w, "forgetting"))
       \/ task[t].op = "enter" /\ NoClose(c) /\ Becomes(t, EntersBlock(w))
       \/ task[t].op = "leave" /\ Becomes(t, LeavesBlock(w))
  BY <1>2, <1>4 DEF Acquire, Guarded, Gets
<1> QED BY <1>10, <1>11, <1>12, <1>13, <1>14

(* The engine is closed: its store is let go, another engine opened.       *)
LEMMA ForgottenClaims ==
  ASSUME SlotInv, ClaimsInv, NEW t \in Tasks, Forgotten(t)
  PROVE  ClaimsInv'
<1>1. task[t].pc \in {"forgetting", "replacing"}
  BY DEF Forgotten
<1>2. task[t].pc \in Holding /\ task[t].pc # "idle"
  BY <1>1 DEF Holding
<1>3. PICK x : x = World(t)
  OBVIOUS
<1>4. /\ x \in WorldType /\ Stage(x.cn, x.tk) /\ x.tk = task[t] /\ x.cn = conn[task[t].conn] /\ x.claims = claims
      /\ conn[task[t].conn].guard = t
  BY <1>2, <1>3, WorldIs DEF Sound
<1>5. PICK c : c = task[t].conn
  OBVIOUS
<1>6. c \in Connections /\ Account(x.cn, x.tk, claims, c)
  <2>1. c \in Connections /\ Holder(c) = task[t]
    BY <1>2, <1>5, WorldIs, HolderIs
  <2> QED BY <1>4, <1>5, <2>1 DEF ClaimsInv
<1>7. x.cn.slot = EmptySlot
  BY <1>1, <1>4 DEF Stage
<1>8. PICK freed : freed = Unclaimed(claims, x.tk.engine.url, c)
  OBVIOUS
<1>9. Account(x.cn, Idle, freed, c) /\ Only(claims, freed, c)
  BY <1>1, <1>4, <1>5, <1>6, <1>7, <1>8, LetsGoAccount
<1>10. PICK w : w = LetsGo(t)
  OBVIOUS
<1>11. w = [x EXCEPT !.tk.engine = NoEngine, !.claims = freed]
  BY <1>3, <1>4, <1>5, <1>8, <1>10 DEF LetsGo
<1>12. freed \in ClaimsType
  BY <1>4, <1>6, <1>8, ClaimsTyped DEF WorldType
<1>13. w \in WorldType /\ w.cn = x.cn /\ w.claims = freed /\ w.tk.engine = NoEngine /\ w.tk.conn = c
  <2>1. x.tk \in TaskType
    BY <1>4 DEF WorldType
  <2>2. PICK tk : tk = [x.tk EXCEPT !.engine = NoEngine]
    OBVIOUS
  <2>3. tk \in TaskType /\ tk.engine = NoEngine /\ tk.conn = c
    BY <1>4, <1>5, <2>1, <2>2, Constants DEF TaskType
  <2>4. w = [x EXCEPT !.tk = tk, !.claims = freed]
    BY <1>4, <1>11, <2>2 DEF WorldType
  <2> QED BY <1>4, <1>12, <2>3, <2>4 DEF WorldType
<1>14. w.tk.engine.url = None /\ w.cn.slot.engine.url = None
  BY <1>7, <1>13 DEF NoEngine, EmptySlot
<1>15. SlotInv' /\ Landed(t)
  BY ForgottenStep
<1>16. Account(w.cn, Idle, w.claims, c)
  BY <1>9, <1>13
<1>17. CASE task[t].pc = "forgetting"
  <2>1. PICK v : v = Ends(w)
    OBVIOUS
  <2>2. Becomes(t, v)
    BY <1>10, <1>17, <2>1 DEF Forgotten, LetsGo
  <2>3. Passes(w, v)
    BY <1>13, <1>14, <2>1, EndsPasses
  <2>4. Account(v.cn, v.tk, v.claims, c)
    BY <1>16, <2>3, PassesAccount
  <2>5. v.tk = Idle
    BY <1>13, <2>1 DEF Ends, WorldType
  <2>6. v.cn.block = conn[c].block /\ v.claims = freed
    BY <1>4, <1>5, <1>13, <2>3 DEF Passes, SameBlock
  <2>7. v.tk.op # "enter" /\ v.tk.pc # "detaching"
    BY <2>5 DEF Idle
  <2> QED BY <1>2, <1>4, <1>5, <1>9, <1>15, <2>2, <2>4, <2>6, <2>7, StepClaims
<1>18. CASE task[t].pc = "replacing"
  <2>1. PICK v : v = Open(w)
    OBVIOUS
  <2>2. Becomes(t, v)
    BY <1>10, <1>18, <2>1 DEF Forgotten, LetsGo
  <2>3. Account(v.cn, v.tk, v.claims, c) /\ Only(w.claims, v.claims, c)
    BY <1>6, <1>13, <1>14, <1>16, <2>1, OpenAccount
  <2>4. v.cn.block = conn[c].block
    BY <1>4, <1>5, <1>13, <2>1, OpenSame DEF SameBlock
  <2>5. Only(claims, v.claims, c)
    BY <1>9, <1>13, <2>3, OnlyTwice
  <2>6. task[t].pc \in Holding \ {"forgetting", "detaching"}
    BY <1>2, <1>18
  <2> QED BY <1>5, <1>15, <2>2, <2>3, <2>4, <2>5, <2>6, HolderClaims
<1> QED BY <1>1, <1>17, <1>18

(* A block's steps, while its store changes hands.                         *)
LEMMA DetachedClaims ==
  ASSUME SlotInv, ClaimsInv, NEW t \in Tasks, Detached(t)
  PROVE  ClaimsInv'
<1>1. task[t].pc = "detaching" /\ task[t].pc \in Holding /\ task[t].pc # "idle"
  BY DEF Detached, Holding
<1>2. PICK w : w = World(t)
  OBVIOUS
<1>3. PICK c : c = task[t].conn
  OBVIOUS
<1>4. /\ w \in WorldType /\ Stage(w.cn, w.tk) /\ w.tk = task[t] /\ w.cn = conn[c] /\ w.claims = claims
      /\ conn[c].guard = t /\ c \in Connections
  BY <1>1, <1>2, <1>3, WorldIs DEF Sound
<1>5. Account(w.cn, w.tk, w.claims, c)
  BY <1>1, <1>3, <1>4, HolderIs DEF ClaimsInv
<1>6. w.cn.slot = EmptySlot /\ task[t].op = "enter"
  BY <1>1, <1>4 DEF Stage
<1>7. PICK v : v = SetConnection(LetGo(w))
  OBVIOUS
<1>8. Becomes(t, v)
  BY <1>2, <1>3, <1>4, <1>7 DEF Detached, LetGo
<1>9. Account(v.cn, v.tk, v.claims, c) /\ v.claims = claims /\ v.tk = Idle
  BY <1>1, <1>4, <1>5, <1>6, <1>7, DetachedAccount
<1>10. SlotInv' /\ Landed(t)
  BY DetachedStep
<1>11. NoClose(c)
  <2>1. ASSUME NEW u \in Tasks, task[u].conn = c, task[u].op = "close" PROVE FALSE
    <3>1. Agreed(u)
      BY DEF ClaimsInv, Agreements
    <3> QED BY <1>1, <1>3, <2>1, <3>1 DEF Agreed
  <2> QED BY <2>1 DEF NoClose
<1>12. v.tk.op # "enter" /\ v.tk.pc # "detaching"
  BY <1>9 DEF Idle
<1>13. Only(claims, v.claims, c)
  BY <1>9, OnlySame
<1> QED BY <1>1, <1>3, <1>4, <1>6, <1>8, <1>9, <1>10, <1>11, <1>12, <1>13, StepClaims

(* The world of a task whose block ends.                                   *)
LEMMA EndingStage ==
  ASSUME SlotInv, ClaimsInv, NEW t \in Tasks, task[t].pc \in {"discarding", "reattaching", "ending"},
         NEW w, w = World(t), NEW c, c = task[t].conn
  PROVE  /\ w \in WorldType /\ Stage(w.cn, w.tk) /\ w.tk = task[t] /\ w.cn = conn[c] /\ w.claims = claims
         /\ c \in Connections /\ Account(w.cn, w.tk, w.claims, c) /\ w.tk.conn = c
         /\ task[t].pc \in Holding \ {"forgetting", "detaching"}
<1>1. task[t].pc \in Holding \ {"forgetting", "detaching"}
  BY DEF Holding
<1>2. /\ w \in WorldType /\ Stage(w.cn, w.tk) /\ w.tk = task[t] /\ w.cn = conn[c] /\ w.claims = claims
      /\ c \in Connections
  BY <1>1, WorldIs DEF Sound
<1>3. Account(w.cn, w.tk, w.claims, c)
  BY <1>1, <1>2, HolderIs DEF ClaimsInv
<1> QED BY <1>1, <1>2, <1>3

LEMMA DiscardedClaims ==
  ASSUME SlotInv, ClaimsInv, NEW t \in Tasks, Discarded(t)
  PROVE  ClaimsInv'
<1>1. task[t].pc = "discarding"
  BY DEF Discarded
<1>2. PICK w, c : w = World(t) /\ c = task[t].conn
  OBVIOUS
<1>3. /\ w \in WorldType /\ w.tk = task[t] /\ w.cn = conn[c] /\ w.claims = claims
      /\ Account(w.cn, w.tk, w.claims, c) /\ task[t].pc \in Holding \ {"forgetting", "detaching"}
  BY <1>1, <1>2, EndingStage
<1>4. PICK x : x = [w EXCEPT !.cn.slot.engine = Down(w.cn.slot.engine)]
  OBVIOUS
<1>5. PICK v : v = At(x, "reattaching")
  OBVIOUS
<1>6. Becomes(t, v)
  BY <1>2, <1>4, <1>5 DEF Discarded
<1>7. SameEngines(w, v) /\ v.tk.pc = "reattaching"
  BY <1>3, <1>4, <1>5, DiscardedIs
<1>8. Account(v.cn, v.tk, v.claims, c) /\ v.claims = w.claims /\ v.cn.block = w.cn.block
  BY <1>1, <1>3, <1>7, DiscardedAccount
<1>9. SlotInv' /\ Landed(t)
  BY DiscardedStep
<1>10. Only(claims, v.claims, c) /\ v.cn.block = conn[c].block
  BY <1>3, <1>8, OnlySame
<1> QED BY <1>2, <1>3, <1>6, <1>8, <1>9, <1>10, HolderClaims

LEMMA ReattachedClaims ==
  ASSUME SlotInv, ClaimsInv, NEW t \in Tasks, Reattached(t)
  PROVE  ClaimsInv'
<1>1. task[t].pc = "reattaching"
  BY DEF Reattached
<1>2. PICK w, c : w = World(t) /\ c = task[t].conn
  OBVIOUS
<1>3. /\ w \in WorldType /\ w.tk = task[t] /\ w.cn = conn[c] /\ w.claims = claims /\ Stage(w.cn, w.tk)
      /\ Account(w.cn, w.tk, w.claims, c) /\ task[t].pc \in Holding \ {"forgetting", "detaching"}
      /\ c \in Connections /\ w.tk.conn = c
  BY <1>1, <1>2, EndingStage
<1>4. w.cn.block.closed
  BY <1>1, <1>3 DEF Stage
<1>5. PICK e \in {Fresh(w.cn.block.slot.engine.url), NoEngine} : Becomes(t, PutBack(w, e))
  BY <1>2 DEF Reattached
<1>6. PICK v : v = PutBack(w, e)
  OBVIOUS
<1>7. Account(v.cn, v.tk, v.claims, c) /\ Only(w.claims, v.claims, c) /\ v.cn.block = Outside
  BY <1>1, <1>3, <1>4, <1>6, ReattachedAccount
<1>8. SlotInv' /\ Landed(t)
  BY ReattachedStep
<1> QED BY <1>2, <1>3, <1>5, <1>6, <1>7, <1>8, HolderClaims

LEMMA BlockEndsClaims ==
  ASSUME SlotInv, ClaimsInv, NEW t \in Tasks, BlockEnds(t)
  PROVE  ClaimsInv'
<1>1. task[t].pc = "ending"
  BY DEF BlockEnds
<1>2. PICK w, c : w = World(t) /\ c = task[t].conn
  OBVIOUS
<1>3. /\ w \in WorldType /\ w.tk = task[t] /\ w.cn = conn[c] /\ w.claims = claims
      /\ Account(w.cn, w.tk, w.claims, c) /\ task[t].pc \in Holding \ {"forgetting", "detaching"}
      /\ c \in Connections /\ w.tk.conn = c
  BY <1>1, <1>2, EndingStage
<1>4. PICK v : v = Ends(IF w.tk.claimed THEN [w EXCEPT !.claims = Unclaimed(w.claims, w.tk.engine.url, c)] ELSE w)
  OBVIOUS
<1>5. Becomes(t, v)
  BY <1>2, <1>3, <1>4 DEF BlockEnds
<1>6. Account(v.cn, v.tk, v.claims, c) /\ Only(w.claims, v.claims, c) /\ v.cn.block = w.cn.block
  BY <1>1, <1>3, <1>4, BlockEndsAccount
<1>7. SlotInv' /\ Landed(t)
  BY BlockEndsStep
<1> QED BY <1>2, <1>3, <1>5, <1>6, <1>7, HolderClaims

-----------------------------------------------------------------------------
(* Who calls what, when a task makes a call or gives one up.               *)
Allowed(t, x) ==
  /\ x.op # None => x.conn \in Connections
  /\ x.op = "enter" =>
       /\ "enter" \in Does[x.conn] /\ x.target \in Blocks /\ conn[x.conn].block = Outside
       /\ \A u \in Tasks \ {t} : ~(task[u].conn = x.conn /\ task[u].op \in {"enter", "remove"})
  /\ x.op = "remove" =>
       conn[x.conn].block = Outside /\ \A u \in Tasks \ {t} : ~(task[u].conn = x.conn /\ task[u].op = "enter")
  /\ x.op = "close" =>
       /\ ~conn[x.conn].block.closed
       /\ \A u \in Tasks \ {t} : ~(task[u].conn = x.conn /\ task[u].pc = "detaching")

(* A task without the guard has another call.                              *)
Gives(t, x) ==
  /\ task[t].pc \in {"idle", "waiting"} /\ x.pc \in {"idle", "waiting"} /\ x.engine.url = None
  /\ task' = [task EXCEPT ![t] = x] /\ Allowed(t, x)

(* The settings may change, the engines and their claims do not.           *)
Accounted ==
  /\ claims' = claims
  /\ \A d \in Connections : /\ conn'[d].guard = conn[d].guard /\ conn'[d].block = conn[d].block
                             /\ Account(conn'[d], Holder(d), claims, d)

LEMMA CallClaims ==
  ASSUME SlotInv, ClaimsInv, NEW t \in Tasks, NEW x, Gives(t, x), Accounted
  PROVE  ClaimsInv'
<1>0. /\ task[t].pc \in {"idle", "waiting"} /\ x.pc \in {"idle", "waiting"} /\ x.engine.url = None
      /\ task' = [task EXCEPT ![t] = x] /\ Allowed(t, x) /\ claims' = claims
      /\ \A d \in Connections : /\ conn'[d].guard = conn[d].guard /\ conn'[d].block = conn[d].block
                                 /\ Account(conn'[d], Holder(d), claims, d)
  BY DEF Gives, Accounted
<1>1. task \in [Tasks -> TaskType] /\ None \notin Tasks /\ None \notin Connections
  BY SlotAssumption DEF SlotInv, TypeOK, SlotAssumption
<1>2. task'[t] = x /\ \A u \in Tasks : u # t => task'[u] = task[u]
  BY <1>0, <1>1
<1>3. task[t].pc \notin Holding /\ x.pc \notin Holding /\ Idle.op = None /\ x.pc # "detaching"
  BY <1>0 DEF Holding, WayBack, Signing, Idle
<1>4. ASSUME NEW d \in Connections PROVE Account(conn'[d], Holder(d)', claims', d)
  <2>1. conn[d].guard # t
    BY <1>3 DEF SlotInv, GuardHeld
  <2>2. conn[d].guard \in Tasks \cup {None}
    BY DEF SlotInv, TypeOK, ConnType
  <2>3. Holder(d)' = Holder(d)
    BY <1>0, <1>2, <2>1, <2>2 DEF Holder
  <2> QED BY <1>0, <2>3
<1>5. \A u \in Tasks : task'[u].pc \notin Holding => task'[u].engine.url = None
  BY <1>0, <1>2 DEF ClaimsInv
<1>6. ASSUME NEW u \in Tasks, u # t PROVE Agreed(u)'
  <2>1. Agreed(u) /\ task'[u] = task[u]
    BY <1>2, <1>6 DEF ClaimsInv, Agreements
  <2>2. PICK c : c = task[u].conn
    OBVIOUS
  <2>3. task[u].op # None => c \in Connections
    BY <1>3, <2>2 DEF SlotInv, CallKnown
  <2>4. task[u].op # None => conn'[c].block = conn[c].block
    BY <1>0, <2>3
  <2>5. task'[u].op = "enter" =>
          /\ "enter" \in Does[c] /\ task'[u].target \in Blocks
          /\ task'[u].pc = "waiting" => conn'[c].block = Outside
          /\ \A y \in Tasks : task'[y].op = "enter" /\ task'[y].conn = c => y = u
    <3>1. SUFFICES ASSUME task[u].op = "enter"
                   PROVE  /\ "enter" \in Does[c] /\ task[u].target \in Blocks
                          /\ task[u].pc = "waiting" => conn'[c].block = Outside
                          /\ \A y \in Tasks : task'[y].op = "enter" /\ task'[y].conn = c => y = u
      BY <2>1
    <3>2. /\ "enter" \in Does[c] /\ task[u].target \in Blocks
          /\ task[u].pc = "waiting" => conn[c].block = Outside
          /\ \A y \in Tasks : task[y].op = "enter" /\ task[y].conn = c => y = u
      BY <2>1, <2>2, <3>1 DEF Agreed
    <3>3. ~(x.op = "enter" /\ x.conn = c)
      BY <1>0, <1>6, <2>2, <3>1 DEF Allowed
    <3> QED BY <1>2, <2>4, <3>1, <3>2, <3>3
  <2>6. task'[u].op = "remove" =>
          conn'[c].block = Outside /\ \A y \in Tasks : ~(task'[y].conn = c /\ task'[y].op = "enter")
    <3>1. SUFFICES ASSUME task[u].op = "remove"
                   PROVE  conn'[c].block = Outside /\ \A y \in Tasks : ~(task'[y].conn = c /\ task'[y].op = "enter")
      BY <2>1
    <3>2. conn[c].block = Outside /\ \A y \in Tasks : ~(task[y].conn = c /\ task[y].op = "enter")
      BY <2>1, <2>2, <3>1 DEF Agreed
    <3>3. ~(x.op = "enter" /\ x.conn = c)
      BY <1>0, <1>6, <2>2, <3>1 DEF Allowed
    <3> QED BY <1>2, <2>4, <3>1, <3>2, <3>3
  <2>7. task'[u].op = "close" =>
          ~conn'[c].block.closed /\ \A y \in Tasks : ~(task'[y].conn = c /\ task'[y].pc = "detaching")
    <3>1. SUFFICES ASSUME task[u].op = "close"
                   PROVE  ~conn'[c].block.closed /\ \A y \in Tasks : ~(task'[y].conn = c /\ task'[y].pc = "detaching")
      BY <2>1
    <3>2. ~conn[c].block.closed /\ \A y \in Tasks : ~(task[y].conn = c /\ task[y].pc = "detaching")
      BY <2>1, <2>2, <3>1 DEF Agreed
    <3> QED BY <1>2, <1>3, <2>4, <3>1, <3>2
  <2> QED BY <2>1, <2>2, <2>5, <2>6, <2>7 DEF Agreed
<1>7. Agreed(t)'
  <2>1. PICK c : c = x.conn
    OBVIOUS
  <2>2. x.op # None => conn'[c].block = conn[c].block
    BY <1>0, <2>1 DEF Allowed
  <2>3. x.op = "enter" =>
          /\ "enter" \in Does[c] /\ x.target \in Blocks
          /\ conn'[c].block = Outside
          /\ \A y \in Tasks : task'[y].op = "enter" /\ task'[y].conn = c => y = t
    BY <1>0, <1>2, <2>1, <2>2 DEF Allowed
  <2>4. x.op = "remove" =>
          conn'[c].block = Outside /\ \A y \in Tasks : ~(task'[y].conn = c /\ task'[y].op = "enter")
    BY <1>0, <1>2, <2>1, <2>2 DEF Allowed
  <2>5. x.op = "close" =>
          ~conn'[c].block.closed /\ \A y \in Tasks : ~(task'[y].conn = c /\ task'[y].pc = "detaching")
    BY <1>0, <1>2, <1>3, <2>1, <2>2 DEF Allowed
  <2> QED BY <1>2, <2>1, <2>3, <2>4, <2>5 DEF Agreed
<1>8. ASSUME NEW d \in Connections, conn'[d].block # Outside PROVE "enter" \in Does[d]
  BY <1>0, <1>8 DEF ClaimsInv, Agreements
<1>9. Agreements'
  BY <1>6, <1>7, <1>8 DEF Agreements
<1> QED BY <1>4, <1>5, <1>9 DEF ClaimsInv

(* Nothing of the connections changes, or nothing of the tasks.            *)
LEMMA PlainCallClaims ==
  ASSUME SlotInv, ClaimsInv, NEW t \in Tasks, NEW x, Gives(t, x), UNCHANGED <<conn, claims>>
  PROVE  ClaimsInv'
<1>1. ASSUME NEW d \in Connections PROVE Account(conn'[d], Holder(d), claims, d)
  <2>1. conn'[d] = conn[d]
    OBVIOUS
  <2>2. Account(conn[d], Holder(d), claims, d)
    BY DEF ClaimsInv
  <2> QED BY <2>1, <2>2
<1>2. Accounted
  BY <1>1 DEF Accounted
<1> QED BY <1>2, CallClaims

SameTask(tk, u) ==
  u.pc = tk.pc /\ u.op = tk.op /\ u.conn = tk.conn /\ u.phase = tk.phase /\ u.engine = tk.engine
  /\ u.claimed = tk.claimed /\ u.target = tk.target

LEMMA AccountTask ==
  ASSUME NEW cn, NEW tk, NEW u, NEW held, NEW c, Account(cn, tk, held, c), SameTask(tk, u)
  PROVE  Account(cn, u, held, c)
<1>1. /\ u.pc = tk.pc /\ u.phase = tk.phase /\ u.engine = tk.engine /\ u.claimed = tk.claimed /\ u.target = tk.target
  BY DEF SameTask
<1>2. Opens(u) <=> Opens(tk)
  BY <1>1 DEF Opens
<1>3. Carries(u) <=> Carries(tk)
  BY <1>1, <1>2 DEF Carries
<1>4. Engaged(cn, u) = Engaged(cn, tk)
  BY <1>1 DEF Engaged
<1>5. Aside(cn, tk) => Aside(cn, u)
  BY <1>1 DEF Aside
<1>6. Hand(cn, tk) => Hand(cn, u)
  BY <1>1, <1>2, <1>3 DEF Hand
<1> QED BY <1>4, <1>5, <1>6 DEF Account

LEMMA SettingsClaims ==
  ASSUME SlotInv, ClaimsInv, \A u \in Tasks : SameTask(task[u], task'[u]), Accounted
  PROVE  ClaimsInv'
<1>0. /\ claims' = claims
      /\ \A d \in Connections : /\ conn'[d].guard = conn[d].guard /\ conn'[d].block = conn[d].block
                                 /\ Account(conn'[d], Holder(d), claims, d)
  BY DEF Accounted
<1>1. \A u \in Tasks : /\ task'[u].pc = task[u].pc /\ task'[u].op = task[u].op /\ task'[u].conn = task[u].conn
                       /\ task'[u].engine = task[u].engine /\ task'[u].target = task[u].target
  BY DEF SameTask
<1>2. ASSUME NEW d \in Connections PROVE Account(conn'[d], Holder(d)', claims', d)
  <2>1. conn[d].guard \in Tasks \cup {None}
    BY DEF SlotInv, TypeOK, ConnType
  <2>2. PICK tk : tk = Holder(d)
    OBVIOUS
  <2>3. SameTask(tk, Holder(d)')
    BY <1>0, <2>1, <2>2 DEF Holder, SameTask
  <2> QED BY <1>0, <2>2, <2>3, AccountTask
<1>3. ASSUME NEW u \in Tasks PROVE Agreed(u)'
  <2>1. Agreed(u)
    BY DEF ClaimsInv, Agreements
  <2>2. Idle.op = None
    BY DEF Idle
  <2>3. task[u].op # None => task[u].conn \in Connections
    BY <2>2 DEF SlotInv, CallKnown
  <2>4. PICK c : c = task[u].conn
    OBVIOUS
  <2>5. task[u].op # None => conn'[c].block = conn[c].block
    BY <1>0, <2>3, <2>4
  <2>6. task'[u].conn = c
    BY <1>1, <2>4
  <2> QED BY <1>1, <2>1, <2>4, <2>5, <2>6 DEF Agreed
<1>4. Agreements'
  BY <1>0, <1>3 DEF ClaimsInv, Agreements
<1>5. \A u \in Tasks : task'[u].pc \notin Holding => task'[u].engine.url = None
  BY <1>1 DEF ClaimsInv
<1> QED BY <1>2, <1>4, <1>5 DEF ClaimsInv

-----------------------------------------------------------------------------
(* A call is made, or given up before it had the guard.                    *)
LEMMA IdleCall == Idle.op = None /\ Idle.pc = "idle" /\ Idle.engine.url = None
BY DEF Idle, NoEngine

LEMMA CallsClaims ==
  ASSUME SlotInv, ClaimsInv, NEW t \in Tasks, NEW c \in Connections,
         \/ GetClient(t, c) \/ Signin(t, c) \/ Invalidate(t, c) \/ Close(t, c) \/ EnterBlock(t, c) \/ LeaveBlock(t, c)
  PROVE  ClaimsInv'
<1>1. conn \in [Connections -> ConnType] /\ task \in [Tasks -> TaskType] /\ Idle \in TaskType /\ Idle.engine = NoEngine
  BY Constants DEF SlotInv, TypeOK, Idle
<1>2. UNCHANGED <<conn, claims>> /\ task[t].pc = "idle"
  BY DEF GetClient, Signin, Invalidate, Close, EnterBlock, LeaveBlock, Calls
<1>3. task[t].pc \in {"idle", "waiting"}
  BY <1>2
<1>4. ASSUME NEW call \in TaskType, call.engine = NoEngine, call.op \notin {"enter", "remove", "close"},
             task' = [task EXCEPT ![t] = [call EXCEPT !.pc = "waiting", !.conn = c]]
      PROVE  ClaimsInv'
  <2>1. PICK x : x = [call EXCEPT !.pc = "waiting", !.conn = c]
    OBVIOUS
  <2>2. x.pc = "waiting" /\ x.conn = c /\ x.op = call.op /\ x.engine.url = None
    BY <1>4, <2>1 DEF TaskType, NoEngine
  <2>3. Allowed(t, x)
    BY <1>4, <2>2 DEF Allowed
  <2>4. Gives(t, x)
    BY <1>3, <1>4, <2>1, <2>2, <2>3 DEF Gives
  <2> QED BY <1>2, <2>4, PlainCallClaims
<1>5. ASSUME NEW op \in Ops \cup {"leave"}, NEW call, call = [Idle EXCEPT !.op = op]
      PROVE  call \in TaskType /\ call.op = op /\ call.engine = NoEngine
  BY <1>1, <1>5, PlainCall
<1>6. CASE GetClient(t, c)
  <2>1. PICK op \in Ops \cup {"leave"} : op = "get"
    BY DEF Ops
  <2>2. PICK call : call = [Idle EXCEPT !.op = op]
    OBVIOUS
  <2>3. call \in TaskType /\ call.op = op /\ call.engine = NoEngine
    BY <1>5, <2>2
  <2> QED BY <1>4, <1>6, <2>1, <2>2, <2>3 DEF GetClient, Calls
<1>7. CASE Invalidate(t, c)
  <2>1. PICK op \in Ops \cup {"leave"} : op = "invalidate"
    BY DEF Ops
  <2>2. PICK call : call = [Idle EXCEPT !.op = op]
    OBVIOUS
  <2>3. call \in TaskType /\ call.op = op /\ call.engine = NoEngine
    BY <1>5, <2>2
  <2> QED BY <1>4, <1>7, <2>1, <2>2, <2>3 DEF Invalidate, Calls
<1>8. CASE LeaveBlock(t, c)
  <2>1. PICK op \in Ops \cup {"leave"} : op = "leave"
    OBVIOUS
  <2>2. PICK call : call = [Idle EXCEPT !.op = op]
    OBVIOUS
  <2>3. call \in TaskType /\ call.op = op /\ call.engine = NoEngine
    BY <1>5, <2>2
  <2>4. [call EXCEPT !.pc = "waiting", !.conn = c] = [Idle EXCEPT !.pc = "waiting", !.op = "leave", !.conn = c]
    BY <2>1, <2>2 DEF Idle
  <2> QED BY <1>4, <1>8, <2>1, <2>3, <2>4 DEF LeaveBlock
<1>9. CASE Signin(t, c)
  <2>1. PICK op \in {"signin", "bind"}, u \in Users :
          Calls(t, c, [Idle EXCEPT !.op = op, !.who = [user |-> u, of |-> conn[c].database]])
    BY <1>9 DEF Signin
  <2>2. PICK who : who = [user |-> u, of |-> conn[c].database]
    OBVIOUS
  <2>3. conn[c].database \in Databases
    BY <1>1 DEF ConnType
  <2>4. who \in Whos
    BY <2>2, <2>3 DEF Whos
  <2>5. PICK call : call = [Idle EXCEPT !.op = op, !.who = who]
    OBVIOUS
  <2>6. call \in TaskType /\ call.op = op /\ call.engine = NoEngine
    BY <1>1, <2>4, <2>5 DEF TaskType, Ops
  <2>7. task' = [task EXCEPT ![t] = [call EXCEPT !.pc = "waiting", !.conn = c]]
    BY <2>1, <2>2, <2>5 DEF Calls
  <2> QED BY <1>4, <2>6, <2>7
<1>10. CASE Close(t, c)
  <2>1. PICK op \in Ops \cup {"leave"} : op = "close"
    BY DEF Ops
  <2>2. PICK call : call = [Idle EXCEPT !.op = op]
    OBVIOUS
  <2>3. call \in TaskType /\ call.op = op /\ call.engine = NoEngine
    BY <1>5, <2>2
  <2>4. PICK x : x = [call EXCEPT !.pc = "waiting", !.conn = c]
    OBVIOUS
  <2>5. x.pc = "waiting" /\ x.conn = c /\ x.op = "close" /\ x.engine.url = None
    BY <2>1, <2>3, <2>4 DEF TaskType, NoEngine
  <2>6. task' = [task EXCEPT ![t] = x]
    BY <1>10, <2>1, <2>2, <2>4 DEF Close, Calls
  <2>7. \A u \in Tasks : ~(task[u].conn = c /\ task[u].pc = "detaching")
    <3>1. ASSUME NEW u \in Tasks, task[u].conn = c, task[u].pc = "detaching" PROVE FALSE
      <4>1. Stage(conn[c], task[u])
        BY <3>1 DEF SlotInv, Holding
      <4>2. conn[c].slot = EmptySlot
        BY <3>1, <4>1 DEF Stage
      <4> QED BY <1>10, <4>2 DEF Close, EmptySlot
    <3> QED BY <3>1
  <2>8. Allowed(t, x)
    BY <1>10, <2>5, <2>7 DEF Allowed, Close, Whole
  <2>9. Gives(t, x)
    BY <1>3, <2>5, <2>6, <2>8 DEF Gives
  <2> QED BY <1>2, <2>9, PlainCallClaims
<1>11. CASE EnterBlock(t, c)
  <2>1. PICK s \in Blocks : Calls(t, c, [Idle EXCEPT !.op = "enter", !.target = s])
    BY <1>11 DEF EnterBlock
  <2>2. s.url \in Urls /\ s.database \in Databases /\ s = [url |-> s.url, database |-> s.database]
    BY SlotAssumption DEF SlotAssumption, Urls, Databases, Settings
  <2>3. s \in [url : Urls, database : Databases]
    BY <2>2
  <2>4. PICK call : call = [Idle EXCEPT !.op = "enter", !.target = s]
    OBVIOUS
  <2>5. call \in TaskType /\ call.op = "enter" /\ call.target = s /\ call.engine = NoEngine
    BY <1>1, <2>3, <2>4 DEF TaskType, Ops
  <2>6. PICK x : x = [call EXCEPT !.pc = "waiting", !.conn = c]
    OBVIOUS
  <2>7. x.pc = "waiting" /\ x.conn = c /\ x.op = "enter" /\ x.target = s /\ x.engine.url = None
    BY <2>5, <2>6 DEF TaskType, NoEngine
  <2>8. task' = [task EXCEPT ![t] = x] /\ "enter" \in Does[c]
    <3>1. call.op \in Does[c]
      BY <2>1, <2>4 DEF Calls
    <3> QED BY <2>1, <2>4, <2>5, <2>6, <3>1 DEF Calls
  <2>9. Allowed(t, x)
    BY <1>11, <2>7, <2>8 DEF Allowed, EnterBlock
  <2>10. Gives(t, x)
    BY <1>3, <2>7, <2>8, <2>9 DEF Gives
  <2> QED BY <1>2, <2>10, PlainCallClaims
<1> QED BY <1>6, <1>7, <1>8, <1>9, <1>10, <1>11

(* The settings change: what a connection has open is what it had.         *)
LEMMA AccountResettled ==
  ASSUME NEW cn, NEW cn2, NEW tk, NEW held, NEW c, Account(cn, tk, held, c),
         cn2.slot = cn.slot, cn2.block = cn.block, ~cn.block.closed, tk.pc \notin Moving => ~Shared(cn, cn2.url)
  PROVE  Account(cn2, tk, held, c)
<1>1. Engaged(cn2, tk) = Engaged(cn, tk)
  BY DEF Engaged
<1>2. Aside(cn, tk) => Aside(cn2, tk)
  BY DEF Aside, Shared
<1>3. Hand(cn, tk) => Hand(cn2, tk)
  BY DEF Hand, Shared
<1> QED BY <1>1, <1>2, <1>3 DEF Account

(* add_connection() again, where the block's stores allow it.              *)
LEMMA RegisterClaims ==
  ASSUME SlotInv, ClaimsInv, ReturnsApart, NEW c \in Connections, Register(c)
  PROVE  ClaimsInv'
<1>1. PICK s \in Registered :
        conn' = [conn EXCEPT ![c].url = s.url, ![c].database = s.database, ![c].token = NoOne, ![c].generation = @ + 1]
  BY DEF Register
<1>2. conn \in [Connections -> ConnType] /\ conn[c] \in ConnType
  BY DEF SlotInv, TypeOK
<1>3. PICK cn : cn = [conn[c] EXCEPT !.url = s.url, !.database = s.database, !.token = NoOne, !.generation = @ + 1]
  OBVIOUS
<1>4. cn.url = s.url /\ cn.slot = conn[c].slot /\ cn.guard = conn[c].guard /\ cn.block = conn[c].block
  BY <1>2, <1>3 DEF ConnType
<1>5. conn' = [conn EXCEPT ![c] = cn]
  BY <1>1, <1>2, <1>3
<1>6. "register" \in Does[c] /\ ~conn[c].block.closed /\ UNCHANGED claims /\ UNCHANGED task
  BY DEF Register, Whole
<1>7. PICK k, tk : k = conn[c] /\ tk = Holder(c)
  OBVIOUS
<1>8. Account(k, tk, claims, c)
  BY <1>7 DEF ClaimsInv
<1>9. tk.pc \notin Moving => ~Shared(k, s.url)
  <2>1. SUFFICES ASSUME tk.pc \notin Moving, Shared(k, s.url) PROVE FALSE
    OBVIOUS
  <2>2. PICK out : out = k.block.slot.engine.url
    OBVIOUS
  <2>3. OnDisk(s.url) /\ OnDisk(out) /\ KeyOf(s.url) = KeyOf(out)
    BY <2>1, <2>2 DEF Shared, OnDisk
  <2>4. out # None
    BY <2>3, Keys, Constants
  <2>5. k.block # Outside
    BY <2>2, <2>4, OutsideIs
  <2>6. "enter" \in Does[c]
    BY <1>7, <2>5 DEF ClaimsInv, Agreements
  <2>7. \A b \in Blocks : KeyOf(s.url) = KeyOf(b.url)
    BY <1>6, <2>3, <2>6 DEF ReturnsApart
  <2>8. \E b \in Blocks : KeyOf(b.url) # KeyOf(out)
    BY <1>6, <1>7, <1>8, <2>1, <2>2, <2>3 DEF Account, Aside, Moving
  <2> QED BY <2>3, <2>7, <2>8
<1>10. Account(cn, tk, claims, c)
  BY <1>4, <1>6, <1>7, <1>8, <1>9, AccountResettled
<1>11. \A d \in Connections : /\ conn'[d].guard = conn[d].guard /\ conn'[d].block = conn[d].block
                              /\ Account(conn'[d], Holder(d), claims, d)
  <2>1. conn'[c] = cn /\ \A d \in Connections : d # c => conn'[d] = conn[d]
    BY <1>2, <1>5
  <2>2. ASSUME NEW d \in Connections PROVE Account(conn'[d], Holder(d), claims, d)
    <3>1. CASE d = c
      BY <1>7, <1>10, <2>1, <3>1
    <3>2. CASE d # c
      BY <2>1, <3>2 DEF ClaimsInv
    <3> QED BY <3>1, <3>2
  <2> QED BY <1>4, <2>1, <2>2
<1>12. \A u \in Tasks : SameTask(task[u], task'[u])
  BY <1>6 DEF SameTask
<1>13. Accounted
  BY <1>6, <1>11 DEF Accounted
<1> QED BY <1>12, <1>13, SettingsClaims

(* A connection changes, its engines and their claims do not.              *)
LEMMA ConnAccounted ==
  ASSUME SlotInv, ClaimsInv, NEW c \in Connections, NEW cn, conn' = [conn EXCEPT ![c] = cn], UNCHANGED claims,
         cn.guard = conn[c].guard, cn.block = conn[c].block, Account(cn, Holder(c), claims, c)
  PROVE  Accounted
<1>1. conn'[c] = cn /\ \A d \in Connections : d # c => conn'[d] = conn[d]
  BY DEF SlotInv, TypeOK
<1>2. ASSUME NEW d \in Connections PROVE Account(conn'[d], Holder(d), claims, d)
  <2>1. CASE d = c
    BY <1>1, <2>1
  <2>2. CASE d # c
    BY <1>1, <2>2 DEF ClaimsInv
  <2> QED BY <2>1, <2>2
<1> QED BY <1>1, <1>2 DEF Accounted

LEMMA ClearSessionClaims ==
  ASSUME SlotInv, ClaimsInv, NEW c \in Connections, ClearSession(c)
  PROVE  ClaimsInv'
<1>1. conn' = [conn EXCEPT ![c].token = NoOne] /\ UNCHANGED claims /\ UNCHANGED task
  BY DEF ClearSession
<1>2. conn \in [Connections -> ConnType] /\ conn[c] \in ConnType
  BY DEF SlotInv, TypeOK
<1>3. PICK cn : cn = [conn[c] EXCEPT !.token = NoOne]
  OBVIOUS
<1>4. cn.url = conn[c].url /\ cn.slot = conn[c].slot /\ cn.guard = conn[c].guard /\ cn.block = conn[c].block
  BY <1>2, <1>3 DEF ConnType
<1>5. conn' = [conn EXCEPT ![c] = cn]
  BY <1>1, <1>2, <1>3
<1>6. Account(cn, Holder(c), claims, c)
  <2>1. PICK k, tk : k = conn[c] /\ tk = Holder(c)
    OBVIOUS
  <2>2. Account(k, tk, claims, c)
    BY <2>1 DEF ClaimsInv
  <2> QED BY <1>4, <2>1, <2>2, AccountSame
<1>7. Accounted
  BY <1>1, <1>4, <1>5, <1>6, ConnAccounted
<1>8. \A u \in Tasks : SameTask(task[u], task'[u])
  BY <1>1 DEF SameTask
<1> QED BY <1>7, <1>8, SettingsClaims

LEMMA SetDatabaseClaims ==
  ASSUME SlotInv, ClaimsInv, NEW c \in Connections, SetDatabase(c)
  PROVE  ClaimsInv'
<1>1. PICK s \in Registered : conn' = [conn EXCEPT ![c].database = s.database, ![c].token = NoOne]
  BY DEF SetDatabase
<1>2. conn \in [Connections -> ConnType] /\ conn[c] \in ConnType /\ task \in [Tasks -> TaskType] /\ UNCHANGED claims
  BY DEF SlotInv, TypeOK, SetDatabase
<1>3. PICK cn : cn = [conn[c] EXCEPT !.database = s.database, !.token = NoOne]
  OBVIOUS
<1>4. cn.url = conn[c].url /\ cn.slot = conn[c].slot /\ cn.guard = conn[c].guard /\ cn.block = conn[c].block
  BY <1>2, <1>3 DEF ConnType
<1>5. conn' = [conn EXCEPT ![c] = cn]
  BY <1>1, <1>2, <1>3
<1>6. Account(cn, Holder(c), claims, c)
  <2>1. PICK k, tk : k = conn[c] /\ tk = Holder(c)
    OBVIOUS
  <2>2. Account(k, tk, claims, c)
    BY <2>1 DEF ClaimsInv
  <2> QED BY <1>4, <2>1, <2>2, AccountSame
<1>7. Accounted
  BY <1>2, <1>4, <1>5, <1>6, ConnAccounted
<1>8. ASSUME NEW u \in Tasks PROVE SameTask(task[u], task'[u])
  <2>1. task'[u] = [task[u] EXCEPT !.moved = task[u].moved \/ conn[c].guard = u]
    BY DEF SetDatabase
  <2>2. PICK moved : moved = (task[u].moved \/ conn[c].guard = u)
    OBVIOUS
  <2>3. task'[u] = [task[u] EXCEPT !.moved = moved] /\ task[u] \in TaskType
    BY <1>2, <2>1, <2>2
  <2> QED BY <2>3 DEF SameTask, TaskType
<1> QED BY <1>7, <1>8, SettingsClaims

LEMMA RemoveClaims ==
  ASSUME SlotInv, ClaimsInv, NEW t \in Tasks, NEW c \in Connections, Remove(t, c)
  PROVE  ClaimsInv'
<1>1. conn' = [conn EXCEPT ![c].url = None, ![c].database = None, ![c].token = NoOne, ![c].generation = @ + 1]
  BY DEF Remove
<1>2. conn \in [Connections -> ConnType] /\ conn[c] \in ConnType /\ UNCHANGED claims
  BY DEF SlotInv, TypeOK, Remove
<1>3. PICK cn : cn = [conn[c] EXCEPT !.url = None, !.database = None, !.token = NoOne, !.generation = @ + 1]
  OBVIOUS
<1>4. cn.url = None /\ cn.slot = conn[c].slot /\ cn.guard = conn[c].guard /\ cn.block = conn[c].block
  BY <1>2, <1>3 DEF ConnType
<1>5. conn' = [conn EXCEPT ![c] = cn]
  BY <1>1, <1>2, <1>3
<1>6. conn[c].block = Outside /\ \A u \in Tasks : ~(task[u].conn = c /\ task[u].op = "enter")
  BY DEF Remove
<1>7. Account(cn, Holder(c), claims, c)
  <2>1. PICK k, tk : k = conn[c] /\ tk = Holder(c)
    OBVIOUS
  <2>2. Account(k, tk, claims, c) /\ ~k.block.closed
    BY <1>6, <2>1, OutsideIs DEF ClaimsInv
  <2>3. ~Shared(k, cn.url)
    BY <1>4, Keys, Constants DEF Shared
  <2> QED BY <1>4, <2>1, <2>2, <2>3, AccountResettled
<1>8. Accounted
  BY <1>2, <1>4, <1>5, <1>7, ConnAccounted
<1>9. CASE UNCHANGED task
  <2>1. \A u \in Tasks : SameTask(task[u], task'[u])
    BY <1>9 DEF SameTask
  <2> QED BY <1>8, <2>1, SettingsClaims
<1>10. CASE Calls(t, c, [Idle EXCEPT !.op = "remove"])
  <2>1. PICK op \in Ops \cup {"leave"} : op = "remove"
    BY DEF Ops
  <2>2. PICK call : call = [Idle EXCEPT !.op = op]
    OBVIOUS
  <2>3. call \in TaskType /\ call.op = "remove" /\ call.engine = NoEngine
    BY <2>1, <2>2, PlainCall DEF Idle
  <2>4. PICK x : x = [call EXCEPT !.pc = "waiting", !.conn = c]
    OBVIOUS
  <2>5. x.pc = "waiting" /\ x.conn = c /\ x.op = "remove" /\ x.engine.url = None
    BY <2>3, <2>4 DEF TaskType, NoEngine
  <2>6. task' = [task EXCEPT ![t] = x] /\ task[t].pc = "idle"
    BY <1>10, <2>1, <2>2, <2>4 DEF Calls
  <2>7. Allowed(t, x)
    BY <1>6, <2>5 DEF Allowed
  <2>8. Gives(t, x)
    BY <2>5, <2>6, <2>7 DEF Gives
  <2> QED BY <1>8, <2>8, CallClaims
<1> QED BY <1>9, <1>10 DEF Remove

(* A call is cancelled.                                                    *)
LEMMA WaiterGoneClaims ==
  ASSUME SlotInv, ClaimsInv, NEW t \in Tasks, task[t].pc = "waiting", task' = [task EXCEPT ![t] = Idle],
         UNCHANGED <<conn, claims>>
  PROVE  ClaimsInv'
<1>1. PICK x : x = Idle
  OBVIOUS
<1>2. x.pc = "idle" /\ x.op = None /\ x.engine.url = None
  BY <1>1, IdleCall
<1>3. Allowed(t, x)
  BY <1>2 DEF Allowed
<1>4. Gives(t, x)
  BY <1>1, <1>2, <1>3 DEF Gives
<1> QED BY <1>4, PlainCallClaims

LEMMA CancelClaims ==
  ASSUME SlotInv, ClaimsInv, NEW t \in Tasks, Cancel(t)
  PROVE  ClaimsInv'
<1>1. PICK w : w = World(t)
  OBVIOUS
<1>2. SlotInv' /\ Landed(t)
  BY CancelStep
<1>3. CASE /\ task[t].pc = "waiting" /\ task' = [task EXCEPT ![t] = Idle] /\ UNCHANGED <<conn, claims>>
  BY <1>3, WaiterGoneClaims
<1>4. CASE task[t].pc \in {"opening", "replaying"} /\ task[t].phase = "opening" /\ Becomes(t, NotOpened(w))
  <2>1. task[t].pc \in Sessions
    BY <1>4 DEF Sessions, Signing
  <2>2. w \in WorldType /\ w.tk = task[t]
    BY <1>1, <2>1, SessionStage
  <2>3. Proceeding(w, NotOpened(w), w.tk.conn)
    BY <1>4, <2>2, NotOpenedDrops
  <2> QED BY <1>1, <1>2, <1>4, <2>1, <2>2, <2>3, SessionClaims
<1>5. CASE task[t].pc \in {"closing", "connecting"}
           /\ \E e \in {w.cn.slot.engine, Down(w.cn.slot.engine), Fresh(w.cn.slot.engine.url)} :
                Becomes(t, Ends([w EXCEPT !.cn.slot.engine = e]))
  <2>1. task[t].pc \in WayBack
    BY <1>5 DEF WayBack
  <2>2. /\ task[t].pc \in Sessions /\ w \in WorldType /\ w.tk = task[t] /\ w.tk.phase # "opening" /\ w.tk.engine.url = None
        /\ w.cn.slot.engine \in EngineType
    BY <1>1, <2>1, BackStage
  <2>3. PICK e \in {w.cn.slot.engine, Down(w.cn.slot.engine), Fresh(w.cn.slot.engine.url)} :
          Becomes(t, Ends([w EXCEPT !.cn.slot.engine = e]))
    BY <1>5
  <2>4. w.cn.slot.engine.url \in Urls
    BY <2>2 DEF EngineType
  <2>5. e \in EngineType /\ e.url = w.cn.slot.engine.url
    BY <2>2, <2>3, <2>4, DownIs, FreshIs
  <2>6. PICK u : u = [w EXCEPT !.cn.slot.engine = e]
    OBVIOUS
  <2>7. Written(w, u)
    BY <2>2, <2>5, <2>6, EngineWritten
  <2>8. Passes(u, Ends(u))
    BY <2>2, <2>7, WrittenIs, EndsPasses
  <2>9. Passes(w, Ends(u))
    BY <2>7, <2>8, WrittenPasses
  <2> QED BY <1>1, <1>2, <2>2, <2>3, <2>6, <2>9, SessionPasses
<1>6. CASE task[t].pc = "using" /\ \E selects \in {w.cn.slot.engine.selects, w.tk.database} :
                                      Becomes(t, Ends(Runs(w, w.cn.slot.engine.who, selects)))
  <2>1. task[t].pc \in WayBack
    BY <1>6 DEF WayBack
  <2>2. /\ task[t].pc \in Sessions /\ w \in WorldType /\ w.tk = task[t] /\ w.tk.phase # "opening" /\ w.tk.engine.url = None
        /\ w.cn.slot.engine \in EngineType
    BY <1>1, <2>1, BackStage
  <2>3. w.cn.slot.engine.selects \in Databases /\ w.tk.database \in Databases /\ w.cn.slot.engine.who \in Whos
    BY <2>2 DEF EngineType, WorldType, TaskType
  <2>4. PICK selects \in Databases : Becomes(t, Ends(Runs(w, w.cn.slot.engine.who, selects)))
    BY <1>6, <2>3
  <2>5. PICK u : u = Runs(w, w.cn.slot.engine.who, selects)
    OBVIOUS
  <2>6. Written(w, u)
    BY <2>2, <2>3, <2>5, RunsWritten
  <2>7. Passes(u, Ends(u))
    BY <2>2, <2>6, WrittenIs, EndsPasses
  <2>8. Passes(w, Ends(u))
    BY <2>6, <2>7, WrittenPasses
  <2> QED BY <1>1, <1>2, <2>2, <2>4, <2>5, <2>8, SessionPasses
<1>7. CASE task[t].pc = "reading" /\ Becomes(t, Reset(w, "restoring"))
  <2>1. task[t].pc \in Sessions
    BY <1>7 DEF Sessions
  <2>2. w \in WorldType /\ w.tk = task[t] /\ Stage(w.cn, w.tk) /\ (w.tk.phase # "opening" => w.tk.engine.url = None)
    BY <1>1, <2>1, SessionStage
  <2>3. w.tk.phase = "own"
    BY <1>7, <2>2 DEF Stage, Owns
  <2>4. Passes(w, Reset(w, "restoring"))
    BY <2>2, <2>3, ResetPasses DEF Phases
  <2> QED BY <1>1, <1>2, <1>7, <2>1, <2>2, <2>3, <2>4, SessionPasses
<1>8. \/ task[t].pc = "waiting" /\ task' = [task EXCEPT ![t] = Idle] /\ UNCHANGED <<conn, claims>>
      \/ task[t].pc \in {"opening", "replaying"} /\ task[t].phase = "opening" /\ Becomes(t, NotOpened(w))
      \/ /\ task[t].pc \in {"closing", "connecting"}
         /\ \E e \in {w.cn.slot.engine, Down(w.cn.slot.engine), Fresh(w.cn.slot.engine.url)} :
              Becomes(t, Ends([w EXCEPT !.cn.slot.engine = e]))
      \/ /\ task[t].pc = "using"
         /\ \E selects \in {w.cn.slot.engine.selects, w.tk.database} :
              Becomes(t, Ends(Runs(w, w.cn.slot.engine.who, selects)))
      \/ task[t].pc = "reading" /\ Becomes(t, Reset(w, "restoring"))
  BY <1>1 DEF Cancel
<1> QED BY <1>3, <1>4, <1>5, <1>6, <1>7, <1>8

(* Whether the session was adopted is not of the engines.                  *)
LEMMA BoundWritten ==
  ASSUME NEW w \in WorldType, NEW is \in BOOLEAN, NEW u, u = WithBound(w, is)
  PROVE  Written(w, u)
<1>1. w.cn \in ConnType /\ w.cn.slot \in SlotType
  BY DEF WorldType, ConnType
<1>2. PICK s : s = [w.cn.slot EXCEPT !.bound = is]
  OBVIOUS
<1>3. s \in SlotType /\ s.engine = w.cn.slot.engine
  BY <1>1, <1>2 DEF SlotType
<1>4. u = WithSlot(w, s)
  BY <1>1, <1>2 DEF WithBound, WithSlot
<1> QED BY <1>3, <1>4, SlotWritten

(* An exchange is cancelled.                                               *)
LEMMA CutShortClaims ==
  ASSUME NoneAnswered, SlotInv, ClaimsInv, NEW t \in Tasks, CutShort(t)
  PROVE  ClaimsInv'
<1>1. task[t].pc \in Signing /\ task[t].phase # "opening"
  BY DEF CutShort, Signing
<1>2. PICK w : w = World(t)
  OBVIOUS
<1>3. /\ task[t].pc \in Sessions /\ w \in WorldType /\ w.tk = task[t] /\ w.tk.engine.url = None
      /\ w.tk.phase = "own" => w.tk.op \in {"signin", "bind"}
  BY <1>1, <1>2, SigningStage
<1>4. SlotInv' /\ Landed(t)
  BY CutShortStep
<1>5. ASSUME NEW u, Written(w, u) PROVE Passes(w, GivesUp(u))
  <2>1. u \in WorldType /\ u.tk.phase = w.tk.phase /\ u.tk.op = w.tk.op /\ u.tk.engine.url = None
    BY <1>3, <1>5, WrittenIs
  <2>2. Passes(u, Reset(u, "restoring")) /\ Passes(u, Ends(u))
    BY <2>1, ResetPasses, EndsPasses DEF Phases
  <2>3. GivesUp(u) \in {Reset(u, "restoring"), Ends(u)}
    BY <1>3, <2>1 DEF GivesUp, Refused
  <2> QED BY <1>5, <2>2, <2>3, WrittenPasses
<1>6. Written(w, w)
  BY <1>3 DEF Written, SameEngines, SameBlock
<1>7. Written(w, Defines(w, FALSE))
  BY <1>3, DefinesWritten
<1>8. Written(w, Replaced(w))
  <2>1. PICK who : who = IF w.tk.phase = "own" THEN w.tk.who ELSE w.tk.replays
    OBVIOUS
  <2>2. who \in Whos /\ who.of \in Databases
    BY <1>3, <2>1 DEF WorldType, TaskType, Whos
  <2>3. PICK r : r = Runs(w, who, who.of)
    OBVIOUS
  <2>4. Written(w, r) /\ r \in WorldType
    BY <1>3, <2>2, <2>3, RunsWritten, WrittenIs
  <2>5. PICK is \in BOOLEAN : is = (w.tk.phase = "own" /\ w.tk.op = "bind")
    OBVIOUS
  <2>6. PICK u : u = WithBound(r, is)
    OBVIOUS
  <2>7. Written(w, u)
    BY <2>4, <2>6, BoundWritten, WrittenTwice
  <2>8. Replaced(w) = u
    BY <2>1, <2>3, <2>5, <2>6 DEF Replaced, WithBound
  <2> QED BY <2>7, <2>8
<1>9. PICK v : Becomes(t, v) /\ v \in {GivesUp(w), GivesUp(Defines(w, FALSE)), GivesUp(Replaced(w))}
  BY <1>2 DEF CutShort
<1>10. Passes(w, v)
  BY <1>5, <1>6, <1>7, <1>8, <1>9
<1> QED BY <1>1, <1>2, <1>3, <1>4, <1>9, <1>10, SessionPasses

-----------------------------------------------------------------------------
LEMMA InitClaims == Init => ClaimsInv
<1> SUFFICES ASSUME Init PROVE ClaimsInv
  OBVIOUS
<1>1. \A t \in Tasks : task[t] = Idle
  BY DEF Init
<1>2. Idle.engine.url = None /\ Idle.op = None /\ Resting(Idle)
  BY IdleRests DEF Idle
<1>3. ASSUME NEW c \in Connections
      PROVE  conn[c].guard = None /\ conn[c].slot = EmptySlot /\ conn[c].block = Outside
  BY DEF Init
<1>4. ASSUME NEW c \in Connections PROVE Account(conn[c], Holder(c), claims, c)
  <2>1. Holder(c) = Idle
    BY <1>3 DEF Holder
  <2>2. PICK cn : cn = conn[c]
    OBVIOUS
  <2>3. cn.slot.engine.url = None /\ cn.block.slot.engine.url = None
    BY <1>3, <2>2, OutsideIs DEF EmptySlot, NoEngine
  <2>4. Aside(cn, Idle)
    BY <1>3, <2>2, OutsideAside
  <2>5. Hand(cn, Idle)
    BY <1>2 DEF Hand, Resting, Carries, Moving
  <2>6. ASSUME NEW s \in Stores PROVE claims[s] # c /\ s \notin Engaged(cn, Idle)
    <3>1. claims[s] = None /\ c # None
      BY SlotAssumption DEF Init, SlotAssumption
    <3>2. s # KeyOf(None)
      BY Keys, Constants
    <3> QED BY <1>2, <2>3, <3>1, <3>2 DEF Engaged
  <2>7. Account(cn, Idle, claims, c)
    BY <2>4, <2>5, <2>6 DEF Account
  <2> QED BY <2>1, <2>2, <2>7
<1>5. Agreements
  BY <1>1, <1>2, <1>3 DEF Agreements, Agreed
<1> QED BY <1>1, <1>2, <1>4, <1>5 DEF ClaimsInv

LEMMA NextClaims ==
  ASSUME ReturnsApart, NoneAnswered, SlotInv, ClaimsInv, [Next]_vars
  PROVE  ClaimsInv'
<1>1. CASE UNCHANGED vars
  <2>1. UNCHANGED <<conn, claims>> /\ UNCHANGED task
    BY <1>1 DEF vars
  <2>2. \A u \in Tasks : SameTask(task[u], task'[u])
    BY <2>1 DEF SameTask
  <2>3. ASSUME NEW d \in Connections PROVE Account(conn'[d], Holder(d), claims, d)
    <3>1. conn'[d] = conn[d]
      BY <2>1
    <3>2. Account(conn[d], Holder(d), claims, d)
      BY DEF ClaimsInv
    <3> QED BY <3>1, <3>2
  <2>4. Accounted
    BY <2>1, <2>3 DEF Accounted
  <2> QED BY <2>2, <2>4, SettingsClaims
<1>2. ASSUME NEW t \in Tasks, Proceeds(t) PROVE ClaimsInv'
  BY <1>2, AcquireClaims, ForgottenClaims, OpenedClaims, RemovedClaims, ClosedClaims, ConnectedClaims,
     InvalidatedClaims, UsedClaims, DefinedClaims, ExchangedClaims, ReadClaims, RefusedClaims,
     DetachedClaims, DiscardedClaims, ReattachedClaims, BlockEndsClaims DEF Proceeds
<1>3. ASSUME NEW t \in Tasks, Cancel(t) \/ CutShort(t) PROVE ClaimsInv'
  BY <1>3, CancelClaims, CutShortClaims
<1>4. CASE Program
  BY <1>4, CallsClaims, RemoveClaims, RegisterClaims, SetDatabaseClaims, ClearSessionClaims DEF Program
<1> QED BY <1>1, <1>2, <1>3, <1>4 DEF Next

(* The engines of a connection are those of the slot, of the block and in  *)
(* the hand of whoever holds the guard.                                    *)
LEMMA EnginesIs ==
  ASSUME SlotInv, ClaimsInv, NEW c \in Connections, NEW s \in Stores
  PROVE  (\E e \in Engines(c) : KeyOf(e.url) = s) <=> s \in Engaged(conn[c], Holder(c))
<1>1. s # KeyOf(None)
  BY Keys, Constants
<1>2. ASSUME NEW e \in Engines(c), KeyOf(e.url) = s PROVE s \in Engaged(conn[c], Holder(c))
  <2>1. CASE e \in {conn[c].slot.engine, conn[c].block.slot.engine}
    BY <1>2, <2>1 DEF Engaged
  <2>2. CASE \E t \in Tasks : task[t].conn = c /\ e = task[t].engine
    <3>1. PICK t \in Tasks : task[t].conn = c /\ e = task[t].engine
      BY <2>2
    <3>2. task[t].pc \in Holding
      BY <1>1, <1>2, <3>1 DEF ClaimsInv
    <3>3. Holder(c) = task[t]
      BY <3>1, <3>2, HolderIs
    <3> QED BY <1>2, <3>1, <3>3 DEF Engaged
  <2> QED BY <1>2, <2>1, <2>2 DEF Engines
<1>3. ASSUME s \in Engaged(conn[c], Holder(c)) PROVE \E e \in Engines(c) : KeyOf(e.url) = s
  <2>1. CASE s = KeyOf(conn[c].slot.engine.url) \/ s = KeyOf(conn[c].block.slot.engine.url)
    BY <2>1 DEF Engines
  <2>2. CASE s = KeyOf(Holder(c).engine.url)
    <3>1. conn[c].guard # None
      BY <1>1, <2>2, IdleRests DEF Holder
    <3>2. PICK t \in Tasks : conn[c].guard = t
      BY <3>1 DEF SlotInv, TypeOK, ConnType
    <3>3. task[t].conn = c /\ Holder(c) = task[t]
      BY <3>1, <3>2 DEF SlotInv, GuardHeld, Holder
    <3> QED BY <2>2, <3>3 DEF Engines
  <2> QED BY <1>3, <2>1, <2>2 DEF Engaged
<1> QED BY <1>2, <1>3

(* A store is claimed for as long as the connection has an engine on it,   *)
(* opening, open, put aside by a block or being closed, and no longer: no  *)
(* two connections have one open, and none is refused a store nobody has   *)
(* (_claim_store(), _release_store(), _reclaim_store()).  The program is   *)
(* one that does not register a connection, inside a block, on the store   *)
(* of the engine which that block put aside, and no exchange is cancelled  *)
(* once it was answered.                                                   *)
THEOREM StoresClaimedExactly ==
  ASSUME ReturnsApart, NoneAnswered
  PROVE  Spec => []ClaimsExact
<1>1. Init => ClaimsInv
  BY InitClaims
<1>2. SlotInv /\ ClaimsInv /\ [Next]_vars => ClaimsInv'
  BY NextClaims
<1>3. SlotInv /\ ClaimsInv => ClaimsExact
  <2> SUFFICES ASSUME SlotInv, ClaimsInv, NEW s \in Stores, NEW c \in Connections
               PROVE  LET on == {e \in Engines(c) : KeyOf(e.url) = s} IN
                      /\ on \ {e \in {conn[c].block.slot.engine} : ~e.up} # {} => claims[s] = c
                      /\ claims[s] = c => on # {}
    BY DEF ClaimsExact
  <2>1. PICK cn, tk : cn = conn[c] /\ tk = Holder(c)
    OBVIOUS
  <2>2. Account(cn, tk, claims, c)
    BY <2>1 DEF ClaimsInv
  <2>3. claims[s] = c <=> s \in Engaged(cn, tk)
    BY <2>2 DEF Account
  <2>4. claims[s] = c <=> \E e \in Engines(c) : KeyOf(e.url) = s
    BY <2>1, <2>3, EnginesIs
  <2> QED BY <2>4
<1> QED BY <1>1, <1>2, <1>3, SlotInvariant, PTL DEF Spec
=============================================================================
