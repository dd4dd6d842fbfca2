------------------------- MODULE EmbeddedSlotProofs -------------------------
(***************************************************************************)
(* The slot of an embedded engine is what it says, and serves the settings *)
(* of now, for every value of the constants.  The invariant has two sides: *)
(* the slot of a guard that is free (FreeOK), and at each await under the  *)
(* guard what the call that holds it knows of slot and settings (Stage).   *)
(* A segment runs from one await to the next; what every segment leaves    *)
(* is proved once (Post), for a world with one task, and each action is    *)
(* the segments it may run.                                                *)
(***************************************************************************)
EXTENDS EmbeddedSlot, TLAPS

-----------------------------------------------------------------------------
(***************************************************************************)
(* Types                                                                   *)
(***************************************************************************)
Settings  == Registered \cup Blocks \cup {First[c] : c \in Connections}
Urls      == DOMAIN StoreOf \cup {None}
Databases == {s.database : s \in Settings} \cup {None}
Whos      == [user : Users \cup {None, "owner", "anonymous"}, of : Databases]

EngineType == [url : Urls, up : BOOLEAN, selects : Databases, who : Whos, user : BOOLEAN]
SlotType   == [engine : EngineType, selected : Databases, owner : BOOLEAN, user : BOOLEAN, bound : BOOLEAN]
BlockType  == [by : Tasks \cup {None}, closed : BOOLEAN, url : Urls, database : Databases, token : Whos,
               slot : SlotType]
ConnType   == [url : Urls, database : Databases, generation : Nat, token : Whos, slot : SlotType,
               guard : Tasks \cup {None}, block : BlockType]

(* Where a task waits while it holds the guard: the slot emptied, its      *)
(* session on the way back to the owner, signing in, a block ending.       *)
WayBack == {"removing", "closing", "connecting", "invalidating", "owning", "dropping", "using"}
Signing == {"defining", "replaying", "exchanging", "undoing"}
Holding == {"forgetting", "replacing", "detaching", "opening", "reading", "discarding", "reattaching", "ending"}
             \cup WayBack \cup Signing

Gets   == {"get", "signin", "bind", "invalidate"}
Phases == {None, "opening", "resetting", "restoring", "own"}

TaskType ==
  [pc : Holding \cup {"idle", "waiting"}, op : Ops \cup {"leave", None}, conn : Connections \cup {None},
   phase : Phases, engine : EngineType, claimed : BOOLEAN, database : Databases, who : Whos, replays : Whos,
   was : BOOLEAN, generation : Nat, moved : BOOLEAN, target : [url : Urls, database : Databases]]

ClaimsType == [Stores -> Connections \cup {None}]
WorldType  == [me : Tasks, tk : TaskType, cn : ConnType, claims : ClaimsType]

TypeOK ==
  /\ conn \in [Connections -> ConnType]
  /\ claims \in ClaimsType
  /\ task \in [Tasks -> TaskType]

-----------------------------------------------------------------------------
(***************************************************************************)
(* The invariant                                                           *)
(***************************************************************************)
(* What a slot says of its engine, between any two awaits.                 *)
SlotOK(s) ==
  LET e == s.engine IN
  e # NoEngine =>
    /\ e.url # None
    /\ ~e.up => e = Down(e)
    /\ s.selected # None => e.up /\ e.selects = s.selected /\ (e.who = Owner \/ e.who.of = s.selected)
    /\ s.owner => e.who = Owner
    /\ ~s.owner /\ KeyOf(e.url) = Memory => e.user
    /\ s.user = e.user
    /\ e.user => KeyOf(e.url) = Memory
    /\ s.bound => ~s.owner

(* Nobody holds the guard: no client of a bind that failed is handed out.  *)
FreeOK(s) == SlotOK(s) /\ (s.bound => s.selected = None)

(* A connection's settings and token belong together, inside a block and   *)
(* outside; what the block put aside is whole, or let go and down.         *)
ConnOK(cn) ==
  /\ (cn.url # None) <=> (cn.database # None)
  /\ cn.token # NoOne => cn.token.of = cn.database
  /\ (cn.block.url # None) <=> (cn.block.database # None)
  /\ cn.block.token # NoOne => cn.block.token.of = cn.block.database
  /\ ~cn.block.closed => FreeOK(cn.block.slot)
  /\ cn.block.closed =>
       /\ cn.block.slot = [EmptySlot EXCEPT !.engine = Down(cn.block.slot.engine)]
       /\ cn.block.slot.engine.url # None

(* The slot as it will be once the engine being opened is in it.           *)
SessionSlot(cn, tk) == IF tk.phase = "opening" THEN [cn.slot EXCEPT !.engine = tk.engine] ELSE cn.slot

(* A session is being opened, selected again or restored.                  *)
Phased(cn, tk) ==
  LET ss == SessionSlot(cn, tk) IN
  /\ ss.engine # NoEngine /\ cn.slot.selected = None
  /\ tk.phase = "opening" => cn.slot.engine = NoEngine /\ ~cn.slot.bound
  /\ tk.database # None
  /\ cn.token # NoOne => cn.database = tk.database /\ (tk.phase = "opening" => cn.url = tk.engine.url)
  /\ tk.op \in {"signin", "bind"} => cn.database = tk.database
  /\ tk.phase \in {"opening", "resetting"} =>
       /\ tk.op \in Gets /\ tk.generation <= cn.generation
       /\ tk.generation = cn.generation =>
            ss.engine.url = cn.url /\ (cn.database = tk.database \/ tk.moved)
  /\ tk.phase = "restoring" => tk.op = "bind"

(* The session is on the way back to the owner.                            *)
Returning(cn, tk) ==
  /\ SlotOK(cn.slot) /\ cn.slot.engine # NoEngine /\ cn.slot.selected = None
  /\ \/ tk.phase \in {"resetting", "restoring"} /\ Phased(cn, tk)
     \/ tk.phase = "own" /\ tk.op = "invalidate"

(* The call has the session of the settings, and acts on it.               *)
Owns(cn, tk) ==
  /\ tk.phase = "own" /\ tk.op \in {"signin", "bind"}
  /\ cn.slot.engine # NoEngine /\ cn.slot.selected = cn.database

(* What whoever holds the guard knows, at each await.                      *)
StageBack(cn, tk) ==
  tk.pc \in WayBack =>
    /\ Returning(cn, tk)
    /\ tk.pc \in {"removing", "dropping", "using"} => cn.slot.owner
    /\ tk.pc \in {"closing", "connecting"} => ~cn.slot.owner /\ OnDisk(cn.slot.engine.url)
    /\ tk.pc \in {"invalidating", "owning"} => ~cn.slot.owner /\ KeyOf(cn.slot.engine.url) = Memory
    /\ tk.pc = "using" => tk.database # None

StageSigning(cn, tk) ==
  LET ss == SessionSlot(cn, tk) IN
  tk.pc \in Signing =>
    /\ SlotOK(ss) /\ ~cn.slot.bound /\ tk.was = cn.slot.owner
    /\ \/ /\ tk.phase \in {"opening", "resetting", "restoring"} /\ tk.pc # "exchanging"
          /\ Phased(cn, tk) /\ cn.slot.owner /\ ss.engine.selects = tk.database
       \/ Owns(cn, tk) /\ tk.pc # "replaying"
    /\ tk.pc = "defining" => cn.slot.owner /\ ~cn.slot.user /\ KeyOf(ss.engine.url) = Memory
    /\ tk.pc = "undoing" => cn.slot.owner
    /\ tk.pc \in {"replaying", "exchanging"} /\ KeyOf(ss.engine.url) = Memory => cn.slot.user
    /\ tk.pc = "replaying" => tk.replays.of = tk.database

Stage(cn, tk) ==
  /\ tk.pc = "opening" =>
       tk.phase = "opening" /\ cn.slot = EmptySlot /\ tk.engine = Down(tk.engine) /\ Phased(cn, tk)
  /\ tk.pc \in {"forgetting", "replacing", "detaching"} => cn.slot = EmptySlot
  /\ tk.pc = "replacing" => tk.op \in Gets /\ tk.generation <= cn.generation
  /\ tk.pc = "detaching" => tk.op = "enter" /\ ~cn.block.closed /\ cn.block.slot.engine.url # None
  /\ StageBack(cn, tk)
  /\ StageSigning(cn, tk)
  /\ tk.pc = "reading" => tk.op = "bind" /\ Owns(cn, tk) /\ SlotOK(cn.slot)
  /\ tk.pc \in {"discarding", "reattaching"} => tk.op = "leave" /\ cn.block.closed
  /\ tk.pc = "ending" => FreeOK(cn.slot) /\ tk.op = "leave"

(* One task at a time is past the guard, and holds it.                     *)
GuardHeld ==
  /\ \A t \in Tasks : task[t].pc \in Holding => conn[task[t].conn].guard = t
  /\ \A c \in Connections, t \in Tasks : conn[c].guard = t => task[t].conn = c /\ task[t].pc \in Holding

(* What a call was made with; a sign-in keeps the settings as they were.   *)
CallKnown(t) ==
  /\ (task[t].pc = "idle") <=> (task[t] = Idle)
  /\ task[t].pc # "idle" => task[t].conn \in Connections
  /\ task[t].op \in {"signin", "bind"} =>
       task[t].who.of = conn[task[t].conn].database /\ conn[task[t].conn].url # None
  /\ task[t].op = "enter" => task[t].target.url # None /\ task[t].target.database # None
  /\ task[t].pc = "detaching" => Settled(task[t].conn)

SlotInv ==
  /\ TypeOK
  /\ GuardHeld
  /\ \A t \in Tasks : CallKnown(t)
  /\ \A c \in Connections : ConnOK(conn[c]) /\ (conn[c].guard = None => FreeOK(conn[c].slot))
  /\ \A t \in Tasks : task[t].pc \in Holding => Stage(conn[task[t].conn], task[t])

-----------------------------------------------------------------------------
(***************************************************************************)
(* Facts of the definitions                                                *)
(***************************************************************************)
USE DEF Memory, None

LEMMA Constants ==
  /\ None \in Databases /\ None \in Urls
  /\ NoOne \in Whos /\ Owner \in Whos /\ Anonymous \in Whos
  /\ NoEngine \in EngineType
  /\ EmptySlot \in SlotType
  /\ Outside \in BlockType
  /\ Idle \in TaskType
<1>1. None \in Databases /\ None \in Urls
  BY DEF Databases, Urls
<1>2. NoOne \in Whos /\ Owner \in Whos /\ Anonymous \in Whos
  BY <1>1 DEF Whos, NoOne, Owner, Anonymous
<1>3. NoEngine \in EngineType
  BY <1>1, <1>2 DEF EngineType, NoEngine
<1>4. EmptySlot \in SlotType
  BY <1>1, <1>3 DEF SlotType, EmptySlot
<1>5. Outside \in BlockType
  BY <1>1, <1>2, <1>4 DEF BlockType, Outside
<1>6. Idle \in TaskType
  BY <1>1, <1>2, <1>3 DEF TaskType, Idle, Holding, Phases
<1> QED BY <1>1, <1>2, <1>3, <1>4, <1>5, <1>6

(* A closed engine, and one that was just opened.                          *)
LEMMA DownIs ==
  ASSUME NEW e \in EngineType
  PROVE  /\ Down(e) \in EngineType /\ Down(e).url = e.url /\ Down(e).up = FALSE /\ Down(e).who = NoOne
         /\ Down(e).user = FALSE /\ Down(e).selects = None
         /\ Down(Down(e)) = Down(e)
<1>1. e.url \in Urls /\ NoEngine \in EngineType
  BY Constants DEF EngineType
<1>2. PICK d : d = [NoEngine EXCEPT !.url = e.url]
  OBVIOUS
<1>3. d \in EngineType /\ d.url = e.url
  BY <1>1, <1>2 DEF EngineType
<1>4. d.up = FALSE /\ d.who = NoOne /\ d.user = FALSE /\ d.selects = None
  BY <1>1, <1>2 DEF EngineType, NoEngine
<1>5. [NoEngine EXCEPT !.url = d.url] = d
  BY <1>2, <1>3
<1> QED BY <1>2, <1>3, <1>4, <1>5 DEF Down

LEMMA FreshIs ==
  ASSUME NEW url \in Urls
  PROVE  /\ Fresh(url) \in EngineType /\ Fresh(url).url = url /\ Fresh(url).up = TRUE
         /\ Fresh(url).who = Owner /\ Fresh(url).user = FALSE /\ Fresh(url).selects = None
BY Constants DEF Fresh, EngineType, NoEngine

-----------------------------------------------------------------------------
(***************************************************************************)
(* What a segment leaves                                                   *)
(***************************************************************************)
(* A task that holds the guard of its connection.                          *)
Sound(w) == w \in WorldType /\ w.cn.guard = w.me /\ ConnOK(w.cn)

(* Either the call is over and the guard free, or the task waits again and *)
(* holds it.                                                               *)
Lands(w, v) ==
  /\ v \in WorldType /\ v.me = w.me /\ ConnOK(v.cn)
  /\ \/ v.tk = Idle /\ v.cn.guard = None /\ FreeOK(v.cn.slot)
     \/ /\ v.cn.guard = w.me /\ v.tk.pc \in Holding
        /\ v.tk.op = w.tk.op /\ v.tk.conn = w.tk.conn /\ v.tk.who = w.tk.who
        /\ Stage(v.cn, v.tk)

Keeps(w, v) == v.cn.url = w.cn.url /\ v.cn.database = w.cn.database

(* A get_client() that is over leaves a slot it may serve from.            *)
Served(cn, moved) ==
  \/ cn.slot.engine = NoEngine
  \/ cn.slot.selected = None
  \/ cn.slot.engine.url = cn.url /\ (cn.slot.selected = cn.database \/ moved)

Serving(w, v) == w.tk.op = "get" /\ v.tk = Idle => Served(v.cn, w.tk.moved)

Post(w, v) == Lands(w, v) /\ Keeps(w, v) /\ Serving(w, v)

(* The call, as far as it does not change between two awaits.              *)
SameCall(w, u) ==
  /\ u.me = w.me /\ Keeps(w, u)
  /\ u.tk.op = w.tk.op /\ u.tk.conn = w.tk.conn /\ u.tk.who = w.tk.who /\ u.tk.moved = w.tk.moved

LEMMA PostFrom ==
  ASSUME NEW w, NEW u, NEW v, SameCall(w, u), Post(u, v)
  PROVE  Post(w, v)
BY DEF SameCall, Post, Lands, Keeps, Serving

(* Where a task waits does not matter to what its session is.              *)
LEMMA SamePhase ==
  ASSUME NEW cn, NEW tk, NEW tk2,
         tk2.phase = tk.phase, tk2.engine = tk.engine, tk2.database = tk.database, tk2.op = tk.op,
         tk2.generation = tk.generation, tk2.moved = tk.moved
  PROVE  /\ SessionSlot(cn, tk2) = SessionSlot(cn, tk)
         /\ Phased(cn, tk) => Phased(cn, tk2)
         /\ Returning(cn, tk) => Returning(cn, tk2)
         /\ Owns(cn, tk) => Owns(cn, tk2)
<1>1. SessionSlot(cn, tk2) = SessionSlot(cn, tk)
  BY DEF SessionSlot
<1>2. Phased(cn, tk) => Phased(cn, tk2)
  BY <1>1 DEF Phased
<1>3. Returning(cn, tk) => Returning(cn, tk2)
  BY <1>2 DEF Returning
<1>4. Owns(cn, tk) => Owns(cn, tk2)
  BY DEF Owns
<1> QED BY <1>1, <1>2, <1>3, <1>4

LEMMA EndsPost ==
  ASSUME NEW w, Sound(w), FreeOK(w.cn.slot), w.tk.op = "get" => Served(w.cn, w.tk.moved)
  PROVE  Post(w, Ends(w))
<1> DEFINE v == Ends(w)
<1>1. w \in WorldType /\ w.cn \in ConnType
  BY DEF Sound, WorldType
<1>2. v \in WorldType /\ v.me = w.me /\ v.tk = Idle /\ v.cn = [w.cn EXCEPT !.guard = None]
  BY <1>1, Constants DEF Ends, WorldType, ConnType
<1> HIDE DEF v
<1>3. /\ v.cn.guard = None /\ v.cn.url = w.cn.url /\ v.cn.database = w.cn.database
      /\ v.cn.token = w.cn.token /\ v.cn.slot = w.cn.slot /\ v.cn.block = w.cn.block
  BY <1>1, <1>2 DEF ConnType
<1>4. ConnOK(v.cn)
  BY <1>3 DEF Sound, ConnOK
<1>5. Served(w.cn, w.tk.moved) => Served(v.cn, w.tk.moved)
  BY <1>3 DEF Served
<1>6. Post(w, v)
  BY <1>2, <1>3, <1>4, <1>5 DEF Post, Lands, Keeps, Serving
<1> QED BY <1>6 DEF v

(* A task waits at `pc': the stage it has then.                            *)
Staged(w, pc) == Stage(w.cn, [w.tk EXCEPT !.pc = pc])

LEMMA AtPost ==
  ASSUME NEW w, Sound(w), NEW pc \in Holding, Staged(w, pc)
  PROVE  Post(w, At(w, pc))
<1> DEFINE v == At(w, pc)
<1>1. w \in WorldType /\ w.tk \in TaskType
  BY DEF Sound, WorldType
<1>2. v.me = w.me /\ v.cn = w.cn /\ v.tk = [w.tk EXCEPT !.pc = pc]
  BY <1>1 DEF At, WorldType
<1>3. v \in WorldType
  BY <1>1 DEF At, WorldType, TaskType
<1> HIDE DEF v
<1>4. v.tk.pc = pc /\ v.tk.op = w.tk.op /\ v.tk.conn = w.tk.conn /\ v.tk.who = w.tk.who
  BY <1>1, <1>2 DEF TaskType
<1>5. v.tk # Idle
  BY <1>4 DEF Idle, Holding, WayBack, Signing
<1>6. Stage(v.cn, v.tk)
  BY <1>2 DEF Staged
<1>7. Post(w, v)
  BY <1>2, <1>3, <1>4, <1>5, <1>6 DEF Sound, Post, Lands, Keeps, Serving
<1> QED BY <1>7 DEF v

(* The fields of a task that waits elsewhere.                              *)
LEMMA Elsewhere ==
  ASSUME NEW tk \in TaskType, NEW pc \in Holding
  PROVE  LET u == [tk EXCEPT !.pc = pc] IN
         /\ u \in TaskType /\ u.pc = pc
         /\ u.phase = tk.phase /\ u.engine = tk.engine /\ u.database = tk.database /\ u.op = tk.op
         /\ u.generation = tk.generation /\ u.moved = tk.moved /\ u.was = tk.was /\ u.replays = tk.replays
BY DEF TaskType

(* The stages, one kind at a time.                                         *)
LEMMA StagedBack ==
  ASSUME NEW w \in WorldType, NEW pc \in WayBack, Returning(w.cn, w.tk),
         pc \in {"removing", "dropping", "using"} => w.cn.slot.owner,
         pc \in {"closing", "connecting"} => ~w.cn.slot.owner /\ OnDisk(w.cn.slot.engine.url),
         pc \in {"invalidating", "owning"} => ~w.cn.slot.owner /\ KeyOf(w.cn.slot.engine.url) = Memory,
         pc = "using" => w.tk.database # None
  PROVE  Staged(w, pc)
<1> DEFINE u == [w.tk EXCEPT !.pc = pc]
<1>1. w.tk \in TaskType /\ pc \in Holding
  BY DEF WorldType, Holding
<1>2. /\ u.pc = pc /\ u.phase = w.tk.phase /\ u.engine = w.tk.engine /\ u.database = w.tk.database
      /\ u.op = w.tk.op /\ u.generation = w.tk.generation /\ u.moved = w.tk.moved
  BY <1>1, Elsewhere
<1> HIDE DEF u
<1>3. Returning(w.cn, u)
  BY <1>2, SamePhase
<1>4. StageBack(w.cn, u)
  BY <1>2, <1>3 DEF StageBack
<1>5. StageSigning(w.cn, u)
  BY <1>2 DEF StageSigning, WayBack, Signing
<1>6. Stage(w.cn, u)
  BY <1>2, <1>4, <1>5 DEF Stage, WayBack
<1> QED BY <1>6 DEF u, Staged

LEMMA StagedSigning ==
  ASSUME NEW w \in WorldType, NEW pc \in Signing,
         SlotOK(SessionSlot(w.cn, w.tk)), ~w.cn.slot.bound, w.tk.was = w.cn.slot.owner,
         \/ /\ w.tk.phase \in {"opening", "resetting", "restoring"} /\ pc # "exchanging"
            /\ Phased(w.cn, w.tk) /\ w.cn.slot.owner
            /\ SessionSlot(w.cn, w.tk).engine.selects = w.tk.database
         \/ Owns(w.cn, w.tk) /\ pc # "replaying",
         pc = "defining" => w.cn.slot.owner /\ ~w.cn.slot.user /\ KeyOf(SessionSlot(w.cn, w.tk).engine.url) = Memory,
         pc = "undoing" => w.cn.slot.owner,
         pc \in {"replaying", "exchanging"} /\ KeyOf(SessionSlot(w.cn, w.tk).engine.url) = Memory => w.cn.slot.user,
         pc = "replaying" => w.tk.replays.of = w.tk.database
  PROVE  Staged(w, pc)
<1> DEFINE u == [w.tk EXCEPT !.pc = pc]
<1>1. w.tk \in TaskType /\ pc \in Holding
  BY DEF WorldType, Holding
<1>2. /\ u.pc = pc /\ u.phase = w.tk.phase /\ u.engine = w.tk.engine /\ u.database = w.tk.database
      /\ u.op = w.tk.op /\ u.generation = w.tk.generation /\ u.moved = w.tk.moved
      /\ u.was = w.tk.was /\ u.replays = w.tk.replays
  BY <1>1, Elsewhere
<1> HIDE DEF u
<1>3. /\ SessionSlot(w.cn, u) = SessionSlot(w.cn, w.tk)
      /\ Phased(w.cn, w.tk) => Phased(w.cn, u)
      /\ Owns(w.cn, w.tk) => Owns(w.cn, u)
  BY <1>2, SamePhase
<1>4. StageSigning(w.cn, u)
  BY <1>2, <1>3 DEF StageSigning
<1>5. StageBack(w.cn, u)
  BY <1>2 DEF StageBack, WayBack, Signing
<1>6. Stage(w.cn, u)
  BY <1>2, <1>4, <1>5 DEF Stage, Signing
<1> QED BY <1>6 DEF u, Staged

(* A slot without a selection is as good for nobody as for the holder.     *)
LEMMA Unselected ==
  ASSUME NEW s, SlotOK(s), s.selected = None
  PROVE  FreeOK(s)
BY DEF FreeOK

LEMMA EmptyIsFree == FreeOK(EmptySlot) /\ EmptySlot.engine = NoEngine /\ EmptySlot.selected = None /\ EmptySlot.owner /\ ~EmptySlot.user
BY DEF FreeOK, SlotOK, EmptySlot

-----------------------------------------------------------------------------
(***************************************************************************)
(* The way to the owner                                                    *)
(***************************************************************************)
(* _forget_embedded(): what waits has an empty slot.                       *)
LEMMA ForgetPost ==
  ASSUME NEW w, Sound(w), NEW pc \in {"forgetting", "replacing"},
         pc = "replacing" => w.tk.op \in Gets /\ w.tk.generation <= w.cn.generation
  PROVE  Post(w, Forget(w, pc))
<1> DEFINE v == Forget(w, pc)
           d == [Down(w.cn.slot.engine) EXCEPT !.up = w.cn.slot.engine.up]
<1>1. w \in WorldType /\ w.tk \in TaskType /\ w.cn \in ConnType /\ pc \in Holding
  BY DEF Sound, WorldType, Holding
<1>2. w.cn.slot.engine \in EngineType
  BY <1>1 DEF ConnType, SlotType
<1>3. d \in EngineType
  BY <1>2, DownIs DEF EngineType
<1> HIDE DEF d
<1>4. v.me = w.me /\ v.cn = [w.cn EXCEPT !.slot = EmptySlot] /\ v.tk = [w.tk EXCEPT !.engine = d, !.pc = pc]
  BY <1>1 DEF Forget, WorldType, d
<1>5. v \in WorldType
  BY <1>1, <1>3, Constants DEF Forget, WorldType, TaskType, ConnType, d
<1> HIDE DEF v
<1>6. /\ v.tk.pc = pc /\ v.tk.op = w.tk.op /\ v.tk.conn = w.tk.conn /\ v.tk.who = w.tk.who
      /\ v.tk.generation = w.tk.generation
  BY <1>1, <1>4 DEF TaskType
<1>7. /\ v.cn.slot = EmptySlot /\ v.cn.url = w.cn.url /\ v.cn.database = w.cn.database
      /\ v.cn.generation = w.cn.generation /\ v.cn.token = w.cn.token /\ v.cn.guard = w.cn.guard
      /\ v.cn.block = w.cn.block
  BY <1>1, <1>4 DEF ConnType
<1>8. ConnOK(v.cn)
  BY <1>7 DEF Sound, ConnOK
<1>9. Stage(v.cn, v.tk)
  BY <1>6, <1>7 DEF Stage, StageBack, StageSigning, WayBack, Signing
<1>10. v.tk # Idle
  BY <1>6 DEF Idle
<1>11. Post(w, v)
  BY <1>1, <1>4, <1>5, <1>6, <1>7, <1>8, <1>9, <1>10 DEF Sound, Post, Lands, Keeps, Serving
<1> QED BY <1>11 DEF v

(* The settings changed meanwhile: the slot is stale, or emptied.          *)
LEMMA RetiredPost ==
  ASSUME NEW w, Sound(w), SlotOK(w.cn.slot)
  PROVE  Post(w, Retired(w))
<1>1. CASE w.cn.slot.engine.url # w.cn.url
  BY <1>1, ForgetPost DEF Retired
<1>2. CASE w.cn.slot.engine.url = w.cn.url
  <2> DEFINE u == [w EXCEPT !.cn.slot.selected = None]
  <2>1. w \in WorldType /\ w.cn \in ConnType /\ w.cn.slot \in SlotType
    BY DEF Sound, WorldType, ConnType
  <2>2. u \in WorldType
    BY <2>1, Constants DEF WorldType, ConnType, SlotType
  <2>3. /\ u.me = w.me /\ u.tk = w.tk /\ u.cn.url = w.cn.url /\ u.cn.database = w.cn.database
        /\ u.cn.token = w.cn.token /\ u.cn.guard = w.cn.guard /\ u.cn.block = w.cn.block
        /\ u.cn.slot = [w.cn.slot EXCEPT !.selected = None]
    BY <2>1 DEF WorldType, ConnType
  <2> HIDE DEF u
  <2>4. Sound(u)
    BY <2>2, <2>3 DEF Sound, ConnOK
  <2>5. /\ u.cn.slot.selected = None /\ u.cn.slot.engine = w.cn.slot.engine /\ u.cn.slot.owner = w.cn.slot.owner
        /\ u.cn.slot.user = w.cn.slot.user /\ u.cn.slot.bound = w.cn.slot.bound
    BY <2>1, <2>3 DEF SlotType
  <2>6. FreeOK(u.cn.slot) /\ Served(u.cn, u.tk.moved)
    BY <2>5 DEF FreeOK, SlotOK, Served
  <2>7. Post(u, Ends(u))
    BY <2>4, <2>6, EndsPost
  <2>8. SameCall(w, u)
    BY <2>3 DEF SameCall, Keeps
  <2>9. Retired(w) = Ends(u)
    BY <1>2 DEF Retired, u
  <2> QED BY <2>7, <2>8, <2>9, PostFrom
<1> QED BY <1>1, <1>2

LEMMA RaisesPost ==
  ASSUME NEW w, Sound(w), FreeOK(w.cn.slot),
         w.tk.op = "get" /\ w.tk.generation = w.cn.generation => Served(w.cn, w.tk.moved)
  PROVE  Post(w, Raises(w))
<1>1. CASE w.cn.generation = w.tk.generation
  BY <1>1, EndsPost DEF Raises
<1>2. CASE w.cn.generation # w.tk.generation
  BY <1>2, RetiredPost DEF Raises, FreeOK
<1> QED BY <1>1, <1>2

(* A step of the way back, or of the replay, failed.                       *)
LEMMA FailsPost ==
  ASSUME NEW w, Sound(w), FreeOK(w.cn.slot), w.tk.op = "get" => Served(w.cn, w.tk.moved)
  PROVE  Post(w, Fails(w))
BY RaisesPost, EndsPost DEF Fails

(* The session runs as its owner, and is given the settings' database.     *)
LEMMA SelectPost ==
  ASSUME NEW w, Sound(w), Returning(w.cn, w.tk), w.cn.slot.owner
  PROVE  Post(w, Select(w))
<1>1. w \in WorldType /\ w.cn \in ConnType /\ w.tk \in TaskType
  BY DEF Sound, WorldType
<1>2. CASE w.tk.phase = "own"
  <2> DEFINE u == [w EXCEPT !.cn.token = NoOne, !.tk.database = w.cn.database]
  <2>1. u \in WorldType
    BY <1>1, Constants DEF WorldType, ConnType, TaskType
  <2>2. /\ u.me = w.me /\ u.cn.url = w.cn.url /\ u.cn.database = w.cn.database
        /\ u.cn.token = NoOne /\ u.cn.guard = w.cn.guard /\ u.cn.block = w.cn.block /\ u.cn.slot = w.cn.slot
    BY <1>1 DEF WorldType, ConnType
  <2>3. /\ u.tk.op = w.tk.op /\ u.tk.conn = w.tk.conn /\ u.tk.who = w.tk.who /\ u.tk.moved = w.tk.moved
        /\ u.tk.phase = w.tk.phase /\ u.tk.database = w.cn.database
    BY <1>1 DEF WorldType, TaskType
  <2> HIDE DEF u
  <2>4. Sound(u)
    BY <2>1, <2>2 DEF Sound, ConnOK
  <2>5. Returning(u.cn, u.tk) /\ w.tk.op = "invalidate"
    BY <1>2, <2>2, <2>3 DEF Returning
  <2>6. SameCall(w, u)
    BY <2>2, <2>3 DEF SameCall, Keeps
  <2>7. CASE w.cn.database = None
    <3>1. Post(u, Ends(u))
      BY <2>2, <2>3, <2>4, <2>5, EndsPost, Unselected DEF Returning
    <3>2. Select(w) = Ends(u)
      BY <1>2, <2>7 DEF Select, u
    <3> QED BY <2>6, <3>1, <3>2, PostFrom
  <2>8. CASE w.cn.database # None
    <3>1. Staged(u, "using")
      BY <2>1, <2>2, <2>3, <2>5, <2>8, StagedBack DEF WayBack
    <3>2. Post(u, At(u, "using"))
      BY <2>4, <3>1, AtPost DEF Holding, WayBack
    <3>3. Select(w) = At(u, "using")
      BY <1>2, <2>8 DEF Select, u
    <3> QED BY <2>6, <3>2, <3>3, PostFrom
  <2> QED BY <2>7, <2>8
<1>3. CASE w.tk.phase # "own"
  <2>1. w.tk.database # None
    BY <1>3 DEF Returning, Phased
  <2>2. Staged(w, "using")
    BY <1>1, <2>1, StagedBack DEF WayBack
  <2>3. Post(w, At(w, "using"))
    BY <2>2, AtPost DEF Holding, WayBack
  <2> QED BY <1>3, <2>3 DEF Select
<1> QED BY <1>2, <1>3

(* A URL opens a store or is in memory.                                    *)
LEMMA DiskOrMemory ==
  ASSUME NEW url \in Urls, url # None
  PROVE  OnDisk(url) <=> KeyOf(url) # Memory
BY SlotAssumption DEF Urls, OnDisk, KeyOf, SlotAssumption

LEMMA BackPost ==
  ASSUME NEW w, Sound(w), Returning(w.cn, w.tk)
  PROVE  Post(w, BackToOwner(w))
<1>1. w \in WorldType /\ w.cn.slot.engine.url \in Urls
  BY DEF Sound, WorldType, ConnType, SlotType, EngineType
<1>2. CASE w.cn.slot.owner /\ w.cn.slot.user
  <2>1. Staged(w, "removing")
    BY <1>1, <1>2, StagedBack DEF WayBack
  <2> QED BY <1>2, <2>1, AtPost DEF BackToOwner, Holding, WayBack
<1>3. CASE w.cn.slot.owner /\ ~w.cn.slot.user
  BY <1>3, SelectPost DEF BackToOwner
<1>4. CASE ~w.cn.slot.owner
  <2>1. w.cn.slot.engine.url # None
    BY DEF Returning, SlotOK
  <2>2. CASE OnDisk(w.cn.slot.engine.url)
    <3>1. Staged(w, "closing")
      BY <1>1, <1>4, <2>2, StagedBack DEF WayBack
    <3> QED BY <1>4, <2>2, <3>1, AtPost DEF BackToOwner, Holding, WayBack
  <2>3. CASE ~OnDisk(w.cn.slot.engine.url)
    <3>1. KeyOf(w.cn.slot.engine.url) = Memory
      BY <1>1, <2>1, <2>3, DiskOrMemory
    <3>2. Staged(w, "invalidating")
      BY <1>1, <1>4, <3>1, StagedBack DEF WayBack
    <3> QED BY <1>4, <2>3, <3>2, AtPost DEF BackToOwner, Holding, WayBack
  <2> QED BY <2>2, <2>3
<1> QED BY <1>2, <1>3, <1>4

(* _reset_embedded_session(): to the settings' database, from a reset or a *)
(* bind that failed.                                                       *)
LEMMA ResetPost ==
  ASSUME NEW w, Sound(w), SlotOK(w.cn.slot), w.cn.slot.engine # NoEngine, w.cn.database # None,
         NEW phase,
         \/ /\ phase = "resetting" /\ w.tk.op \in Gets /\ w.cn.slot.engine.url = w.cn.url
            /\ w.tk.generation = w.cn.generation
         \/ phase = "restoring" /\ w.tk.op = "bind"
  PROVE  Post(w, Reset(w, phase))
<1> DEFINE u == [w EXCEPT !.tk.phase = phase, !.tk.database = w.cn.database, !.cn.slot.selected = None]
<1>1. w \in WorldType /\ w.cn \in ConnType /\ w.tk \in TaskType /\ w.cn.slot \in SlotType
  BY DEF Sound, WorldType, ConnType
<1>2. u \in WorldType
  BY <1>1, Constants DEF WorldType, ConnType, TaskType, SlotType, Phases
<1>3. /\ u.me = w.me /\ u.cn.url = w.cn.url /\ u.cn.database = w.cn.database
      /\ u.cn.generation = w.cn.generation
      /\ u.cn.token = w.cn.token /\ u.cn.guard = w.cn.guard /\ u.cn.block = w.cn.block
  BY <1>1 DEF WorldType, ConnType
<1>4. /\ u.cn.slot.selected = None /\ u.cn.slot.engine = w.cn.slot.engine /\ u.cn.slot.owner = w.cn.slot.owner
      /\ u.cn.slot.user = w.cn.slot.user /\ u.cn.slot.bound = w.cn.slot.bound
  BY <1>1 DEF WorldType, ConnType, SlotType
<1>5. /\ u.tk.op = w.tk.op /\ u.tk.conn = w.tk.conn /\ u.tk.who = w.tk.who /\ u.tk.moved = w.tk.moved
      /\ u.tk.phase = phase /\ u.tk.database = w.cn.database /\ u.tk.generation = w.tk.generation
  BY <1>1 DEF WorldType, TaskType
<1> HIDE DEF u
<1>6. Sound(u)
  BY <1>2, <1>3 DEF Sound, ConnOK
<1>7. SlotOK(u.cn.slot)
  BY <1>4 DEF SlotOK
<1>8. w.cn.generation \in Nat /\ (phase = "resetting" => w.tk.generation <= w.cn.generation)
  BY <1>1 DEF ConnType
<1>9. w.cn.token # NoOne => w.cn.token.of = w.cn.database
  BY DEF Sound, ConnOK
<1>10. Phased(u.cn, u.tk)
  BY <1>3, <1>4, <1>5, <1>8 DEF Phased, SessionSlot
<1>11. Returning(u.cn, u.tk)
  BY <1>4, <1>5, <1>7, <1>10 DEF Returning
<1>12. Post(u, BackToOwner(u))
  BY <1>6, <1>11, BackPost
<1>13. SameCall(w, u)
  BY <1>3, <1>5 DEF SameCall, Keeps
<1>14. Reset(w, phase) = BackToOwner(u)
  BY DEF Reset, u
<1> QED BY <1>12, <1>13, <1>14, PostFrom

-----------------------------------------------------------------------------
(***************************************************************************)
(* The session of the settings                                             *)
(***************************************************************************)
(* All that is left is to write the selection into the slot.               *)
Ready(w) ==
  LET ss == SessionSlot(w.cn, w.tk) IN
  /\ w.tk.phase \in {"opening", "resetting", "restoring"}
  /\ Phased(w.cn, w.tk) /\ SlotOK(ss) /\ ~w.cn.slot.bound
  /\ ss.engine.selects = w.tk.database
  /\ ss.engine.who = Owner \/ ss.engine.who.of = w.tk.database

LEMMA PublishedIs ==
  ASSUME NEW w, Sound(w), Ready(w), NEW v, v = Published(w)
  PROVE  /\ Sound(v) /\ SameCall(w, v)
         /\ v.tk.phase = w.tk.phase /\ v.tk.generation = w.tk.generation /\ v.cn.generation = w.cn.generation
         /\ v.cn.token = w.cn.token
         /\ FreeOK(v.cn.slot) /\ ~v.cn.slot.bound
         /\ v.cn.slot.engine = SessionSlot(w.cn, w.tk).engine /\ v.cn.slot.engine # NoEngine
         /\ v.cn.slot.selected = w.tk.database
         /\ v.cn.slot.owner = w.cn.slot.owner /\ v.cn.slot.user = w.cn.slot.user
<1> DEFINE ss == SessionSlot(w.cn, w.tk)
<1>1. w \in WorldType /\ w.cn \in ConnType /\ w.tk \in TaskType /\ w.cn.slot \in SlotType
  BY DEF Sound, WorldType, ConnType
<1>2. w.tk.engine \in EngineType /\ w.tk.database \in Databases
  BY <1>1 DEF TaskType
<1>3. v \in WorldType
  BY <1>1, <1>2, Constants DEF Published, WorldType, ConnType, TaskType, SlotType
<1>4. /\ v.me = w.me /\ v.cn.url = w.cn.url /\ v.cn.database = w.cn.database
      /\ v.cn.generation = w.cn.generation
      /\ v.cn.token = w.cn.token /\ v.cn.guard = w.cn.guard /\ v.cn.block = w.cn.block
  BY <1>1 DEF Published, WorldType, ConnType
<1>5. /\ v.cn.slot.selected = w.tk.database /\ v.cn.slot.owner = w.cn.slot.owner
      /\ v.cn.slot.user = w.cn.slot.user /\ v.cn.slot.bound = w.cn.slot.bound
  BY <1>1 DEF Published, WorldType, ConnType, SlotType
<1>6. /\ v.tk.op = w.tk.op /\ v.tk.conn = w.tk.conn /\ v.tk.who = w.tk.who /\ v.tk.moved = w.tk.moved
      /\ v.tk.phase = w.tk.phase /\ v.tk.generation = w.tk.generation
  BY <1>1 DEF Published, WorldType, TaskType
<1>7. /\ ss.engine = IF w.tk.phase = "opening" THEN w.tk.engine ELSE w.cn.slot.engine
      /\ ss.owner = w.cn.slot.owner /\ ss.user = w.cn.slot.user /\ ss.bound = w.cn.slot.bound
      /\ ss.selected = w.cn.slot.selected
  BY <1>1 DEF SessionSlot, SlotType
<1>8. v.cn.slot.engine = IF w.tk.phase = "opening" THEN w.tk.engine ELSE w.cn.slot.engine
  BY <1>1 DEF Published, WorldType, ConnType, SlotType
<1>9. Sound(v)
  BY <1>3, <1>4 DEF Sound, ConnOK
<1>10. SameCall(w, v)
  BY <1>4, <1>6 DEF SameCall, Keeps
<1>11. ss.engine # NoEngine /\ w.tk.database # None /\ SlotOK(ss) /\ ~ss.bound
  BY <1>7 DEF Ready, Phased
<1>12. ss.engine.selects = w.tk.database /\ (ss.engine.who = Owner \/ ss.engine.who.of = w.tk.database)
  BY DEF Ready
<1> HIDE DEF ss
<1>13. ss.engine.up
  <2>1. ss.engine \in EngineType
    BY <1>1, <1>2, <1>7 DEF SlotType
  <2>2. Down(ss.engine).selects = None
    BY <2>1, DownIs
  <2> QED BY <2>2, <1>11, <1>12 DEF SlotOK
<1>14. v.cn.slot.engine = ss.engine
  BY <1>7, <1>8
<1>15. SlotOK(v.cn.slot)
  BY <1>5, <1>7, <1>11, <1>12, <1>13, <1>14 DEF SlotOK
<1>16. FreeOK(v.cn.slot) /\ ~v.cn.slot.bound
  BY <1>5, <1>7, <1>11, <1>15 DEF FreeOK
<1> QED BY <1>4, <1>5, <1>6, <1>9, <1>10, <1>11, <1>14, <1>16 DEF ss

(* The settings did not change meanwhile: the selection is theirs.         *)
LEMMA PublishedServes ==
  ASSUME NEW w, Sound(w), Ready(w), NEW v, v = Published(w),
         w.tk.phase \in {"opening", "resetting"}
  PROVE  /\ w.tk.op \in Gets
         /\ w.tk.generation = w.cn.generation => Served(v.cn, v.tk.moved)
         /\ w.tk.op \in {"signin", "bind"} => v.cn.slot.selected = v.cn.database
<1>1. Phased(w.cn, w.tk)
  BY DEF Ready
<1>2. /\ v.cn.slot.selected = w.tk.database /\ v.cn.url = w.cn.url /\ v.cn.database = w.cn.database
      /\ v.tk.moved = w.tk.moved
      /\ v.cn.slot.engine = SessionSlot(w.cn, w.tk).engine
  BY PublishedIs DEF SameCall, Keeps
<1>3. w.tk.generation = w.cn.generation =>
        SessionSlot(w.cn, w.tk).engine.url = w.cn.url /\ (w.cn.database = w.tk.database \/ w.tk.moved)
  BY <1>1 DEF Phased
<1> QED BY <1>1, <1>2, <1>3 DEF Phased, Served

(* _held_embedded_client() has the slot's client.                          *)
LEMMA ServesPost ==
  ASSUME NEW w, Sound(w), w.tk.op \in Gets, FreeOK(w.cn.slot), w.cn.slot.engine # NoEngine, ~w.cn.slot.bound,
         w.tk.op = "get" => Served(w.cn, w.tk.moved),
         w.tk.op \in {"signin", "bind"} => w.cn.slot.selected = w.cn.database
  PROVE  Post(w, Serves(w))
<1>1. w \in WorldType /\ w.cn \in ConnType /\ w.tk \in TaskType /\ w.cn.slot \in SlotType
  BY DEF Sound, WorldType, ConnType
<1>2. CASE w.tk.op = "get"
  BY <1>2, EndsPost DEF Serves
<1>3. CASE w.tk.op \in {"signin", "bind"}
  <2> DEFINE u == [w EXCEPT !.tk.phase = "own", !.tk.was = w.cn.slot.owner, !.tk.generation = 0,
                            !.tk.replays = NoOne]
  <2>1. w.cn.slot.owner \in BOOLEAN
    BY <1>1 DEF SlotType
  <2>2. u \in WorldType
    BY <1>1, <2>1, Constants DEF WorldType, TaskType, Phases
  <2>3. u.me = w.me /\ u.cn = w.cn
    BY <1>1 DEF WorldType
  <2>4. /\ u.tk.op = w.tk.op /\ u.tk.conn = w.tk.conn /\ u.tk.who = w.tk.who /\ u.tk.moved = w.tk.moved
        /\ u.tk.phase = "own" /\ u.tk.was = w.cn.slot.owner
    BY <1>1 DEF WorldType, TaskType
  <2> HIDE DEF u
  <2>5. Sound(u) /\ SameCall(w, u)
    BY <2>2, <2>3, <2>4 DEF Sound, SameCall, Keeps
  <2>6. SessionSlot(u.cn, u.tk) = w.cn.slot
    BY <2>3, <2>4 DEF SessionSlot
  <2>7. SlotOK(w.cn.slot)
    BY DEF FreeOK
  <2>8. Owns(u.cn, u.tk)
    BY <1>3, <2>3, <2>4 DEF Owns
  <2>9. NeedsUser(w) <=> w.cn.slot.owner /\ ~w.cn.slot.user /\ KeyOf(w.cn.slot.engine.url) = Memory
    BY DEF NeedsUser, SlotUrl
  <2>10. CASE NeedsUser(w)
    <3>1. Staged(u, "defining")
      BY <2>2, <2>3, <2>4, <2>6, <2>7, <2>8, <2>9, <2>10, StagedSigning DEF Signing
    <3>2. Post(u, At(u, "defining"))
      BY <2>5, <3>1, AtPost DEF Holding, Signing
    <3>3. Serves(w) = At(u, "defining")
      BY <1>3, <2>10 DEF Serves, u
    <3> QED BY <2>5, <3>2, <3>3, PostFrom
  <2>11. CASE ~NeedsUser(w)
    <3>1. KeyOf(w.cn.slot.engine.url) = Memory => w.cn.slot.user
      BY <2>7, <2>9, <2>11 DEF SlotOK
    <3>2. Staged(u, "exchanging")
      BY <2>2, <2>3, <2>4, <2>6, <2>7, <2>8, <3>1, StagedSigning DEF Signing
    <3>3. Post(u, At(u, "exchanging"))
      BY <2>5, <3>2, AtPost DEF Holding, Signing
    <3>4. Serves(w) = At(u, "exchanging")
      BY <1>3, <2>11 DEF Serves, u
    <3> QED BY <2>5, <3>3, <3>4, PostFrom
  <2> QED BY <2>10, <2>11
<1>4. CASE w.tk.op = "invalidate"
  <2> DEFINE u == [w EXCEPT !.tk.phase = "own", !.cn.slot.selected = None, !.tk.generation = 0]
  <2>1. u \in WorldType
    BY <1>1, Constants DEF WorldType, ConnType, TaskType, SlotType, Phases
  <2>2. /\ u.me = w.me /\ u.cn.url = w.cn.url /\ u.cn.database = w.cn.database
        /\ u.cn.token = w.cn.token /\ u.cn.guard = w.cn.guard /\ u.cn.block = w.cn.block
    BY <1>1 DEF WorldType, ConnType
  <2>3. /\ u.cn.slot.selected = None /\ u.cn.slot.engine = w.cn.slot.engine /\ u.cn.slot.owner = w.cn.slot.owner
        /\ u.cn.slot.user = w.cn.slot.user /\ u.cn.slot.bound = w.cn.slot.bound
    BY <1>1 DEF WorldType, ConnType, SlotType
  <2>4. /\ u.tk.op = w.tk.op /\ u.tk.conn = w.tk.conn /\ u.tk.who = w.tk.who /\ u.tk.moved = w.tk.moved
        /\ u.tk.phase = "own"
    BY <1>1 DEF WorldType, TaskType
  <2> HIDE DEF u
  <2>5. Sound(u) /\ SameCall(w, u)
    BY <2>1, <2>2, <2>4 DEF Sound, ConnOK, SameCall, Keeps
  <2>6. SlotOK(u.cn.slot)
    BY <2>3 DEF FreeOK, SlotOK
  <2>7. Returning(u.cn, u.tk)
    BY <1>4, <2>3, <2>4, <2>6 DEF Returning
  <2>8. Post(u, BackToOwner(u))
    BY <2>5, <2>7, BackPost
  <2>9. Serves(w) = BackToOwner(u)
    BY <1>4 DEF Serves, u
  <2> QED BY <2>5, <2>8, <2>9, PostFrom
<1> QED BY <1>2, <1>3, <1>4 DEF Gets

(* The stored session was replayed, or there is none.                      *)
LEMMA ReplayedPost ==
  ASSUME NEW w, Sound(w), Ready(w)
  PROVE  Post(w, Replayed(w))
<1> DEFINE v == Published(w)
<1>1. /\ Sound(v) /\ SameCall(w, v) /\ FreeOK(v.cn.slot) /\ ~v.cn.slot.bound /\ v.cn.slot.engine # NoEngine
      /\ v.tk.op = w.tk.op
  BY PublishedIs DEF SameCall
<1>2. CASE w.tk.phase = "restoring"
  <2>1. w.tk.op = "bind"
    BY <1>2 DEF Ready, Phased
  <2>2. Post(v, Ends(v))
    BY <1>1, <2>1, EndsPost
  <2> QED BY <1>1, <1>2, <2>2, PostFrom DEF Replayed
<1>3. CASE w.tk.phase \in {"opening", "resetting"}
  <2>1. /\ w.tk.op \in Gets
        /\ w.tk.generation = w.cn.generation => Served(v.cn, v.tk.moved)
        /\ w.tk.op \in {"signin", "bind"} => v.cn.slot.selected = v.cn.database
    BY <1>3, PublishedServes
  <2> HIDE DEF v
  <2>2. CASE w.cn.generation = w.tk.generation
    <3>1. Post(v, Serves(v))
      BY <1>1, <2>1, <2>2, ServesPost
    <3>2. Replayed(w) = Serves(v)
      BY <1>3, <2>2 DEF Replayed, v
    <3> QED BY <1>1, <3>1, <3>2, PostFrom
  <2>3. CASE w.cn.generation # w.tk.generation
    <3>1. Post(v, Retired(v))
      BY <1>1, RetiredPost DEF FreeOK
    <3>2. Replayed(w) = Retired(v)
      BY <1>3, <2>3 DEF Replayed, v
    <3> QED BY <1>1, <3>1, <3>2, PostFrom
  <2> QED BY <2>2, <2>3
<1> QED BY <1>2, <1>3 DEF Ready

(* A stored token is exchanged again, or there is none.                    *)
LEMMA ReplaySendsPost ==
  ASSUME NEW w, Sound(w), Ready(w), w.cn.slot.owner, w.tk.was = w.cn.slot.owner,
         KeyOf(SessionSlot(w.cn, w.tk).engine.url) = Memory => w.cn.slot.user
  PROVE  Post(w, ReplaySends(w))
<1>1. w \in WorldType /\ w.cn \in ConnType /\ w.tk \in TaskType /\ w.cn.slot \in SlotType
  BY DEF Sound, WorldType, ConnType
<1>2. Phased(w.cn, w.tk)
  BY DEF Ready
<1>3. CASE w.cn.token = NoOne
  <2> DEFINE u == [w EXCEPT !.cn.slot.owner = FALSE]
  <2>1. u \in WorldType
    BY <1>1 DEF WorldType, ConnType, SlotType
  <2>2. /\ u.me = w.me /\ u.tk = w.tk /\ u.cn.url = w.cn.url /\ u.cn.database = w.cn.database
        /\ u.cn.generation = w.cn.generation
        /\ u.cn.token = w.cn.token /\ u.cn.guard = w.cn.guard /\ u.cn.block = w.cn.block
    BY <1>1 DEF WorldType, ConnType
  <2>3. /\ u.cn.slot.selected = w.cn.slot.selected /\ u.cn.slot.engine = w.cn.slot.engine
        /\ u.cn.slot.owner = FALSE
        /\ u.cn.slot.user = w.cn.slot.user /\ u.cn.slot.bound = w.cn.slot.bound
    BY <1>1 DEF WorldType, ConnType, SlotType
  <2>4. u.cn.slot \in SlotType
    BY <2>1 DEF WorldType, ConnType
  <2> HIDE DEF u
  <2> DEFINE ss == SessionSlot(w.cn, w.tk)
             us == SessionSlot(u.cn, u.tk)
  <2>5. /\ ss.engine = IF w.tk.phase = "opening" THEN w.tk.engine ELSE w.cn.slot.engine
        /\ ss.owner = w.cn.slot.owner /\ ss.user = w.cn.slot.user /\ ss.bound = w.cn.slot.bound
        /\ ss.selected = w.cn.slot.selected
    BY <1>1 DEF SessionSlot, SlotType
  <2>6. /\ us.engine = ss.engine /\ us.owner = FALSE /\ us.user = ss.user /\ us.bound = ss.bound
        /\ us.selected = ss.selected
    BY <2>2, <2>3, <2>4, <2>5 DEF SessionSlot, SlotType
  <2>7. SlotOK(ss) /\ ~ss.bound
    BY <2>5 DEF Ready
  <2>8. KeyOf(ss.engine.url) = Memory => ss.user
    BY <2>5
  <2> HIDE DEF ss
  <2> HIDE DEF us
  <2>9. SlotOK(us)
    BY <2>6, <2>7, <2>8 DEF SlotOK
  <2>10. Phased(u.cn, u.tk)
    BY <1>2, <2>2, <2>3, <2>6 DEF Phased, ss, us
  <2>11. Ready(u)
    BY <2>2, <2>3, <2>6, <2>9, <2>10 DEF Ready, ss, us
  <2>12. Sound(u) /\ SameCall(w, u)
    BY <2>1, <2>2 DEF Sound, ConnOK, SameCall, Keeps
  <2>13. Post(u, Replayed(u))
    BY <2>11, <2>12, ReplayedPost
  <2>14. ReplaySends(w) = Replayed(u)
    BY <1>3 DEF ReplaySends, u
  <2> QED BY <2>12, <2>13, <2>14, PostFrom
<1>4. CASE w.cn.token # NoOne
  <2> DEFINE u == [w EXCEPT !.tk.replays = w.cn.token]
  <2>1. u \in WorldType
    BY <1>1 DEF WorldType, TaskType, ConnType
  <2>2. u.me = w.me /\ u.cn = w.cn
    BY <1>1 DEF WorldType
  <2>3. /\ u.tk.op = w.tk.op /\ u.tk.conn = w.tk.conn /\ u.tk.who = w.tk.who /\ u.tk.moved = w.tk.moved
        /\ u.tk.phase = w.tk.phase /\ u.tk.engine = w.tk.engine /\ u.tk.database = w.tk.database
        /\ u.tk.generation = w.tk.generation /\ u.tk.was = w.tk.was /\ u.tk.replays = w.cn.token
    BY <1>1 DEF WorldType, TaskType
  <2> HIDE DEF u
  <2>4. Sound(u) /\ SameCall(w, u)
    BY <2>1, <2>2, <2>3 DEF Sound, SameCall, Keeps
  <2>5. SessionSlot(u.cn, u.tk) = SessionSlot(w.cn, w.tk) /\ Phased(u.cn, u.tk)
    BY <1>2, <2>2, <2>3, SamePhase
  <2>6. u.tk.replays.of = u.tk.database
    BY <1>2, <1>4, <2>3 DEF Sound, ConnOK, Phased
  <2>7. Staged(u, "replaying")
    BY <2>1, <2>2, <2>3, <2>5, <2>6, StagedSigning DEF Signing, Ready
  <2>8. Post(u, At(u, "replaying"))
    BY <2>4, <2>7, AtPost DEF Holding, Signing
  <2>9. ReplaySends(w) = At(u, "replaying")
    BY <1>4 DEF ReplaySends, u
  <2> QED BY <2>4, <2>8, <2>9, PostFrom
<1> QED BY <1>3, <1>4

(* The in-memory engine of the replay is the settings' own.                *)
LEMMA ReplayPost ==
  ASSUME NEW w, Sound(w), Ready(w), w.cn.slot.owner
  PROVE  Post(w, Replay(w))
<1>1. w \in WorldType /\ w.cn \in ConnType /\ w.tk \in TaskType /\ w.cn.slot \in SlotType
  BY DEF Sound, WorldType, ConnType
<1>2. CASE w.cn.token = NoOne
  BY <1>2, ReplayedPost DEF Replay
<1>3. CASE w.cn.token # NoOne
  <2> DEFINE u == [w EXCEPT !.tk.was = w.cn.slot.owner]
             ss == SessionSlot(w.cn, w.tk)
  <2>1. w.cn.slot.owner \in BOOLEAN
    BY <1>1 DEF SlotType
  <2>2. u \in WorldType
    BY <1>1, <2>1 DEF WorldType, TaskType
  <2>3. u.me = w.me /\ u.cn = w.cn
    BY <1>1 DEF WorldType
  <2>4. /\ u.tk.op = w.tk.op /\ u.tk.conn = w.tk.conn /\ u.tk.who = w.tk.who /\ u.tk.moved = w.tk.moved
        /\ u.tk.phase = w.tk.phase /\ u.tk.engine = w.tk.engine /\ u.tk.database = w.tk.database
        /\ u.tk.generation = w.tk.generation /\ u.tk.was = w.cn.slot.owner
    BY <1>1 DEF WorldType, TaskType
  <2> HIDE DEF u
  <2>5. Sound(u) /\ SameCall(w, u)
    BY <2>2, <2>3, <2>4 DEF Sound, SameCall, Keeps
  <2>6. SessionSlot(u.cn, u.tk) = ss /\ (Phased(w.cn, w.tk) => Phased(u.cn, u.tk))
    BY <2>3, <2>4, SamePhase
  <2>7. Ready(u)
    BY <2>3, <2>4, <2>6 DEF Ready
  <2>8. ss.engine = IF w.tk.phase = "opening" THEN w.tk.engine ELSE w.cn.slot.engine
    BY <1>1 DEF SessionSlot, SlotType
  <2>9. Phased(w.cn, w.tk) /\ SlotOK(ss)
    BY DEF Ready
  <2> HIDE DEF ss
  <2>10. SlotUrl(w) = ss.engine.url
    BY <1>3, <2>8, <2>9 DEF SlotUrl, Phased, ss
  <2>11. CASE NeedsUser(w)
    <3>1. ~w.cn.slot.user /\ KeyOf(ss.engine.url) = Memory
      BY <2>10, <2>11 DEF NeedsUser
    <3>2. Staged(u, "defining")
      BY <2>2, <2>3, <2>4, <2>6, <2>7, <3>1, StagedSigning DEF Signing, Ready
    <3>3. Post(u, At(u, "defining"))
      BY <2>5, <3>2, AtPost DEF Holding, Signing
    <3>4. Replay(w) = At(u, "defining")
      BY <1>3, <2>11 DEF Replay, u
    <3> QED BY <2>5, <3>3, <3>4, PostFrom
  <2>12. CASE ~NeedsUser(w)
    <3>1. KeyOf(ss.engine.url) = Memory => w.cn.slot.user
      BY <2>10, <2>12 DEF NeedsUser
    <3>2. Post(u, ReplaySends(u))
      BY <2>3, <2>4, <2>5, <2>6, <2>7, <3>1, ReplaySendsPost
    <3>3. Replay(w) = ReplaySends(u)
      BY <1>3, <2>12 DEF Replay, u
    <3> QED BY <2>5, <3>2, <3>3, PostFrom
  <2> QED BY <2>11, <2>12
<1> QED BY <1>2, <1>3

(* The stores' claims stay typed.                                          *)
LEMMA ClaimsTyped ==
  ASSUME NEW held \in ClaimsType, NEW url, NEW c \in Connections \cup {None}
  PROVE  Claim(held, url, c) \in ClaimsType /\ Unclaimed(held, url, c) \in ClaimsType
BY DEF Claim, Unclaimed, ClaimsType

LEMMA OpenPost ==
  ASSUME NEW w, Sound(w), FreeOK(w.cn.slot), w.cn.slot.engine = NoEngine, w.tk.op \in Gets,
         w.tk.generation <= w.cn.generation
  PROVE  Post(w, Open(w))
<1>1. w \in WorldType /\ w.cn \in ConnType /\ w.tk \in TaskType /\ w.cn.slot \in SlotType
      /\ w.claims \in ClaimsType
  BY DEF Sound, WorldType, ConnType
<1>2. CASE w.cn.url = None \/ ~Claimed(w.claims, w.cn.url, w.tk.conn)
  BY <1>2, EndsPost DEF Open, Served
<1>3. CASE ~(w.cn.url = None \/ ~Claimed(w.claims, w.cn.url, w.tk.conn))
  <2> DEFINE d == [NoEngine EXCEPT !.url = w.cn.url]
             held == Claim(w.claims, w.cn.url, w.tk.conn)
  <2>3. PICK claimed \in BOOLEAN : claimed = (OnDisk(w.cn.url) /\ w.claims[KeyOf(w.cn.url)] = None)
    BY DEF OnDisk
  <2> DEFINE u == [w EXCEPT !.tk.pc = "opening", !.tk.phase = "opening", !.tk.database = w.cn.database,
                            !.tk.claimed = claimed, !.tk.engine = d, !.cn.slot = EmptySlot, !.claims = held]
  <2>1. Open(w) = u
    BY <1>3, <2>3 DEF Open
  <2>2. d \in EngineType /\ d.url = w.cn.url /\ Down(d) = d
    <3>1. w.cn.url \in Urls
      BY <1>1 DEF ConnType
    <3>2. NoEngine \in EngineType
      BY Constants
    <3>3. d \in EngineType /\ d.url = w.cn.url
      BY <3>1, <3>2 DEF EngineType
    <3> QED BY <3>3 DEF Down
  <2>4. held \in ClaimsType
    BY <1>1, ClaimsTyped DEF TaskType
  <2> HIDE DEF d
  <2> HIDE DEF held
  <2>5. u \in WorldType
    <3>1. w.cn.database \in Databases
      BY <1>1 DEF ConnType
    <3>2. u.tk = [w.tk EXCEPT !.pc = "opening", !.phase = "opening", !.database = w.cn.database,
                              !.claimed = claimed, !.engine = d]
      BY <1>1 DEF WorldType
    <3>3. u.tk \in TaskType
      <4> HIDE DEF u
      <4>1. "opening" \in Holding /\ "opening" \in Phases
        BY DEF Holding, Phases
      <4> QED BY <1>1, <2>2, <2>3, <3>1, <3>2, <4>1 DEF TaskType
    <3>4. u.cn = [w.cn EXCEPT !.slot = EmptySlot]
      BY <1>1 DEF WorldType
    <3>5. u.cn \in ConnType
      BY <1>1, <3>4, Constants DEF ConnType
    <3> QED BY <1>1, <2>4, <3>3, <3>5 DEF WorldType
  <2>6. /\ u.me = w.me /\ u.cn.url = w.cn.url /\ u.cn.database = w.cn.database
        /\ u.cn.generation = w.cn.generation /\ u.cn.slot = EmptySlot
        /\ u.cn.token = w.cn.token /\ u.cn.guard = w.cn.guard /\ u.cn.block = w.cn.block
    BY <1>1 DEF WorldType, ConnType
  <2>7. /\ u.tk.op = w.tk.op /\ u.tk.conn = w.tk.conn /\ u.tk.who = w.tk.who /\ u.tk.moved = w.tk.moved
        /\ u.tk.phase = "opening" /\ u.tk.engine = d /\ u.tk.database = w.cn.database
        /\ u.tk.generation = w.tk.generation /\ u.tk.pc = "opening"
    BY <1>1 DEF WorldType, TaskType
  <2> HIDE DEF u
  <2>8. ConnOK(u.cn) /\ u.cn.database # None
    BY <1>3, <2>6 DEF Sound, ConnOK
  <2>9. SessionSlot(u.cn, u.tk).engine = d
    BY <2>6, <2>7, Constants DEF SessionSlot, SlotType
  <2>10. d # NoEngine /\ ~EmptySlot.bound
    BY <1>3, <2>2 DEF NoEngine, EmptySlot
  <2>11. u.cn.token # NoOne => u.cn.token.of = u.cn.database
    BY <2>8 DEF ConnOK
  <2>12. Phased(u.cn, u.tk)
    BY <2>2, <2>6, <2>7, <2>8, <2>9, <2>10, <2>11, EmptyIsFree DEF Phased
  <2>13. Stage(u.cn, u.tk)
    BY <2>2, <2>6, <2>7, <2>12 DEF Stage, StageBack, StageSigning, WayBack, Signing
  <2>14. u.tk # Idle /\ u.tk.pc \in Holding
    BY <2>7 DEF Idle, Holding
  <2>15. Post(w, u)
    BY <2>5, <2>6, <2>7, <2>8, <2>13, <2>14 DEF Sound, Post, Lands, Keeps, Serving
  <2> QED BY <2>1, <2>15
<1> QED BY <1>2, <1>3

(* _held_embedded_client(): the connection may have been removed since.    *)
LEMMA HeldPost ==
  ASSUME NEW w, Sound(w), FreeOK(w.cn.slot), w.tk.op \in Gets
  PROVE  Lands(w, Held(w)) /\ Keeps(w, Held(w))
<1> DEFINE u == [w EXCEPT !.tk.generation = w.cn.generation]
<1>1. w \in WorldType /\ w.cn \in ConnType /\ w.tk \in TaskType /\ w.cn.slot \in SlotType
      /\ w.cn.generation \in Nat
  BY DEF Sound, WorldType, ConnType
<1>2. u \in WorldType
  BY <1>1 DEF WorldType, TaskType
<1>3. u.me = w.me /\ u.cn = w.cn
  BY <1>1 DEF WorldType
<1>4. /\ u.tk.op = w.tk.op /\ u.tk.conn = w.tk.conn /\ u.tk.who = w.tk.who /\ u.tk.moved = w.tk.moved
      /\ u.tk.generation = w.cn.generation
  BY <1>1 DEF WorldType, TaskType
<1> DEFINE s == w.cn.slot
<1>5. CASE w.cn.url = None
  <2>1. Lands(w, Ends(w)) /\ Keeps(w, Ends(w))
    <3> DEFINE v == Ends(w)
    <3>1. v \in WorldType /\ v.me = w.me /\ v.tk = Idle /\ v.cn = [w.cn EXCEPT !.guard = None]
      BY <1>1, Constants DEF Ends, WorldType, ConnType
    <3> HIDE DEF v
    <3>2. /\ v.cn.guard = None /\ v.cn.url = w.cn.url /\ v.cn.database = w.cn.database
          /\ v.cn.token = w.cn.token /\ v.cn.slot = w.cn.slot /\ v.cn.block = w.cn.block
      BY <1>1, <3>1 DEF ConnType
    <3>3. Lands(w, v) /\ Keeps(w, v)
      BY <3>1, <3>2 DEF Sound, ConnOK, Lands, Keeps
    <3> QED BY <3>3 DEF v
  <2> QED BY <1>5, <2>1 DEF Held
<1>6. CASE w.cn.url # None
  <2>1. Sound(u) /\ SameCall(w, u)
    BY <1>2, <1>3, <1>4 DEF Sound, SameCall, Keeps
  <2>2. w.cn.database # None
    BY <1>6 DEF Sound, ConnOK
  <2>3. s.engine.url = None <=> s.engine = NoEngine
    BY DEF FreeOK, SlotOK, NoEngine
  <2> HIDE DEF u
  <2>4. CASE s.engine.url = w.cn.url /\ s.selected = w.cn.database
    <3>1. s.engine # NoEngine /\ ~s.bound /\ Served(u.cn, u.tk.moved)
      BY <1>3, <1>6, <2>2, <2>3, <2>4 DEF FreeOK, Served
    <3>2. Post(u, Serves(u))
      BY <1>3, <1>4, <2>1, <2>4, <3>1, ServesPost
    <3>3. Held(w) = Serves(u)
      BY <1>6, <2>3, <2>4 DEF Held, u
    <3> QED BY <2>1, <3>2, <3>3, PostFrom DEF Post
  <2>5. CASE s.engine.url = w.cn.url /\ s.selected # w.cn.database
    <3> DEFINE r == IF s.selected = None THEN u ELSE [u EXCEPT !.cn.token = NoOne]
    <3>1. Held(w) = Reset(r, "resetting")
      BY <1>6, <2>3, <2>5 DEF Held, u
    <3>2. r \in WorldType
      BY <1>2, Constants DEF WorldType, ConnType
    <3>3. /\ r.me = u.me /\ r.tk = u.tk /\ r.cn.url = u.cn.url /\ r.cn.database = u.cn.database
          /\ r.cn.generation = u.cn.generation /\ r.cn.slot = u.cn.slot
          /\ r.cn.token \in {u.cn.token, NoOne} /\ r.cn.guard = u.cn.guard /\ r.cn.block = u.cn.block
      BY <1>2 DEF WorldType, ConnType
    <3> HIDE DEF r
    <3>4. Sound(r) /\ SameCall(u, r)
      BY <2>1, <3>2, <3>3 DEF Sound, ConnOK, SameCall, Keeps
    <3>5. SameCall(w, r)
      BY <2>1, <3>4 DEF SameCall, Keeps
    <3>6. SlotOK(r.cn.slot) /\ r.cn.slot.engine # NoEngine /\ r.cn.slot.engine.url = r.cn.url
          /\ r.cn.database # None /\ r.tk.generation = r.cn.generation /\ r.tk.op \in Gets
      BY <1>3, <1>4, <1>6, <2>2, <2>3, <2>5, <3>3 DEF FreeOK
    <3>7. Post(r, Reset(r, "resetting"))
      BY <3>4, <3>6, ResetPost
    <3> QED BY <3>1, <3>5, <3>7, PostFrom DEF Post
  <2>6. CASE s.engine.url \notin {None, w.cn.url}
    <3>1. Post(u, Forget(u, "replacing"))
      BY <1>1, <1>3, <1>4, <2>1, ForgetPost
    <3>2. Held(w) = Forget(u, "replacing")
      BY <1>6, <2>3, <2>6 DEF Held, u
    <3> QED BY <2>1, <3>1, <3>2, PostFrom DEF Post
  <2>7. CASE s.engine = NoEngine
    <3>1. Post(u, Open(u))
      BY <1>1, <1>3, <1>4, <2>1, <2>7, OpenPost
    <3>2. Held(w) = Open(u)
      BY <1>6, <2>3, <2>7 DEF Held, u
    <3> QED BY <2>1, <3>1, <3>2, PostFrom DEF Post
  <2> QED BY <2>3, <2>4, <2>5, <2>6, <2>7
<1> QED BY <1>5, <1>6

-----------------------------------------------------------------------------
(***************************************************************************)
(* What a segment writes                                                   *)
(***************************************************************************)
(* The session is written: its slot, or the engine being opened.           *)
Writes(w, v) ==
  /\ v \in WorldType /\ SameCall(w, v)
  /\ v.cn.generation = w.cn.generation /\ v.cn.token \in {w.cn.token, NoOne} /\ v.cn.guard = w.cn.guard
  /\ v.cn.block = w.cn.block
  /\ v.tk.phase = w.tk.phase /\ v.tk.database = w.tk.database /\ v.tk.generation = w.tk.generation
  /\ v.tk.was = w.tk.was /\ v.tk.replays = w.tk.replays
  /\ w.tk.phase # "opening" => v.tk.engine = w.tk.engine
  /\ w.tk.phase = "opening" => v.cn.slot.engine = w.cn.slot.engine

LEMMA WritesTwice ==
  ASSUME NEW w, NEW u, NEW v, Writes(w, u), Writes(u, v)
  PROVE  Writes(w, v)
BY DEF Writes, SameCall, Keeps

LEMMA WritesSound ==
  ASSUME NEW w, NEW v, Sound(w), Writes(w, v)
  PROVE  Sound(v) /\ SameCall(w, v)
BY DEF Writes, Sound, ConnOK, SameCall, Keeps

(* The fields of the slot that a session has, or will have.                *)
LEMMA SlotFields ==
  ASSUME NEW w \in WorldType
  PROVE  LET ss == SessionSlot(w.cn, w.tk) IN
         /\ w.cn.slot \in SlotType /\ ss \in SlotType /\ w.tk.engine \in EngineType
         /\ ss.engine = Session(w)
         /\ ss.owner = w.cn.slot.owner /\ ss.user = w.cn.slot.user /\ ss.bound = w.cn.slot.bound
         /\ ss.selected = w.cn.slot.selected
         /\ w.tk.phase # "opening" => ss = w.cn.slot
<1>1. w.cn.slot \in SlotType /\ w.tk.engine \in EngineType
  BY DEF WorldType, ConnType, TaskType
<1> QED BY <1>1 DEF SessionSlot, Session, SlotType

LEMMA PhasedKept ==
  ASSUME NEW w, NEW v, Writes(w, v), Phased(w.cn, w.tk), v.cn.slot.selected = None,
         Session(v) # NoEngine, Session(v).url = Session(w).url, v.cn.slot.bound => w.cn.slot.bound,
         w \in WorldType
  PROVE  Phased(v.cn, v.tk)
<1>1. v \in WorldType
  BY DEF Writes
<1>2. /\ SessionSlot(v.cn, v.tk).engine = Session(v) /\ SessionSlot(w.cn, w.tk).engine = Session(w)
  BY <1>1, SlotFields
<1>3. w.tk.phase = "opening" => Session(v) = v.tk.engine /\ Session(w) = w.tk.engine
  BY DEF Session, Writes
<1>4. /\ v.cn.generation = w.cn.generation /\ v.cn.token \in {w.cn.token, NoOne}
      /\ v.tk.phase = w.tk.phase /\ v.tk.database = w.tk.database /\ v.tk.generation = w.tk.generation
      /\ v.cn.url = w.cn.url /\ v.cn.database = w.cn.database /\ v.tk.op = w.tk.op /\ v.tk.moved = w.tk.moved
      /\ w.tk.phase = "opening" => v.cn.slot.engine = w.cn.slot.engine
  BY DEF Writes, SameCall, Keeps
<1> QED BY <1>2, <1>3, <1>4 DEF Phased

LEMMA ReturningKept ==
  ASSUME NEW w, NEW v, Writes(w, v), Returning(w.cn, w.tk), v.cn.slot.selected = None,
         SlotOK(v.cn.slot), v.cn.slot.engine # NoEngine, v.cn.slot.engine.url = w.cn.slot.engine.url,
         v.cn.slot.bound => w.cn.slot.bound, w \in WorldType
  PROVE  Returning(v.cn, v.tk)
<1>1. v.tk.phase = w.tk.phase /\ v.tk.op = w.tk.op
  BY DEF Writes, SameCall
<1>2. w.tk.phase # "opening"
  BY DEF Returning
<1>3. Session(v) = v.cn.slot.engine /\ Session(w) = w.cn.slot.engine
  BY <1>1, <1>2 DEF Session
<1>4. Phased(w.cn, w.tk) => Phased(v.cn, v.tk)
  BY <1>3, PhasedKept
<1> QED BY <1>1, <1>4 DEF Returning

(* The session is given another state.                                     *)
LEMMA SessionIs ==
  ASSUME NEW w \in WorldType, NEW e \in EngineType, NEW v, v = WithSession(w, e)
  PROVE  /\ Writes(w, v) /\ Session(v) = e
         /\ v.cn.slot.selected = w.cn.slot.selected /\ v.cn.slot.owner = w.cn.slot.owner
         /\ v.cn.slot.user = w.cn.slot.user /\ v.cn.slot.bound = w.cn.slot.bound
         /\ v.cn.token = w.cn.token
<1>1. w.cn \in ConnType /\ w.tk \in TaskType /\ w.cn.slot \in SlotType
  BY DEF WorldType, ConnType
<1>2. CASE w.tk.phase = "opening"
  <2>1. v = [w EXCEPT !.tk.engine = e]
    BY <1>2 DEF WithSession
  <2>2. v \in WorldType
    BY <1>1, <2>1 DEF WorldType, TaskType
  <2>3. v.me = w.me /\ v.cn = w.cn
    BY <2>1 DEF WorldType
  <2>4. /\ v.tk.op = w.tk.op /\ v.tk.conn = w.tk.conn /\ v.tk.who = w.tk.who /\ v.tk.moved = w.tk.moved
        /\ v.tk.phase = w.tk.phase /\ v.tk.database = w.tk.database
        /\ v.tk.generation = w.tk.generation /\ v.tk.was = w.tk.was /\ v.tk.replays = w.tk.replays
        /\ v.tk.engine = e
    BY <1>1, <2>1 DEF WorldType, TaskType
  <2> QED BY <1>2, <2>2, <2>3, <2>4 DEF Writes, SameCall, Keeps, Session
<1>3. CASE w.tk.phase # "opening"
  <2>1. v = [w EXCEPT !.cn.slot.engine = e]
    BY <1>3 DEF WithSession
  <2>2. v \in WorldType
    BY <1>1, <2>1 DEF WorldType, ConnType, SlotType
  <2>3. v.me = w.me /\ v.tk = w.tk
    BY <2>1 DEF WorldType
  <2>4. /\ v.cn.url = w.cn.url /\ v.cn.database = w.cn.database /\ v.cn.generation = w.cn.generation
        /\ v.cn.token = w.cn.token /\ v.cn.guard = w.cn.guard /\ v.cn.block = w.cn.block
    BY <1>1, <2>1 DEF WorldType, ConnType
  <2>5. /\ v.cn.slot.selected = w.cn.slot.selected /\ v.cn.slot.engine = e
        /\ v.cn.slot.owner = w.cn.slot.owner
        /\ v.cn.slot.user = w.cn.slot.user /\ v.cn.slot.bound = w.cn.slot.bound
    BY <1>1, <2>1 DEF WorldType, ConnType, SlotType
  <2> QED BY <1>3, <2>2, <2>3, <2>4, <2>5 DEF Writes, SameCall, Keeps, Session
<1> QED BY <1>2, <1>3

(* The slot is written, but for its engine.                                *)
WithSlot(w, s) == [w EXCEPT !.cn.slot = s]

LEMMA SlotIs ==
  ASSUME NEW w \in WorldType, NEW s \in SlotType, s.engine = w.cn.slot.engine,
         NEW v, v = WithSlot(w, s)
  PROVE  /\ Writes(w, v) /\ Session(v) = Session(w)
         /\ v.cn.slot = s /\ v.tk = w.tk /\ v.cn.token = w.cn.token
<1>1. w.cn \in ConnType /\ w.tk \in TaskType /\ w.cn.slot \in SlotType
  BY DEF WorldType, ConnType
<1>2. v \in WorldType
  BY <1>1 DEF WithSlot, WorldType, ConnType
<1>3. v.me = w.me /\ v.tk = w.tk
  BY DEF WithSlot, WorldType
<1>4. /\ v.cn.url = w.cn.url /\ v.cn.database = w.cn.database /\ v.cn.generation = w.cn.generation
      /\ v.cn.token = w.cn.token /\ v.cn.guard = w.cn.guard /\ v.cn.block = w.cn.block /\ v.cn.slot = s
  BY <1>1 DEF WithSlot, WorldType, ConnType
<1> QED BY <1>2, <1>3, <1>4 DEF Writes, SameCall, Keeps, Session

(* A token is forgotten.                                                   *)
Tokenless(w) == [w EXCEPT !.cn.token = NoOne]

LEMMA TokenIs ==
  ASSUME NEW w \in WorldType, NEW v, v = Tokenless(w)
  PROVE  Writes(w, v) /\ v.cn.slot = w.cn.slot /\ v.cn.token = NoOne /\ v.tk = w.tk
<1>1. w.cn \in ConnType
  BY DEF WorldType
<1>2. v \in WorldType
  BY <1>1, Constants DEF Tokenless, WorldType, ConnType
<1>3. v.me = w.me /\ v.tk = w.tk
  BY DEF Tokenless, WorldType
<1>4. /\ v.cn.url = w.cn.url /\ v.cn.database = w.cn.database /\ v.cn.generation = w.cn.generation
      /\ v.cn.token = NoOne /\ v.cn.guard = w.cn.guard /\ v.cn.block = w.cn.block /\ v.cn.slot = w.cn.slot
  BY <1>1 DEF Tokenless, WorldType, ConnType
<1> QED BY <1>2, <1>3, <1>4 DEF Writes, SameCall, Keeps

(* The stores' claims are written.                                         *)
WithClaims(w, held) == [w EXCEPT !.claims = held]

LEMMA ClaimsIs ==
  ASSUME NEW w \in WorldType, NEW held \in ClaimsType, NEW v, v = WithClaims(w, held)
  PROVE  Writes(w, v) /\ v.cn = w.cn /\ v.tk = w.tk
BY DEF WithClaims, WorldType, Writes, SameCall, Keeps

(* The session runs as somebody else, with another database.               *)
LEMMA RunsIs ==
  ASSUME NEW w \in WorldType, NEW who \in Whos, NEW selects \in Databases, NEW v, v = Runs(w, who, selects)
  PROVE  /\ Writes(w, v)
         /\ Session(v).who = who /\ Session(v).selects = selects
         /\ Session(v).url = Session(w).url /\ Session(v).up = Session(w).up /\ Session(v).user = Session(w).user
         /\ v.cn.slot.selected = w.cn.slot.selected /\ v.cn.slot.owner = w.cn.slot.owner
         /\ v.cn.slot.user = w.cn.slot.user /\ v.cn.slot.bound = w.cn.slot.bound
         /\ v.cn.token = w.cn.token
<1>1. Session(w) \in EngineType
  BY SlotFields DEF SlotType
<1>2. PICK e : e = [Session(w) EXCEPT !.who = who, !.selects = selects]
  OBVIOUS
<1>3. /\ e \in EngineType /\ e.who = who /\ e.selects = selects
      /\ e.url = Session(w).url /\ e.up = Session(w).up /\ e.user = Session(w).user
  BY <1>1, <1>2 DEF EngineType
<1>4. v = WithSession(w, e)
  BY <1>2 DEF Runs
<1> QED BY <1>3, <1>4, SessionIs

(* The temporary owner user is defined or removed.                         *)
LEMMA DefinesIs ==
  ASSUME NEW w \in WorldType, NEW is \in BOOLEAN, NEW v, v = Defines(w, is)
  PROVE  /\ Writes(w, v)
         /\ Session(v).user = is /\ v.cn.slot.user = is
         /\ Session(v).url = Session(w).url /\ Session(v).up = Session(w).up
         /\ Session(v).who = Session(w).who /\ Session(v).selects = Session(w).selects
         /\ v.cn.slot.selected = w.cn.slot.selected /\ v.cn.slot.owner = w.cn.slot.owner
         /\ v.cn.slot.bound = w.cn.slot.bound
         /\ v.cn.token = w.cn.token
<1>1. Session(w) \in EngineType
  BY SlotFields DEF SlotType
<1>2. PICK e : e = [Session(w) EXCEPT !.user = is]
  OBVIOUS
<1>3. /\ e \in EngineType /\ e.user = is /\ e.who = Session(w).who /\ e.selects = Session(w).selects
      /\ e.url = Session(w).url /\ e.up = Session(w).up
  BY <1>1, <1>2 DEF EngineType
<1>4. PICK u : u = WithSession(w, e)
  OBVIOUS
<1>5. /\ Writes(w, u) /\ Session(u) = e
      /\ u.cn.slot.selected = w.cn.slot.selected /\ u.cn.slot.owner = w.cn.slot.owner
      /\ u.cn.slot.bound = w.cn.slot.bound /\ u.cn.token = w.cn.token
  BY <1>3, <1>4, SessionIs
<1>6. u \in WorldType
  BY <1>5 DEF Writes
<1>7. u.cn \in ConnType /\ u.cn.slot \in SlotType
  BY <1>6 DEF WorldType, ConnType
<1>8. PICK s : s = [u.cn.slot EXCEPT !.user = is]
  OBVIOUS
<1>9. v = WithSlot(u, s)
  <2>1. v = [u EXCEPT !.cn.slot.user = is]
    BY <1>2, <1>4 DEF Defines
  <2> QED BY <1>8, <2>1 DEF WithSlot
<1>10. /\ s \in SlotType /\ s.engine = u.cn.slot.engine /\ s.selected = u.cn.slot.selected
       /\ s.owner = u.cn.slot.owner /\ s.bound = u.cn.slot.bound /\ s.user = is
  BY <1>7, <1>8 DEF SlotType
<1>11. /\ Writes(u, v) /\ Session(v) = Session(u) /\ v.cn.slot = s /\ v.cn.token = u.cn.token
  BY <1>6, <1>9, <1>10, SlotIs
<1>12. Writes(w, v)
  BY <1>5, <1>11, WritesTwice
<1> QED BY <1>3, <1>5, <1>10, <1>11, <1>12

(* The session is the owner's, and no model's.                             *)
AsOwner(w) == [w EXCEPT !.cn.slot.owner = TRUE, !.cn.slot.bound = FALSE]

LEMMA AsOwnerIs ==
  ASSUME NEW w \in WorldType, NEW v, v = AsOwner(w)
  PROVE  /\ Writes(w, v) /\ Session(v) = Session(w)
         /\ v.cn.slot.engine = w.cn.slot.engine
         /\ v.cn.slot.selected = w.cn.slot.selected /\ v.cn.slot.user = w.cn.slot.user
         /\ v.cn.slot.owner /\ ~v.cn.slot.bound
<1>1. w.cn \in ConnType /\ w.cn.slot \in SlotType
  BY DEF WorldType, ConnType
<1>2. PICK s : s = [w.cn.slot EXCEPT !.owner = TRUE, !.bound = FALSE]
  OBVIOUS
<1>3. s \in SlotType
  BY <1>1, <1>2 DEF SlotType
<1>4. s.engine = w.cn.slot.engine /\ s.selected = w.cn.slot.selected /\ s.user = w.cn.slot.user
  BY <1>1, <1>2 DEF SlotType
<1>5. s.owner /\ ~s.bound
  BY <1>1, <1>2 DEF SlotType
<1>6. v = WithSlot(w, s)
  BY <1>1, <1>2 DEF AsOwner, WithSlot, WorldType, ConnType, SlotType
<1>7. Writes(w, v) /\ Session(v) = Session(w) /\ v.cn.slot = s
  BY <1>3, <1>4, <1>6, SlotIs
<1> QED BY <1>4, <1>5, <1>7

-----------------------------------------------------------------------------
(***************************************************************************)
(* The steps of the way back                                               *)
(***************************************************************************)
LEMMA Awake ==
  ASSUME NEW s \in SlotType, SlotOK(s), s.engine # NoEngine, s.owner \/ s.engine.selects # None
  PROVE  s.engine.up
<1>1. s.engine \in EngineType
  BY DEF SlotType
<1>2. Down(s.engine).who = NoOne /\ Down(s.engine).selects = None
  BY <1>1, DownIs
<1>3. NoOne # Owner
  BY DEF NoOne, Owner
<1> QED BY <1>2, <1>3 DEF SlotOK

(* On the way back the session is the slot's.                              *)
LEMMA BackIs ==
  ASSUME NEW w, Sound(w), w.tk.pc \in WayBack, Stage(w.cn, w.tk)
  PROVE  /\ w \in WorldType /\ w.cn \in ConnType /\ w.tk \in TaskType /\ w.cn.slot \in SlotType
         /\ w.cn.slot.engine \in EngineType
         /\ Returning(w.cn, w.tk) /\ w.tk.phase # "opening" /\ Session(w) = w.cn.slot.engine
         /\ SlotOK(w.cn.slot) /\ FreeOK(w.cn.slot) /\ Served(w.cn, w.tk.moved)
         /\ w.cn.slot.engine # NoEngine /\ w.cn.slot.engine.url # None /\ w.cn.slot.selected = None
<1>1. w \in WorldType /\ w.cn \in ConnType /\ w.tk \in TaskType /\ w.cn.slot \in SlotType
      /\ w.cn.slot.engine \in EngineType
  BY DEF Sound, WorldType, ConnType, SlotType
<1>2. Returning(w.cn, w.tk)
  BY DEF Stage, StageBack
<1> QED BY <1>1, <1>2, Unselected DEF Returning, Session, SlotOK, Served

LEMMA BackFails ==
  ASSUME NEW w, Sound(w), w.tk.pc \in WayBack, Stage(w.cn, w.tk)
  PROVE  Post(w, Fails(w)) /\ Post(w, Ends(w))
BY BackIs, FailsPost, EndsPost

(* The owner's session goes on once the user of an earlier return is gone. *)
LEMMA DropsPost ==
  ASSUME NEW w, Sound(w), w.tk.pc \in {"removing", "dropping"}, Stage(w.cn, w.tk)
  PROVE  Post(w, Select(Defines(w, FALSE))) /\ Post(w, Select(w))
<1>1. w.tk.pc \in WayBack
  BY DEF WayBack
<1>2. /\ w \in WorldType /\ Returning(w.cn, w.tk) /\ w.tk.phase # "opening" /\ Session(w) = w.cn.slot.engine
      /\ SlotOK(w.cn.slot) /\ w.cn.slot.engine # NoEngine /\ w.cn.slot.selected = None
      /\ w.cn.slot \in SlotType /\ w.cn.slot.engine.url # None
  BY <1>1, BackIs
<1>3. w.cn.slot.owner
  BY <1>1 DEF Stage, StageBack
<1>4. Post(w, Select(w))
  BY <1>2, <1>3, SelectPost
<1>5. PICK v : v = Defines(w, FALSE)
  OBVIOUS
<1>0. PICK no \in BOOLEAN : no = FALSE
  OBVIOUS
<1>6. /\ Writes(w, v)
      /\ Session(v).user = no /\ v.cn.slot.user = no
      /\ Session(v).url = Session(w).url /\ Session(v).up = Session(w).up
      /\ Session(v).who = Session(w).who /\ Session(v).selects = Session(w).selects
      /\ v.cn.slot.selected = w.cn.slot.selected /\ v.cn.slot.owner = w.cn.slot.owner
      /\ v.cn.slot.bound = w.cn.slot.bound
  <2>1. v = Defines(w, no)
    BY <1>5, <1>0
  <2>2. w \in WorldType
    BY <1>2
  <2> QED BY <2>1, <2>2, DefinesIs
<1>7. Session(v) = v.cn.slot.engine
  BY <1>2, <1>6 DEF Writes, Session
<1>8. w.cn.slot.engine.up
  BY <1>2, <1>3, Awake
<1>9. v.cn.slot.engine # NoEngine /\ v.cn.slot.engine.url = w.cn.slot.engine.url
  BY <1>2, <1>6, <1>7 DEF NoEngine
<1>10. SlotOK(v.cn.slot)
  BY <1>2, <1>3, <1>0, <1>6, <1>7, <1>8 DEF SlotOK
<1>11. Returning(v.cn, v.tk)
  BY <1>2, <1>6, <1>9, <1>10, ReturningKept
<1>12. Sound(v) /\ SameCall(w, v)
  BY <1>6, WritesSound
<1>13. Post(v, Select(v))
  BY <1>3, <1>6, <1>11, <1>12, SelectPost
<1> QED BY <1>4, <1>5, <1>12, <1>13, PostFrom

(* invalidate() forgets the token with the first thing it ends.            *)
LEMMA EndedIs ==
  ASSUME NEW w \in WorldType, NEW v, v = Ended(w)
  PROVE  Writes(w, v) /\ v.cn.slot = w.cn.slot /\ v.tk = w.tk
<1>1. CASE w.tk.phase = "own"
  BY <1>1, TokenIs DEF Ended, Tokenless
<1>2. CASE w.tk.phase # "own"
  BY <1>2 DEF Ended, Writes, SameCall, Keeps
<1> QED BY <1>1, <1>2

(* The store's engine is closed.                                           *)
LEMMA ClosedPost ==
  ASSUME NEW w, Sound(w), w.tk.pc = "closing", Stage(w.cn, w.tk),
         NEW u, u = WithSession(w, Down(w.cn.slot.engine))
  PROVE  /\ Post(w, At(Ended(u), "connecting"))
         /\ Post(w, Ends(u))
<1>1. w.tk.pc \in WayBack
  BY DEF WayBack
<1>2. /\ w \in WorldType /\ Returning(w.cn, w.tk) /\ w.tk.phase # "opening" /\ Session(w) = w.cn.slot.engine
      /\ SlotOK(w.cn.slot) /\ w.cn.slot.engine # NoEngine /\ w.cn.slot.selected = None
      /\ w.cn.slot.engine \in EngineType /\ w.cn.slot.engine.url # None
  BY <1>1, BackIs
<1>3. ~w.cn.slot.owner /\ OnDisk(w.cn.slot.engine.url)
  BY <1>1 DEF Stage, StageBack
<1>4. PICK d : d = Down(w.cn.slot.engine)
  OBVIOUS
<1>5. /\ d \in EngineType /\ d.url = w.cn.slot.engine.url /\ d.up = FALSE
      /\ d.user = FALSE /\ Down(d) = d
  BY <1>2, <1>4, DownIs
<1>6. /\ Writes(w, u) /\ Session(u) = d
      /\ u.cn.slot.selected = w.cn.slot.selected /\ u.cn.slot.owner = w.cn.slot.owner
      /\ u.cn.slot.user = w.cn.slot.user /\ u.cn.slot.bound = w.cn.slot.bound
  BY <1>2, <1>4, <1>5, SessionIs
<1>7. u.cn.slot.engine = d /\ u.tk.phase # "opening"
  BY <1>2, <1>6 DEF Writes, Session
<1>8. w.cn.slot.user = FALSE
  <2>1. w.cn.slot.user \in BOOLEAN
    BY <1>2 DEF WorldType, ConnType, SlotType
  <2>2. ~w.cn.slot.user
    BY <1>2, <1>3 DEF SlotOK, OnDisk
  <2> QED BY <2>1, <2>2
<1>9. SlotOK(u.cn.slot)
  BY <1>2, <1>3, <1>5, <1>6, <1>7, <1>8 DEF SlotOK
<1>10. d # NoEngine
  BY <1>2, <1>5 DEF NoEngine
<1>11. Returning(u.cn, u.tk)
  BY <1>2, <1>5, <1>6, <1>7, <1>9, <1>10, ReturningKept
<1>12. Sound(u) /\ SameCall(w, u)
  BY <1>6, WritesSound
<1>13. Post(w, Ends(u))
  <2>1. Post(u, Ends(u))
    BY <1>2, <1>6, <1>9, <1>12, EndsPost, Unselected DEF Served
  <2> QED BY <1>12, <2>1, PostFrom
<1>14. PICK v : v = Ended(u)
  OBVIOUS
<1>15. u \in WorldType
  BY <1>6 DEF Writes
<1>16. Writes(u, v) /\ v.cn.slot = u.cn.slot
  BY <1>14, <1>15, EndedIs
<1>17. Returning(v.cn, v.tk)
  BY <1>2, <1>6, <1>7, <1>9, <1>10, <1>11, <1>15, <1>16, ReturningKept
<1>18. Sound(v) /\ SameCall(u, v)
  BY <1>12, <1>16, WritesSound
<1>19. SameCall(w, v)
  BY <1>12, <1>18 DEF SameCall, Keeps
<1>20. Staged(v, "connecting")
  <2>1. v \in WorldType
    BY <1>16 DEF Writes
  <2> QED BY <1>3, <1>5, <1>6, <1>7, <1>16, <1>17, <2>1, StagedBack DEF WayBack
<1>21. Post(v, At(v, "connecting"))
  BY <1>18, <1>20, AtPost DEF Holding, WayBack
<1> QED BY <1>13, <1>14, <1>19, <1>21, PostFrom

(* The store is connected again, as the owner.                             *)
LEMMA ConnectedPost ==
  ASSUME NEW w, Sound(w), w.tk.pc = "connecting", Stage(w.cn, w.tk),
         NEW u, u = WithSession(w, Fresh(w.cn.slot.engine.url))
  PROVE  /\ Post(w, Select(AsOwner(u)))
         /\ Post(w, Ends(u))
<1>1. w.tk.pc \in WayBack
  BY DEF WayBack
<1>2. /\ w \in WorldType /\ Returning(w.cn, w.tk) /\ w.tk.phase # "opening" /\ Session(w) = w.cn.slot.engine
      /\ SlotOK(w.cn.slot) /\ w.cn.slot.engine # NoEngine /\ w.cn.slot.selected = None
      /\ w.cn.slot.engine \in EngineType /\ w.cn.slot.engine.url # None
  BY <1>1, BackIs
<1>3. ~w.cn.slot.owner /\ OnDisk(w.cn.slot.engine.url)
  BY <1>1 DEF Stage, StageBack
<1>4. PICK f : f = Fresh(w.cn.slot.engine.url)
  OBVIOUS
<1>5. f \in EngineType /\ f.url = w.cn.slot.engine.url /\ f.up = TRUE /\ f.who = Owner /\ f.user = FALSE
  <2>1. w.cn.slot.engine.url \in Urls
    BY <1>2 DEF EngineType
  <2> QED BY <1>4, <2>1, FreshIs
<1>6. /\ Writes(w, u) /\ Session(u) = f
      /\ u.cn.slot.selected = w.cn.slot.selected /\ u.cn.slot.owner = w.cn.slot.owner
      /\ u.cn.slot.user = w.cn.slot.user /\ u.cn.slot.bound = w.cn.slot.bound
  BY <1>2, <1>4, <1>5, SessionIs
<1>7. u.cn.slot.engine = f /\ u.tk.phase # "opening"
  BY <1>2, <1>6 DEF Writes, Session
<1>8. w.cn.slot.user = FALSE
  <2>1. w.cn.slot.user \in BOOLEAN
    BY <1>2 DEF WorldType, ConnType, SlotType
  <2>2. ~w.cn.slot.user
    BY <1>2, <1>3 DEF SlotOK, OnDisk
  <2> QED BY <2>1, <2>2
<1>9. SlotOK(u.cn.slot)
  BY <1>2, <1>3, <1>5, <1>6, <1>7, <1>8 DEF SlotOK
<1>10. f # NoEngine
  BY <1>2, <1>5 DEF NoEngine
<1>11. Sound(u) /\ SameCall(w, u)
  BY <1>6, WritesSound
<1>12. Post(w, Ends(u))
  <2>1. Post(u, Ends(u))
    BY <1>2, <1>6, <1>9, <1>11, EndsPost, Unselected DEF Served
  <2> QED BY <1>11, <2>1, PostFrom
<1>13. u \in WorldType
  BY <1>6 DEF Writes
<1>14. PICK v : v = AsOwner(u)
  OBVIOUS
<1>15. /\ Writes(u, v) /\ v.cn.slot.engine = u.cn.slot.engine
       /\ v.cn.slot.selected = u.cn.slot.selected /\ v.cn.slot.user = u.cn.slot.user
       /\ v.cn.slot.owner /\ ~v.cn.slot.bound
  BY <1>13, <1>14, AsOwnerIs
<1>16. Writes(w, v)
  BY <1>6, <1>15, WritesTwice
<1>17. v.cn.slot.selected = None /\ v.cn.slot.engine = f /\ v.cn.slot.user = FALSE
  BY <1>2, <1>6, <1>7, <1>8, <1>15
<1>18. SlotOK(v.cn.slot)
  <2>1. f.url # None
    BY <1>2, <1>5
  <2> QED BY <1>5, <1>15, <1>17, <2>1 DEF SlotOK
<1>19. Returning(v.cn, v.tk)
  <2>1. v.cn.slot.engine # NoEngine /\ v.cn.slot.engine.url = w.cn.slot.engine.url
    BY <1>5, <1>10, <1>17
  <2>2. w \in WorldType /\ Returning(w.cn, w.tk)
    BY <1>2
  <2> QED BY <1>15, <1>16, <1>17, <1>18, <2>1, <2>2, ReturningKept
<1>20. Sound(v) /\ SameCall(w, v)
  BY <1>16, WritesSound
<1>21. Post(v, Select(v))
  BY <1>15, <1>19, <1>20, SelectPost
<1> QED BY <1>12, <1>14, <1>20, <1>21, PostFrom

(* The in-memory session is nobody's, until the owner user signs in.       *)
LEMMA InvalidatedPost ==
  ASSUME NEW w, Sound(w), w.tk.pc = "invalidating", Stage(w.cn, w.tk),
         NEW v, v = Ended(Runs(w, Anonymous, w.cn.slot.engine.selects))
  PROVE  Post(w, At(v, "owning")) /\ Post(w, Fails(v))
<1>1. w.tk.pc \in WayBack
  BY DEF WayBack
<1>2. /\ w \in WorldType /\ Returning(w.cn, w.tk) /\ w.tk.phase # "opening" /\ Session(w) = w.cn.slot.engine
      /\ SlotOK(w.cn.slot) /\ w.cn.slot.engine # NoEngine /\ w.cn.slot.selected = None
      /\ w.cn.slot.engine \in EngineType /\ w.cn.slot.engine.url # None
  BY <1>1, BackIs
<1>3. ~w.cn.slot.owner /\ KeyOf(w.cn.slot.engine.url) = Memory
  BY <1>1 DEF Stage, StageBack
<1>4. Anonymous \in Whos /\ w.cn.slot.engine.selects \in Databases
  BY <1>2, Constants DEF EngineType
<1>5. PICK u : u = Runs(w, Anonymous, w.cn.slot.engine.selects)
  OBVIOUS
<1>6. /\ Writes(w, u)
      /\ Session(u).who = Anonymous /\ Session(u).selects = w.cn.slot.engine.selects
      /\ Session(u).url = Session(w).url /\ Session(u).up = Session(w).up /\ Session(u).user = Session(w).user
      /\ u.cn.slot.selected = w.cn.slot.selected /\ u.cn.slot.owner = w.cn.slot.owner
      /\ u.cn.slot.user = w.cn.slot.user /\ u.cn.slot.bound = w.cn.slot.bound
  BY <1>2, <1>4, <1>5, RunsIs
<1>7. u \in WorldType
  BY <1>6 DEF Writes
<1>8. Writes(u, v) /\ v.cn.slot = u.cn.slot
  BY <1>5, <1>7, EndedIs
<1>9. Writes(w, v)
  BY <1>6, <1>8, WritesTwice
<1>10. u.cn.slot.engine = Session(u)
  BY <1>2, <1>6 DEF Writes, Session
<1>11. w.cn.slot.engine.up
  <2>1. w.cn.slot.engine.user
    BY <1>2, <1>3 DEF SlotOK
  <2>2. ~Down(w.cn.slot.engine).user
    BY <1>2, DownIs
  <2> QED BY <1>2, <2>1, <2>2 DEF SlotOK
<1>12. SlotOK(u.cn.slot)
  BY <1>2, <1>3, <1>6, <1>10, <1>11 DEF SlotOK
<1>13. u.cn.slot.engine # NoEngine /\ u.cn.slot.engine.url = w.cn.slot.engine.url
  BY <1>2, <1>6, <1>10 DEF NoEngine
<1>14. Returning(v.cn, v.tk)
  BY <1>2, <1>6, <1>8, <1>9, <1>12, <1>13, ReturningKept
<1>15. Sound(v) /\ SameCall(w, v) /\ v \in WorldType
  BY <1>9, WritesSound DEF Writes
<1>16. Staged(v, "owning")
  BY <1>3, <1>6, <1>8, <1>13, <1>14, <1>15, StagedBack DEF WayBack
<1>17. Post(v, At(v, "owning"))
  BY <1>15, <1>16, AtPost DEF Holding, WayBack
<1>18. Post(v, Fails(v))
  BY <1>2, <1>6, <1>8, <1>12, <1>15, FailsPost, Unselected DEF Served
<1> QED BY <1>15, <1>17, <1>18, PostFrom

LEMMA OwnerSignedInPost ==
  ASSUME NEW w, Sound(w), w.tk.pc = "owning", Stage(w.cn, w.tk),
         NEW u, u = Runs(w, Owner, w.cn.slot.engine.selects), w.cn.slot.engine.user
  PROVE  Post(w, At(AsOwner(u), "dropping"))
<1>1. w.tk.pc \in WayBack
  BY DEF WayBack
<1>2. /\ w \in WorldType /\ Returning(w.cn, w.tk) /\ w.tk.phase # "opening" /\ Session(w) = w.cn.slot.engine
      /\ SlotOK(w.cn.slot) /\ w.cn.slot.engine # NoEngine /\ w.cn.slot.selected = None
      /\ w.cn.slot.engine \in EngineType /\ w.cn.slot.engine.url # None
  BY <1>1, BackIs
<1>3. Owner \in Whos /\ w.cn.slot.engine.selects \in Databases
  BY <1>2, Constants DEF EngineType
<1>4. /\ Writes(w, u)
      /\ Session(u).who = Owner /\ Session(u).selects = w.cn.slot.engine.selects
      /\ Session(u).url = Session(w).url /\ Session(u).up = Session(w).up /\ Session(u).user = Session(w).user
      /\ u.cn.slot.selected = w.cn.slot.selected /\ u.cn.slot.owner = w.cn.slot.owner
      /\ u.cn.slot.user = w.cn.slot.user /\ u.cn.slot.bound = w.cn.slot.bound
  BY <1>2, <1>3, RunsIs
<1>5. u \in WorldType
  BY <1>4 DEF Writes
<1>6. PICK v : v = AsOwner(u)
  OBVIOUS
<1>7. /\ Writes(u, v) /\ v.cn.slot.engine = u.cn.slot.engine
      /\ v.cn.slot.selected = u.cn.slot.selected /\ v.cn.slot.user = u.cn.slot.user
      /\ v.cn.slot.owner /\ ~v.cn.slot.bound
  BY <1>5, <1>6, AsOwnerIs
<1>8. Writes(w, v)
  BY <1>4, <1>7, WritesTwice
<1>9. u.cn.slot.engine = Session(u)
  BY <1>2, <1>4 DEF Writes, Session
<1>10. w.cn.slot.engine.up
  <2>1. ~Down(w.cn.slot.engine).user
    BY <1>2, DownIs
  <2> QED BY <1>2, <2>1 DEF SlotOK
<1>11. /\ v.cn.slot.engine.url # None /\ v.cn.slot.engine.url = w.cn.slot.engine.url
       /\ v.cn.slot.engine.up /\ v.cn.slot.engine.who = Owner
       /\ v.cn.slot.engine.user = w.cn.slot.engine.user
  <2>1. w.cn.slot.engine = Session(w) /\ w.cn.slot.engine.url # None
    BY <1>2
  <2>2. v.cn.slot.engine = Session(u)
    BY <1>7, <1>9
  <2>3. /\ Session(u).who = Owner /\ Session(u).url = Session(w).url
        /\ Session(u).up = Session(w).up /\ Session(u).user = Session(w).user
    BY <1>4
  <2> QED BY <1>10, <2>1, <2>2, <2>3
<1>12. v.cn.slot.selected = None /\ v.cn.slot.user = w.cn.slot.user
  BY <1>2, <1>4, <1>7
<1>13. SlotOK(v.cn.slot)
  <2>1. /\ w.cn.slot.user = w.cn.slot.engine.user
        /\ w.cn.slot.engine.user => KeyOf(w.cn.slot.engine.url) = Memory
    BY <1>2 DEF SlotOK
  <2> QED BY <1>7, <1>11, <1>12, <2>1 DEF SlotOK
<1>14. Returning(v.cn, v.tk)
  <2>1. v.cn.slot.engine # NoEngine
    BY <1>11 DEF NoEngine
  <2>2. w \in WorldType /\ Returning(w.cn, w.tk)
    BY <1>2
  <2> QED BY <1>7, <1>8, <1>11, <1>12, <1>13, <2>1, <2>2, ReturningKept
<1>15. Sound(v) /\ SameCall(w, v) /\ v \in WorldType
  BY <1>8, WritesSound DEF Writes
<1>16. Staged(v, "dropping")
  BY <1>7, <1>14, <1>15, StagedBack DEF WayBack
<1>17. Post(v, At(v, "dropping"))
  BY <1>15, <1>16, AtPost DEF Holding, WayBack
<1> QED BY <1>6, <1>15, <1>17, PostFrom

(* use(): the session is on the database of the call.                      *)
LEMMA UsedPost ==
  ASSUME NEW w, Sound(w), w.tk.pc = "using", Stage(w.cn, w.tk),
         NEW v, v = Runs(w, w.cn.slot.engine.who, w.tk.database)
  PROVE  /\ w.tk.phase = "own" => Post(w, Ends(Published(v)))
         /\ w.tk.phase # "own" => Post(w, Replay(v))
<1>1. w.tk.pc \in WayBack
  BY DEF WayBack
<1>2. /\ w \in WorldType /\ Returning(w.cn, w.tk) /\ w.tk.phase # "opening" /\ Session(w) = w.cn.slot.engine
      /\ SlotOK(w.cn.slot) /\ w.cn.slot.engine # NoEngine /\ w.cn.slot.selected = None
      /\ w.cn.slot.engine \in EngineType /\ w.cn.slot.engine.url # None /\ w.cn.slot \in SlotType
  BY <1>1, BackIs
<1>3. w.cn.slot.owner /\ w.tk.database # None
  BY <1>1 DEF Stage, StageBack
<1>4. w.cn.slot.engine.who \in Whos /\ w.tk.database \in Databases
  BY <1>2 DEF EngineType, WorldType, TaskType
<1>5. /\ Writes(w, v)
      /\ Session(v).who = w.cn.slot.engine.who /\ Session(v).selects = w.tk.database
      /\ Session(v).url = Session(w).url /\ Session(v).up = Session(w).up /\ Session(v).user = Session(w).user
      /\ v.cn.slot.selected = w.cn.slot.selected /\ v.cn.slot.owner = w.cn.slot.owner
      /\ v.cn.slot.user = w.cn.slot.user /\ v.cn.slot.bound = w.cn.slot.bound
  BY <1>2, <1>4, RunsIs
<1>6. w.cn.slot.engine.up /\ w.cn.slot.engine.who = Owner
  BY <1>2, <1>3, Awake DEF SlotOK
<1>7. v.cn.slot.engine = Session(v) /\ v.tk.phase = w.tk.phase /\ v.tk.database = w.tk.database
  BY <1>2, <1>5 DEF Writes, Session
<1>8. SlotOK(v.cn.slot) /\ ~v.cn.slot.bound
  <2>1. /\ v.cn.slot.engine.url # None /\ v.cn.slot.engine.url = w.cn.slot.engine.url
        /\ v.cn.slot.engine.up /\ v.cn.slot.engine.who = Owner
        /\ v.cn.slot.engine.user = w.cn.slot.engine.user
    BY <1>2, <1>5, <1>6, <1>7
  <2>2. /\ v.cn.slot.selected = None /\ v.cn.slot.owner
        /\ v.cn.slot.user = w.cn.slot.user /\ v.cn.slot.bound = w.cn.slot.bound
    BY <1>2, <1>3, <1>5
  <2>3. /\ ~w.cn.slot.bound /\ w.cn.slot.user = w.cn.slot.engine.user
        /\ w.cn.slot.engine.user => KeyOf(w.cn.slot.engine.url) = Memory
    BY <1>2, <1>3 DEF SlotOK
  <2> QED BY <2>1, <2>2, <2>3 DEF SlotOK
<1>9. v.cn.slot.engine # NoEngine /\ v.cn.slot.engine.url = w.cn.slot.engine.url
  BY <1>2, <1>5, <1>7 DEF NoEngine
<1>10. Returning(v.cn, v.tk)
  <2>1. v.cn.slot.selected = None /\ (v.cn.slot.bound => w.cn.slot.bound)
    BY <1>2, <1>5
  <2>2. w \in WorldType /\ Writes(w, v) /\ Returning(w.cn, w.tk)
    BY <1>2, <1>5
  <2> QED BY <1>8, <1>9, <2>1, <2>2, ReturningKept
<1>11. Sound(v) /\ SameCall(w, v) /\ v \in WorldType
  BY <1>5, WritesSound DEF Writes
<1>12. ASSUME w.tk.phase = "own" PROVE Post(w, Ends(Published(v)))
  <2>1. PICK s : s = [v.cn.slot EXCEPT !.selected = v.tk.database]
    OBVIOUS
  <2>2. v.cn.slot \in SlotType /\ v.tk.database \in Databases
    BY <1>11 DEF WorldType, ConnType, TaskType
  <2>3. /\ s \in SlotType /\ s.engine = v.cn.slot.engine /\ s.selected = v.tk.database
        /\ s.owner = v.cn.slot.owner /\ s.bound = v.cn.slot.bound /\ s.user = v.cn.slot.user
    BY <2>1, <2>2 DEF SlotType
  <2>4. PICK p : p = WithSlot(v, s)
    OBVIOUS
  <2>5. Published(v) = p
    BY <1>7, <1>12, <2>1, <2>4 DEF Published, WithSlot
  <2>6. Writes(v, p) /\ p.cn.slot = s
    BY <1>11, <2>3, <2>4, SlotIs
  <2>7. FreeOK(s)
    <3>1. /\ s.engine.up /\ s.engine.selects = s.selected /\ s.engine.who = Owner /\ ~s.bound
      BY <1>2, <1>5, <1>6, <1>7, <1>8, <2>3
    <3> QED BY <1>8, <2>3, <3>1 DEF FreeOK, SlotOK
  <2>8. Sound(p) /\ SameCall(v, p)
    BY <1>11, <2>6, WritesSound
  <2>9. p.tk.op = "invalidate"
    BY <1>10, <1>7, <1>12, <2>8 DEF Returning, SameCall
  <2>10. Post(p, Ends(p))
    BY <2>6, <2>7, <2>8, <2>9, EndsPost
  <2>11. SameCall(w, p)
    BY <1>11, <2>8 DEF SameCall, Keeps
  <2> QED BY <2>5, <2>10, <2>11, PostFrom
<1>13. ASSUME w.tk.phase # "own" PROVE Post(w, Replay(v))
  <2>1. SessionSlot(v.cn, v.tk) = v.cn.slot
    BY <1>2, <1>7 DEF SessionSlot
  <2>2. v.tk.phase \in {"resetting", "restoring"} /\ Phased(v.cn, v.tk)
    BY <1>7, <1>10, <1>13 DEF Returning
  <2>3. Ready(v)
    BY <1>5, <1>7, <1>8, <1>6, <2>1, <2>2 DEF Ready
  <2>4. Post(v, Replay(v))
    BY <1>3, <1>5, <1>11, <2>3, ReplayPost
  <2> QED BY <1>11, <2>4, PostFrom
<1> QED BY <1>12, <1>13

(* A task cancelled while use() runs: the database may be selected.        *)
LEMMA UseCancelledPost ==
  ASSUME NEW w, Sound(w), w.tk.pc = "using", Stage(w.cn, w.tk),
         NEW selects \in Databases,
         NEW v, v = Runs(w, w.cn.slot.engine.who, selects)
  PROVE  Post(w, Ends(v))
<1>1. w.tk.pc \in WayBack
  BY DEF WayBack
<1>2. /\ w \in WorldType /\ w.tk.phase # "opening" /\ Session(w) = w.cn.slot.engine
      /\ SlotOK(w.cn.slot) /\ w.cn.slot.engine # NoEngine /\ w.cn.slot.selected = None
      /\ w.cn.slot.engine \in EngineType /\ w.cn.slot \in SlotType /\ w.cn.slot.engine.url # None
  BY <1>1, BackIs
<1>3. w.cn.slot.owner
  BY <1>1 DEF Stage, StageBack
<1>4. w.cn.slot.engine.who \in Whos
  BY <1>2 DEF EngineType
<1>5. /\ Writes(w, v)
      /\ Session(v).who = w.cn.slot.engine.who
      /\ Session(v).url = Session(w).url /\ Session(v).up = Session(w).up /\ Session(v).user = Session(w).user
      /\ v.cn.slot.selected = w.cn.slot.selected /\ v.cn.slot.owner = w.cn.slot.owner
      /\ v.cn.slot.user = w.cn.slot.user /\ v.cn.slot.bound = w.cn.slot.bound
  BY <1>2, <1>4, RunsIs
<1>6. w.cn.slot.engine.up /\ w.cn.slot.engine.who = Owner
  BY <1>2, <1>3, Awake DEF SlotOK
<1>7. v.cn.slot.engine = Session(v)
  BY <1>2, <1>5 DEF Writes, Session
<1>8. SlotOK(v.cn.slot)
  <2>1. /\ v.cn.slot.engine.url # None /\ v.cn.slot.engine.url = w.cn.slot.engine.url
        /\ v.cn.slot.engine.up /\ v.cn.slot.engine.who = Owner
        /\ v.cn.slot.engine.user = w.cn.slot.engine.user
    BY <1>2, <1>5, <1>6, <1>7
  <2>2. /\ v.cn.slot.selected = None /\ v.cn.slot.owner
        /\ v.cn.slot.user = w.cn.slot.user /\ v.cn.slot.bound = w.cn.slot.bound
    BY <1>2, <1>3, <1>5
  <2>3. /\ ~w.cn.slot.bound /\ w.cn.slot.user = w.cn.slot.engine.user
        /\ w.cn.slot.engine.user => KeyOf(w.cn.slot.engine.url) = Memory
    BY <1>2, <1>3 DEF SlotOK
  <2> QED BY <2>1, <2>2, <2>3 DEF SlotOK
<1>9. Sound(v) /\ SameCall(w, v)
  BY <1>5, WritesSound
<1>10. Post(v, Ends(v))
  BY <1>2, <1>5, <1>8, <1>9, EndsPost, Unselected DEF Served
<1> QED BY <1>9, <1>10, PostFrom

-----------------------------------------------------------------------------
(***************************************************************************)
(* The steps of a sign-in                                                  *)
(***************************************************************************)
(* A sign-in was asked for with the settings the connection still has.     *)
Called(w) == w.tk.op \in {"signin", "bind"} => w.tk.who.of = w.cn.database /\ w.cn.database # None

LEMMA CalledKept ==
  ASSUME NEW w, NEW u, Called(w), SameCall(w, u)
  PROVE  Called(u)
BY DEF Called, SameCall, Keeps

(* While a sign-in waits, its slot and its session.                        *)
LEMMA SigningIs ==
  ASSUME NEW w, Sound(w), w.tk.pc \in Signing, Stage(w.cn, w.tk)
  PROVE  LET ss == SessionSlot(w.cn, w.tk) IN
         /\ w \in WorldType /\ ss \in SlotType /\ w.cn.slot \in SlotType
         /\ ss.engine = Session(w)
         /\ ss.owner = w.cn.slot.owner /\ ss.user = w.cn.slot.user /\ ss.bound = w.cn.slot.bound
         /\ ss.selected = w.cn.slot.selected
         /\ SlotOK(ss) /\ ~w.cn.slot.bound /\ w.tk.was = w.cn.slot.owner
         /\ Session(w) # NoEngine /\ Session(w).url # None
         /\ \/ /\ w.tk.phase \in {"opening", "resetting", "restoring"} /\ w.tk.pc # "exchanging"
               /\ Phased(w.cn, w.tk) /\ w.cn.slot.owner /\ Session(w).selects = w.tk.database
            \/ Owns(w.cn, w.tk) /\ w.tk.pc # "replaying" /\ ss = w.cn.slot
<1> DEFINE ss == SessionSlot(w.cn, w.tk)
<1>1. /\ w \in WorldType /\ w.cn.slot \in SlotType /\ ss \in SlotType /\ ss.engine = Session(w)
      /\ ss.owner = w.cn.slot.owner /\ ss.user = w.cn.slot.user /\ ss.bound = w.cn.slot.bound
      /\ ss.selected = w.cn.slot.selected
      /\ w.tk.phase # "opening" => ss = w.cn.slot
  BY SlotFields DEF Sound
<1>2. /\ SlotOK(ss) /\ ~w.cn.slot.bound /\ w.tk.was = w.cn.slot.owner
      /\ \/ /\ w.tk.phase \in {"opening", "resetting", "restoring"} /\ w.tk.pc # "exchanging"
            /\ Phased(w.cn, w.tk) /\ w.cn.slot.owner /\ ss.engine.selects = w.tk.database
         \/ Owns(w.cn, w.tk) /\ w.tk.pc # "replaying"
  BY DEF Stage, StageSigning
<1>3. Phased(w.cn, w.tk) => ss.engine # NoEngine
  BY DEF Phased
<1> HIDE DEF ss
<1>4. Owns(w.cn, w.tk) => ss = w.cn.slot /\ ss.engine # NoEngine
  BY <1>1 DEF Owns
<1>5. ss.engine # NoEngine /\ ss.engine.url # None
  BY <1>2, <1>3, <1>4 DEF SlotOK
<1> QED BY <1>1, <1>2, <1>4, <1>5 DEF ss

(* A slot in use by a sign-in may be let go, unbound, as it is.            *)
LEMMA SignerEnds ==
  ASSUME NEW w, Sound(w), FreeOK(w.cn.slot), w.tk.phase = "own" => w.tk.op # "get",
         w.tk.phase # "own" => w.cn.slot.selected = None
  PROVE  Post(w, Ends(w)) /\ Post(w, Fails(w))
<1>1. w.tk.op = "get" => Served(w.cn, w.tk.moved)
  BY DEF Served
<1> QED BY <1>1, EndsPost, FailsPost

(* The engine did not open: its claim is given up.                         *)
LEMMA NotOpenedPost ==
  ASSUME NEW w, Sound(w), w.cn.slot.engine = NoEngine, ~w.cn.slot.bound
  PROVE  Post(w, NotOpened(w))
<1> DEFINE held == Unclaimed(w.claims, w.tk.engine.url, w.tk.conn)
<1>1. w \in WorldType /\ w.claims \in ClaimsType /\ w.tk.conn \in Connections \cup {None}
  BY DEF Sound, WorldType, TaskType
<1>2. held \in ClaimsType
  BY <1>1, ClaimsTyped
<1>3. FreeOK(w.cn.slot) /\ Served(w.cn, w.tk.moved)
  BY DEF FreeOK, SlotOK, Served
<1>4. CASE w.tk.claimed
  <2>1. PICK u : u = WithClaims(w, held)
    OBVIOUS
  <2>2. Writes(w, u) /\ u.cn = w.cn /\ u.tk = w.tk
    BY <1>1, <1>2, <2>1, ClaimsIs
  <2>3. Sound(u) /\ SameCall(w, u)
    BY <2>2, WritesSound
  <2>4. Post(u, Ends(u))
    BY <1>3, <2>2, <2>3, EndsPost
  <2>5. NotOpened(w) = Ends(u)
    BY <1>4, <2>1 DEF NotOpened, WithClaims
  <2> QED BY <2>3, <2>4, <2>5, PostFrom
<1>5. CASE ~w.tk.claimed
  BY <1>3, <1>5, EndsPost DEF NotOpened
<1> QED BY <1>4, <1>5

(* The owner user could not be defined.                                    *)
LEMMA UndefinedPost ==
  ASSUME NEW w, Sound(w), Called(w), w.tk.pc = "defining", Stage(w.cn, w.tk)
  PROVE  Post(w, Undefined(w))
<1> DEFINE ss == SessionSlot(w.cn, w.tk)
<1>1. w.tk.pc \in Signing
  BY DEF Signing
<1>2. /\ SlotOK(ss) /\ ~w.cn.slot.bound
      /\ \/ w.tk.phase \in {"opening", "resetting", "restoring"} /\ Phased(w.cn, w.tk)
         \/ Owns(w.cn, w.tk) /\ ss = w.cn.slot
  BY <1>1, SigningIs
<1>3. w.tk.phase # "opening" => ss = w.cn.slot
  BY DEF SessionSlot
<1> HIDE DEF ss
<1>4. CASE w.tk.phase = "opening"
  <2>1. w.cn.slot.engine = NoEngine
    BY <1>2, <1>4 DEF Phased, Owns
  <2> QED BY <1>2, <1>4, <2>1, NotOpenedPost DEF Undefined
<1>5. CASE w.tk.op = "bind" /\ w.tk.phase = "own"
  <2>1. Owns(w.cn, w.tk)
    BY <1>2, <1>5
  <2>2. Post(w, Reset(w, "restoring"))
    BY <1>2, <1>3, <1>5, <2>1, ResetPost DEF Owns, Called
  <2> QED BY <1>5, <2>2 DEF Undefined
<1>6. CASE w.tk.phase # "opening" /\ ~(w.tk.op = "bind" /\ w.tk.phase = "own")
  <2>1. FreeOK(w.cn.slot)
    BY <1>2, <1>3, <1>6 DEF FreeOK
  <2>2. /\ w.tk.phase = "own" => w.tk.op # "get"
        /\ w.tk.phase # "own" => w.cn.slot.selected = None
    BY <1>2 DEF Owns, Phased
  <2>3. Post(w, Fails(w))
    BY <2>1, <2>2, SignerEnds
  <2> QED BY <1>6, <2>3 DEF Undefined
<1> QED BY <1>4, <1>5, <1>6

(* The session is the owner's, and its user is defined or not.             *)
LEMMA DefinedIs ==
  ASSUME NEW w, Sound(w), w.tk.pc \in {"defining", "undoing"}, Stage(w.cn, w.tk),
         NEW is \in BOOLEAN, is = TRUE => KeyOf(Session(w).url) = Memory,
         NEW v, v = Defines(w, is)
  PROVE  /\ Writes(w, v) /\ Sound(v) /\ SameCall(w, v)
         /\ SlotOK(SessionSlot(v.cn, v.tk)) /\ ~v.cn.slot.bound /\ v.cn.slot.owner /\ v.cn.slot.user = is
         /\ v.tk.was = v.cn.slot.owner
         /\ SessionSlot(v.cn, v.tk).engine = Session(v) /\ Session(v).url = Session(w).url
         /\ \/ Ready(v)
            \/ Owns(v.cn, v.tk) /\ SessionSlot(v.cn, v.tk) = v.cn.slot
<1> DEFINE ss == SessionSlot(w.cn, w.tk)
           vs == SessionSlot(v.cn, v.tk)
<1>1. w.tk.pc \in Signing
  BY DEF Signing
<1>2. /\ w \in WorldType /\ ss \in SlotType /\ ss.engine = Session(w)
      /\ ss.owner = w.cn.slot.owner /\ ss.user = w.cn.slot.user /\ ss.bound = w.cn.slot.bound
      /\ ss.selected = w.cn.slot.selected
      /\ SlotOK(ss) /\ ~w.cn.slot.bound /\ w.tk.was = w.cn.slot.owner
      /\ Session(w) # NoEngine /\ Session(w).url # None
      /\ \/ /\ w.tk.phase \in {"opening", "resetting", "restoring"}
            /\ Phased(w.cn, w.tk) /\ Session(w).selects = w.tk.database
         \/ Owns(w.cn, w.tk) /\ ss = w.cn.slot
  BY <1>1, SigningIs
<1>3. w.cn.slot.owner
  BY <1>1 DEF Stage, StageSigning
<1>4. /\ Writes(w, v)
      /\ Session(v).user = is /\ v.cn.slot.user = is
      /\ Session(v).url = Session(w).url /\ Session(v).up = Session(w).up
      /\ Session(v).who = Session(w).who /\ Session(v).selects = Session(w).selects
      /\ v.cn.slot.selected = w.cn.slot.selected /\ v.cn.slot.owner = w.cn.slot.owner
      /\ v.cn.slot.bound = w.cn.slot.bound
  <2>1. w \in WorldType
    BY <1>2
  <2> QED BY <2>1, DefinesIs
<1>5. v \in WorldType /\ Sound(v) /\ SameCall(w, v)
  BY <1>4, WritesSound DEF Writes
<1>6. /\ vs.engine = Session(v) /\ vs \in SlotType
      /\ vs.owner = v.cn.slot.owner /\ vs.user = v.cn.slot.user /\ vs.bound = v.cn.slot.bound
      /\ vs.selected = v.cn.slot.selected
      /\ v.tk.phase # "opening" => vs = v.cn.slot
  BY <1>5, SlotFields
<1> HIDE DEF ss
<1> HIDE DEF vs
<1>7. ss.engine.up /\ ss.engine.who = Owner
  <2>1. ss.owner /\ ss.engine # NoEngine
    BY <1>2, <1>3
  <2> QED BY <1>2, <2>1, Awake DEF SlotOK
<1>8. /\ vs.engine.up /\ vs.engine.who = Owner /\ vs.engine.url # None
      /\ vs.engine.selects = ss.engine.selects /\ vs.engine.user = is
  BY <1>2, <1>4, <1>6, <1>7
<1>9. vs.owner /\ ~vs.bound /\ vs.user = is /\ vs.selected = ss.selected
  BY <1>2, <1>3, <1>4, <1>6
<1>10. SlotOK(vs)
  <2>1. vs.selected # None => vs.engine.selects = vs.selected
    BY <1>2, <1>8, <1>9 DEF SlotOK
  <2>2. vs.engine.user => KeyOf(vs.engine.url) = Memory
    BY <1>4, <1>6, <1>8
  <2> QED BY <1>8, <1>9, <2>1, <2>2 DEF SlotOK
<1>11. Session(v) # NoEngine
  BY <1>6, <1>8 DEF NoEngine
<1>12. v.tk.was = v.cn.slot.owner
  BY <1>2, <1>4 DEF Writes
<1>13. CASE w.tk.phase \in {"opening", "resetting", "restoring"} /\ Phased(w.cn, w.tk)
            /\ Session(w).selects = w.tk.database
  <2>1. v.cn.slot.selected = None
    BY <1>4, <1>13 DEF Phased
  <2>2. v.cn.slot.bound => w.cn.slot.bound
    BY <1>4
  <2>3. Phased(v.cn, v.tk)
    BY <1>2, <1>4, <1>11, <1>13, <2>1, <2>2, PhasedKept
  <2>4. v.tk.phase = w.tk.phase /\ v.tk.database = w.tk.database
    BY <1>4 DEF Writes
  <2>5. Ready(v)
    BY <1>4, <1>6, <1>8, <1>9, <1>10, <1>13, <2>3, <2>4 DEF Ready, vs
  <2> QED BY <1>3, <1>4, <1>5, <1>6, <1>9, <1>10, <1>12, <2>5 DEF vs
<1>14. CASE Owns(w.cn, w.tk)
  <2>1. /\ v.tk.phase = w.tk.phase /\ v.tk.op = w.tk.op /\ v.cn.database = w.cn.database
    BY <1>4 DEF Writes, SameCall, Keeps
  <2>2. vs = v.cn.slot
    BY <1>6, <1>14, <2>1 DEF Owns
  <2>3. v.cn.slot.engine # NoEngine
    BY <1>6, <1>11, <2>2
  <2>4. Owns(v.cn, v.tk)
    BY <1>4, <1>14, <2>1, <2>3 DEF Owns
  <2> QED BY <1>3, <1>4, <1>5, <1>6, <1>9, <1>10, <1>12, <2>2, <2>4 DEF vs
<1> QED BY <1>2, <1>13, <1>14

LEMMA DefinedPost ==
  ASSUME NEW w, Sound(w), Called(w), w.tk.pc = "defining", Stage(w.cn, w.tk)
  PROVE  Post(w, IF w.tk.phase = "own" THEN At(Defines(w, TRUE), "exchanging") ELSE ReplaySends(Defines(w, TRUE)))
<1>1. PICK yes \in BOOLEAN : yes = TRUE
  OBVIOUS
<1>2. PICK v : v = Defines(w, yes)
  OBVIOUS
<1>3. KeyOf(Session(w).url) = Memory
  <2>1. w.tk.pc \in Signing
    BY DEF Signing
  <2>2. SessionSlot(w.cn, w.tk).engine = Session(w)
    BY <2>1, SigningIs
  <2> QED BY <2>1, <2>2 DEF Stage, StageSigning
<1>4. /\ Writes(w, v) /\ Sound(v) /\ SameCall(w, v)
      /\ SlotOK(SessionSlot(v.cn, v.tk)) /\ ~v.cn.slot.bound /\ v.cn.slot.owner /\ v.cn.slot.user = yes
      /\ v.tk.was = v.cn.slot.owner
      /\ \/ Ready(v)
         \/ Owns(v.cn, v.tk) /\ SessionSlot(v.cn, v.tk) = v.cn.slot
  <2>1. w.tk.pc \in {"defining", "undoing"}
    OBVIOUS
  <2>2. yes = TRUE => KeyOf(Session(w).url) = Memory
    BY <1>3
  <2> QED BY <1>1, <1>2, <2>1, <1>3, DefinedIs
<1>5. v \in WorldType /\ v.tk.phase = w.tk.phase
  BY <1>4 DEF Writes
<1>6. CASE w.tk.phase = "own"
  <2>1. Owns(v.cn, v.tk)
    BY <1>4, <1>5, <1>6 DEF Ready
  <2>2. Staged(v, "exchanging")
    BY <1>1, <1>4, <1>5, <2>1, StagedSigning DEF Signing
  <2>3. Post(v, At(v, "exchanging"))
    BY <1>4, <2>2, AtPost DEF Holding, Signing
  <2>4. Post(w, At(v, "exchanging"))
    BY <1>4, <2>3, PostFrom
  <2> QED BY <1>1, <1>2, <1>6, <2>4
<1>7. CASE w.tk.phase # "own"
  <2>1. Ready(v)
    BY <1>4, <1>5, <1>7 DEF Owns
  <2>2. Post(v, ReplaySends(v))
    BY <1>1, <1>4, <2>1, ReplaySendsPost
  <2>3. Post(w, ReplaySends(v))
    BY <1>4, <2>2, PostFrom
  <2> QED BY <1>1, <1>2, <1>7, <2>3
<1> QED BY <1>6, <1>7

(* Refused: the session is the one there was.                              *)
LEMMA RefusedPost ==
  ASSUME NEW w, Sound(w), Called(w), ~w.cn.slot.bound,
         Ready(w) \/ (Owns(w.cn, w.tk) /\ SlotOK(w.cn.slot))
  PROVE  Post(w, Refused(w))
<1>1. CASE Ready(w)
  <2> DEFINE v == Published(w)
  <2>1. Sound(v) /\ SameCall(w, v) /\ FreeOK(v.cn.slot) /\ v.tk.op = w.tk.op
        /\ v.tk.generation = w.tk.generation /\ v.cn.generation = w.cn.generation
    BY <1>1, PublishedIs DEF SameCall
  <2>2. CASE w.tk.phase \in {"opening", "resetting"}
    <3>1. w.tk.generation = w.cn.generation => Served(v.cn, v.tk.moved)
      BY <1>1, <2>2, PublishedServes
    <3> HIDE DEF v
    <3>2. Post(v, Raises(v))
      BY <2>1, <3>1, RaisesPost
    <3>3. Refused(w) = Raises(v)
      BY <2>2 DEF Refused, v
    <3> QED BY <2>1, <3>2, <3>3, PostFrom
  <2>3. CASE w.tk.phase = "restoring"
    <3>1. w.tk.op = "bind"
      BY <1>1, <2>3 DEF Ready, Phased
    <3> HIDE DEF v
    <3>2. Post(v, Ends(v))
      BY <2>1, <3>1, EndsPost
    <3>3. Refused(w) = Ends(v)
      BY <2>3 DEF Refused, v
    <3> QED BY <2>1, <3>2, <3>3, PostFrom
  <2> QED BY <1>1, <2>2, <2>3 DEF Ready
<1>2. CASE Owns(w.cn, w.tk) /\ SlotOK(w.cn.slot)
  <2>1. CASE w.tk.op = "bind"
    <3>1. Post(w, Reset(w, "restoring"))
      BY <1>2, <2>1, ResetPost DEF Owns, Called
    <3>2. Refused(w) = Reset(w, "restoring")
      BY <1>2, <2>1 DEF Refused, Owns
    <3> QED BY <3>1, <3>2
  <2>2. CASE w.tk.op = "signin"
    <3>1. FreeOK(w.cn.slot)
      BY <1>2 DEF FreeOK
    <3>2. Post(w, Ends(w))
      BY <2>2, <3>1, EndsPost
    <3>3. Refused(w) = Ends(w)
      BY <1>2, <2>2 DEF Refused, Owns
    <3> QED BY <3>2, <3>3
  <2> QED BY <1>2, <2>1, <2>2 DEF Owns
<1> QED BY <1>1, <1>2

LEMMA UndonePost ==
  ASSUME NEW w, Sound(w), Called(w), w.tk.pc = "undoing", Stage(w.cn, w.tk)
  PROVE  Post(w, Refused(Defines(w, FALSE))) /\ Post(w, Refused(w))
<1>1. PICK no \in BOOLEAN : no = FALSE
  OBVIOUS
<1>2. PICK v : v = Defines(w, no)
  OBVIOUS
<1>3. /\ Sound(v) /\ SameCall(w, v)
      /\ SlotOK(SessionSlot(v.cn, v.tk)) /\ ~v.cn.slot.bound
      /\ \/ Ready(v)
         \/ Owns(v.cn, v.tk) /\ SessionSlot(v.cn, v.tk) = v.cn.slot
  BY <1>1, <1>2, DefinedIs
<1>4. Called(v)
  BY <1>3, CalledKept
<1>5. Post(v, Refused(v))
  BY <1>3, <1>4, RefusedPost
<1>6. Post(w, Refused(v))
  BY <1>3, <1>5, PostFrom
<1>7. w.tk.pc \in Signing /\ w.cn.slot.owner
  BY DEF Signing, Stage, StageSigning
<1>8. Ready(w) \/ (Owns(w.cn, w.tk) /\ SlotOK(w.cn.slot))
  <2>1. /\ SessionSlot(w.cn, w.tk).engine = Session(w) /\ SlotOK(SessionSlot(w.cn, w.tk))
        /\ ~w.cn.slot.bound /\ Session(w) # NoEngine
        /\ SessionSlot(w.cn, w.tk).owner = w.cn.slot.owner
        /\ \/ /\ w.tk.phase \in {"opening", "resetting", "restoring"}
              /\ Phased(w.cn, w.tk) /\ Session(w).selects = w.tk.database
           \/ Owns(w.cn, w.tk) /\ SessionSlot(w.cn, w.tk) = w.cn.slot
    BY <1>7, SigningIs
  <2>2. Session(w).who = Owner
    BY <1>7, <2>1 DEF SlotOK
  <2> QED BY <2>1, <2>2 DEF Ready
<1>9. ~w.cn.slot.bound
  BY <1>7, SigningIs
<1>10. Post(w, Refused(w))
  BY <1>8, <1>9, RefusedPost
<1> QED BY <1>1, <1>2, <1>6, <1>10

(* The session is no longer the owner's.                                   *)
NotOwner(w) == [w EXCEPT !.cn.slot.owner = FALSE]

LEMMA NotOwnerIs ==
  ASSUME NEW w \in WorldType, NEW v, v = NotOwner(w)
  PROVE  /\ Writes(w, v) /\ Session(v) = Session(w)
         /\ v.cn.slot.selected = w.cn.slot.selected /\ v.cn.slot.user = w.cn.slot.user
         /\ ~v.cn.slot.owner /\ v.cn.slot.bound = w.cn.slot.bound
<1>1. w.cn \in ConnType /\ w.cn.slot \in SlotType
  BY DEF WorldType, ConnType
<1>2. PICK s : s = [w.cn.slot EXCEPT !.owner = FALSE]
  OBVIOUS
<1>3. s \in SlotType
  BY <1>1, <1>2 DEF SlotType
<1>4. /\ s.engine = w.cn.slot.engine /\ s.selected = w.cn.slot.selected /\ s.user = w.cn.slot.user
      /\ s.bound = w.cn.slot.bound
  BY <1>1, <1>2 DEF SlotType
<1>5. ~s.owner
  BY <1>1, <1>2 DEF SlotType
<1>6. v = WithSlot(w, s)
  BY <1>1, <1>2 DEF NotOwner, WithSlot, WorldType, ConnType, SlotType
<1>7. Writes(w, v) /\ Session(v) = Session(w) /\ v.cn.slot = s
  BY <1>3, <1>4, <1>6, SlotIs
<1> QED BY <1>4, <1>5, <1>7

(* The session is a model's, until the model adopts it.                    *)
Binds(w) == [w EXCEPT !.cn.slot.bound = TRUE]

LEMMA BindsIs ==
  ASSUME NEW w \in WorldType, NEW v, v = Binds(w)
  PROVE  /\ Writes(w, v) /\ Session(v) = Session(w)
         /\ v.cn.slot.selected = w.cn.slot.selected /\ v.cn.slot.user = w.cn.slot.user
         /\ v.cn.slot.owner = w.cn.slot.owner
<1>1. w.cn \in ConnType /\ w.cn.slot \in SlotType
  BY DEF WorldType, ConnType
<1>2. PICK s : s = [w.cn.slot EXCEPT !.bound = TRUE]
  OBVIOUS
<1>3. s \in SlotType
  BY <1>1, <1>2 DEF SlotType
<1>4. /\ s.engine = w.cn.slot.engine /\ s.selected = w.cn.slot.selected /\ s.user = w.cn.slot.user
      /\ s.owner = w.cn.slot.owner
  BY <1>1, <1>2 DEF SlotType
<1>5. v = WithSlot(w, s)
  BY <1>1, <1>2 DEF Binds, WithSlot, WorldType, ConnType, SlotType
<1>6. Writes(w, v) /\ Session(v) = Session(w) /\ v.cn.slot = s
  BY <1>3, <1>4, <1>5, SlotIs
<1> QED BY <1>4, <1>6

(* A token was exchanged: the session is that user's.                      *)
LEMMA ExchangeIs ==
  ASSUME NEW w, Sound(w), w.tk.pc \in {"replaying", "exchanging"}, Stage(w.cn, w.tk),
         NEW who \in Whos, who.of # None, w.cn.slot.owner \/ w.cn.slot.selected # None,
         NEW v, v = NotOwner(Runs(w, who, who.of))
  PROVE  /\ Writes(w, v) /\ Sound(v) /\ SameCall(w, v) /\ v \in WorldType
         /\ ~v.cn.slot.bound /\ ~v.cn.slot.owner
         /\ Session(v).who = who /\ Session(v).selects = who.of
         /\ Session(v) # NoEngine /\ Session(v).url = Session(w).url
         /\ v.cn.slot.selected = w.cn.slot.selected
         /\ SessionSlot(v.cn, v.tk).engine = Session(v)
         /\ (w.cn.slot.selected = None \/ w.cn.slot.selected = who.of) => SlotOK(SessionSlot(v.cn, v.tk))
<1> DEFINE ss == SessionSlot(w.cn, w.tk)
           vs == SessionSlot(v.cn, v.tk)
<1>1. w.tk.pc \in Signing
  BY DEF Signing
<1>2. /\ w \in WorldType /\ ss \in SlotType /\ ss.engine = Session(w)
      /\ ss.owner = w.cn.slot.owner /\ ss.user = w.cn.slot.user /\ ss.bound = w.cn.slot.bound
      /\ ss.selected = w.cn.slot.selected
      /\ SlotOK(ss) /\ ~w.cn.slot.bound
      /\ Session(w) # NoEngine /\ Session(w).url # None
      /\ \/ w.cn.slot.owner /\ Session(w).selects = w.tk.database
         \/ Owns(w.cn, w.tk)
  BY <1>1, SigningIs
<1>3. KeyOf(ss.engine.url) = Memory => w.cn.slot.user
  BY <1>1 DEF Stage, StageSigning
<1>4. who.of \in Databases
  BY DEF Whos
<1>5. PICK u : u = Runs(w, who, who.of)
  OBVIOUS
<1>6. /\ Writes(w, u)
      /\ Session(u).who = who /\ Session(u).selects = who.of
      /\ Session(u).url = Session(w).url /\ Session(u).up = Session(w).up /\ Session(u).user = Session(w).user
      /\ u.cn.slot.selected = w.cn.slot.selected /\ u.cn.slot.user = w.cn.slot.user
      /\ u.cn.slot.bound = w.cn.slot.bound
  <2>1. w \in WorldType
    BY <1>2
  <2> QED BY <1>4, <1>5, <2>1, RunsIs
<1>7. u \in WorldType
  BY <1>6 DEF Writes
<1>8. /\ Writes(u, v) /\ Session(v) = Session(u)
      /\ v.cn.slot.selected = u.cn.slot.selected /\ v.cn.slot.user = u.cn.slot.user
      /\ ~v.cn.slot.owner /\ v.cn.slot.bound = u.cn.slot.bound
  BY <1>5, <1>7, NotOwnerIs
<1>9. Writes(w, v)
  BY <1>6, <1>8, WritesTwice
<1>10. Sound(v) /\ SameCall(w, v) /\ v \in WorldType
  BY <1>9, WritesSound DEF Writes
<1>11. /\ vs.engine = Session(v) /\ vs \in SlotType
       /\ vs.owner = v.cn.slot.owner /\ vs.user = v.cn.slot.user /\ vs.bound = v.cn.slot.bound
       /\ vs.selected = v.cn.slot.selected
  BY <1>10, SlotFields
<1> HIDE DEF ss
<1> HIDE DEF vs
<1>12. ss.engine.up
  <2>1. ss.owner \/ ss.selected # None
    BY <1>2
  <2>2. CASE ss.owner
    <3>1. ss \in SlotType /\ SlotOK(ss) /\ ss.engine # NoEngine
      BY <1>2
    <3> QED BY <2>2, <3>1, Awake
  <2>3. CASE ss.selected # None
    BY <1>2, <2>3 DEF SlotOK
  <2> QED BY <2>1, <2>2, <2>3
<1>13. /\ Session(v).who = who /\ Session(v).selects = who.of /\ Session(v).url = Session(w).url
       /\ Session(v).up = ss.engine.up /\ Session(v).user = ss.engine.user
       /\ v.cn.slot.selected = w.cn.slot.selected /\ ~v.cn.slot.bound
  BY <1>2, <1>6, <1>8
<1>14. Session(v) # NoEngine
  BY <1>2, <1>13 DEF NoEngine
<1>15. (w.cn.slot.selected = None \/ w.cn.slot.selected = who.of) => SlotOK(vs)
  <2>1. SUFFICES ASSUME w.cn.slot.selected = None \/ w.cn.slot.selected = who.of
                 PROVE  SlotOK(vs)
    OBVIOUS
  <2>2. /\ vs.engine.url # None /\ vs.engine.url = ss.engine.url /\ vs.engine.up
        /\ vs.engine.user = ss.engine.user /\ vs.engine.who = who /\ vs.engine.selects = who.of
    BY <1>2, <1>11, <1>12, <1>13
  <2>3. vs.selected = None \/ vs.selected = who.of
    BY <1>11, <1>13, <2>1
  <2>4. vs.user = ss.user /\ ~vs.bound /\ ~vs.owner
    BY <1>2, <1>6, <1>8, <1>11
  <2>5. ss.user = ss.engine.user /\ (ss.engine.user => KeyOf(ss.engine.url) = Memory)
    BY <1>2 DEF SlotOK
  <2>6. KeyOf(ss.engine.url) = Memory => ss.user
    BY <1>2, <1>3
  <2> QED BY <2>2, <2>3, <2>4, <2>5, <2>6 DEF SlotOK
<1> QED BY <1>8, <1>9, <1>10, <1>11, <1>13, <1>14, <1>15 DEF vs

LEMMA ReplayingPost ==
  ASSUME NEW w, Sound(w), w.tk.pc = "replaying", Stage(w.cn, w.tk)
  PROVE  Post(w, Replayed(NotOwner(Runs(w, w.tk.replays, w.tk.replays.of))))
<1>1. w.tk.pc \in Signing
  BY DEF Signing
<1>2. /\ w.tk.phase \in {"opening", "resetting", "restoring"}
      /\ Phased(w.cn, w.tk) /\ w \in WorldType /\ w.cn.slot.owner
  BY <1>1, SigningIs
<1>3. w.tk.replays.of = w.tk.database /\ w.tk.replays \in Whos
  BY <1>1, <1>2 DEF Stage, StageSigning, WorldType, TaskType
<1>4. w.tk.database # None /\ w.cn.slot.selected = None
  BY <1>2 DEF Phased
<1>5. PICK v : v = NotOwner(Runs(w, w.tk.replays, w.tk.replays.of))
  OBVIOUS
<1>6. /\ Writes(w, v) /\ Sound(v) /\ SameCall(w, v) /\ v \in WorldType
      /\ ~v.cn.slot.bound /\ ~v.cn.slot.owner
      /\ Session(v).who = w.tk.replays /\ Session(v).selects = w.tk.replays.of
      /\ Session(v) # NoEngine /\ Session(v).url = Session(w).url
      /\ v.cn.slot.selected = w.cn.slot.selected
      /\ SessionSlot(v.cn, v.tk).engine = Session(v)
      /\ (w.cn.slot.selected = None \/ w.cn.slot.selected = w.tk.replays.of) => SlotOK(SessionSlot(v.cn, v.tk))
  BY <1>2, <1>3, <1>4, <1>5, ExchangeIs
<1>7. Phased(v.cn, v.tk)
  BY <1>2, <1>4, <1>6, PhasedKept
<1>8. v.tk.phase = w.tk.phase /\ v.tk.database = w.tk.database
  BY <1>6 DEF Writes
<1>9. Ready(v)
  BY <1>2, <1>3, <1>4, <1>6, <1>7, <1>8 DEF Ready
<1>10. Post(v, Replayed(v))
  BY <1>6, <1>9, ReplayedPost
<1> QED BY <1>5, <1>6, <1>10, PostFrom

(* The call keeps its token; the session is handed out.                    *)
LEMMA AdoptsPost ==
  ASSUME NEW w, Sound(w), Called(w), Owns(w.cn, w.tk), SlotOK(w.cn.slot), NEW kept
  PROVE  Post(w, Adopts(w, kept))
<1> DEFINE token == IF kept THEN w.tk.who ELSE w.cn.token
<1>1. w \in WorldType /\ w.cn \in ConnType /\ w.cn.slot \in SlotType /\ w.tk \in TaskType
  BY DEF Sound, WorldType, ConnType
<1>2. token \in Whos /\ (token # NoOne => token.of = w.cn.database)
  BY <1>1 DEF ConnType, TaskType, Sound, ConnOK, Called, Owns
<1> HIDE DEF token
<1> DEFINE u == [w EXCEPT !.cn.token = token, !.cn.slot.bound = FALSE]
<1>3. u \in WorldType
  BY <1>1, <1>2 DEF WorldType, ConnType, SlotType
<1>4. /\ u.me = w.me /\ u.tk = w.tk /\ u.cn.url = w.cn.url /\ u.cn.database = w.cn.database
      /\ u.cn.token = token /\ u.cn.guard = w.cn.guard /\ u.cn.block = w.cn.block
  BY <1>1 DEF WorldType, ConnType
<1>5. /\ u.cn.slot.selected = w.cn.slot.selected /\ u.cn.slot.engine = w.cn.slot.engine
      /\ u.cn.slot.owner = w.cn.slot.owner /\ u.cn.slot.user = w.cn.slot.user
  BY <1>1 DEF WorldType, ConnType, SlotType
<1>6. ~u.cn.slot.bound
  BY <1>1 DEF WorldType, ConnType, SlotType
<1>7. Adopts(w, kept) = Ends(u)
  BY DEF Adopts, token
<1> HIDE DEF u
<1>8. Sound(u) /\ SameCall(w, u)
  BY <1>2, <1>3, <1>4 DEF Sound, ConnOK, SameCall, Keeps
<1>9. FreeOK(u.cn.slot)
  BY <1>5, <1>6 DEF FreeOK, SlotOK
<1>10. u.tk.op # "get"
  BY <1>4 DEF Owns
<1>11. Post(u, Ends(u))
  BY <1>8, <1>9, <1>10, EndsPost
<1> QED BY <1>7, <1>8, <1>11, PostFrom

(* The sign-in's own exchange.                                             *)
LEMMA ExchangingPost ==
  ASSUME NEW w, Sound(w), Called(w), w.tk.pc = "exchanging", Stage(w.cn, w.tk),
         NEW v, v = NotOwner(Runs(w, w.tk.who, w.tk.who.of))
  PROVE  /\ w.tk.op = "bind" => Post(w, At(Binds(v), "reading"))
         /\ w.tk.op = "signin" => \A kept \in BOOLEAN : Post(w, Adopts(v, kept))
<1>1. w.tk.pc \in Signing
  BY DEF Signing
<1>2. Owns(w.cn, w.tk) /\ w \in WorldType
  BY <1>1, SigningIs
<1>3. /\ w.tk.who.of = w.cn.database /\ w.cn.database # None /\ w.tk.who \in Whos
      /\ w.cn.slot.selected = w.cn.database
  BY <1>2 DEF Owns, Called, WorldType, TaskType
<1>4. /\ Writes(w, v) /\ Sound(v) /\ SameCall(w, v) /\ v \in WorldType
      /\ ~v.cn.slot.bound /\ ~v.cn.slot.owner
      /\ Session(v).who = w.tk.who /\ Session(v).selects = w.tk.who.of
      /\ Session(v) # NoEngine /\ Session(v).url = Session(w).url
      /\ v.cn.slot.selected = w.cn.slot.selected
      /\ SessionSlot(v.cn, v.tk).engine = Session(v)
      /\ (w.cn.slot.selected = None \/ w.cn.slot.selected = w.tk.who.of) => SlotOK(SessionSlot(v.cn, v.tk))
  BY <1>3, ExchangeIs
<1>5. v.tk.phase = "own" /\ v.tk.op = w.tk.op /\ v.cn.database = w.cn.database
  BY <1>2, <1>4 DEF Owns, Writes, SameCall, Keeps
<1>6. SessionSlot(v.cn, v.tk) = v.cn.slot
  BY <1>5 DEF SessionSlot
<1>7. SlotOK(v.cn.slot) /\ v.cn.slot.engine # NoEngine /\ Session(v) = v.cn.slot.engine
  BY <1>3, <1>4, <1>6
<1>8. Owns(v.cn, v.tk)
  BY <1>2, <1>3, <1>4, <1>5, <1>7 DEF Owns
<1>9. Called(v)
  BY <1>4, CalledKept
<1>10. ASSUME w.tk.op = "signin", NEW kept \in BOOLEAN PROVE Post(w, Adopts(v, kept))
  <2>1. Post(v, Adopts(v, kept))
    BY <1>4, <1>7, <1>8, <1>9, AdoptsPost
  <2> QED BY <1>4, <2>1, PostFrom
<1>11. ASSUME w.tk.op = "bind" PROVE Post(w, At(Binds(v), "reading"))
  <2>1. PICK u : u = Binds(v)
    OBVIOUS
  <2>2. /\ Writes(v, u) /\ Session(u) = Session(v)
        /\ u.cn.slot.selected = v.cn.slot.selected /\ u.cn.slot.user = v.cn.slot.user
        /\ u.cn.slot.owner = v.cn.slot.owner
    BY <1>4, <2>1, BindsIs
  <2>3. u.tk.phase = "own" /\ u.tk.op = "bind" /\ u.cn.database = v.cn.database
    BY <1>5, <1>11, <2>2 DEF Writes, SameCall, Keeps
  <2>4. u.cn.slot.engine = v.cn.slot.engine
    BY <1>7, <2>2, <2>3 DEF Session
  <2>5. SlotOK(u.cn.slot)
    BY <1>4, <1>7, <2>2, <2>4 DEF SlotOK
  <2>6. Owns(u.cn, u.tk)
    BY <1>7, <1>8, <2>2, <2>3, <2>4 DEF Owns
  <2>7. Sound(u) /\ SameCall(v, u) /\ u \in WorldType
    BY <1>4, <2>2, WritesSound DEF Writes
  <2>8. Staged(u, "reading")
    <3> DEFINE tk == [u.tk EXCEPT !.pc = "reading"]
    <3>1. u.tk \in TaskType /\ "reading" \in Holding
      BY <2>7 DEF WorldType, Holding
    <3>2. /\ tk.pc = "reading" /\ tk.phase = u.tk.phase /\ tk.engine = u.tk.engine
          /\ tk.database = u.tk.database /\ tk.op = u.tk.op
          /\ tk.generation = u.tk.generation /\ tk.moved = u.tk.moved
      BY <3>1, Elsewhere
    <3> HIDE DEF tk
    <3>3. Owns(u.cn, tk)
      BY <2>6, <3>2, SamePhase
    <3>4. Stage(u.cn, tk)
      BY <2>3, <2>5, <3>2, <3>3 DEF Stage, StageBack, StageSigning, WayBack, Signing
    <3> QED BY <3>4 DEF Staged, tk
  <2>9. Post(u, At(u, "reading"))
    BY <2>7, <2>8, AtPost DEF Holding
  <2>10. SameCall(w, u)
    BY <1>4, <2>7 DEF SameCall, Keeps
  <2> QED BY <2>1, <2>9, <2>10, PostFrom
<1> QED BY <1>10, <1>11

(* The exchange is refused; a stored token is forgotten.                   *)
LEMMA ExchangeRefusedPost ==
  ASSUME NEW w, Sound(w), Called(w), w.tk.pc \in {"exchanging", "replaying"}, Stage(w.cn, w.tk),
         NEW v, v = IF w.tk.phase = "own" THEN w ELSE Tokenless(w)
  PROVE  /\ w.tk.was /\ w.cn.slot.user => Post(w, At(v, "undoing"))
         /\ Post(w, Refused(v))
<1> DEFINE ss == SessionSlot(w.cn, w.tk)
<1>1. w.tk.pc \in Signing
  BY DEF Signing
<1>2. /\ w \in WorldType /\ ss \in SlotType /\ ss.engine = Session(w)
      /\ ss.owner = w.cn.slot.owner
      /\ SlotOK(ss) /\ ~w.cn.slot.bound /\ w.tk.was = w.cn.slot.owner
      /\ Session(w) # NoEngine
      /\ \/ /\ w.tk.phase \in {"opening", "resetting", "restoring"}
            /\ Phased(w.cn, w.tk) /\ w.cn.slot.owner /\ Session(w).selects = w.tk.database
         \/ Owns(w.cn, w.tk) /\ ss = w.cn.slot
  BY <1>1, SigningIs
<1>3. Writes(w, v) /\ v.cn.slot = w.cn.slot /\ v.tk = w.tk
  <2>1. w \in WorldType
    BY <1>2
  <2>2. CASE w.tk.phase = "own"
    BY <2>1, <2>2 DEF Writes, SameCall, Keeps
  <2>3. CASE w.tk.phase # "own"
    BY <2>1, <2>3, TokenIs
  <2> QED BY <2>2, <2>3
<1>4. Sound(v) /\ SameCall(w, v) /\ v \in WorldType
  BY <1>3, WritesSound DEF Writes
<1>5. SessionSlot(v.cn, v.tk) = ss
  BY <1>3 DEF SessionSlot
<1>6. Session(v) = Session(w)
  BY <1>3 DEF Session
<1> HIDE DEF ss
<1>7. Phased(w.cn, w.tk) => Phased(v.cn, v.tk)
  <2>1. Phased(w.cn, w.tk) => w.cn.slot.selected = None
    BY DEF Phased
  <2> QED BY <1>2, <1>3, <1>6, <2>1, PhasedKept
<1>8. Owns(w.cn, w.tk) => Owns(v.cn, v.tk)
  BY <1>3, <1>4 DEF Owns, SameCall, Keeps
<1>9. ASSUME w.tk.was, w.cn.slot.user PROVE Post(w, At(v, "undoing"))
  <2>1. w.cn.slot.owner
    BY <1>2, <1>9
  <2>2. Staged(v, "undoing")
    BY <1>2, <1>3, <1>4, <1>5, <1>7, <1>8, <2>1, StagedSigning DEF Signing
  <2>3. Post(v, At(v, "undoing"))
    BY <1>4, <2>2, AtPost DEF Holding, Signing
  <2> QED BY <1>4, <2>3, PostFrom
<1>10. Post(w, Refused(v))
  <2>1. Ready(v) \/ (Owns(v.cn, v.tk) /\ SlotOK(v.cn.slot))
    <3>1. CASE /\ w.tk.phase \in {"opening", "resetting", "restoring"}
               /\ Phased(w.cn, w.tk) /\ w.cn.slot.owner /\ Session(w).selects = w.tk.database
      <4>1. ss.engine.who = Owner
        BY <1>2, <3>1 DEF SlotOK
      <4>2. Ready(v)
        BY <1>2, <1>3, <1>5, <1>7, <3>1, <4>1 DEF Ready
      <4> QED BY <4>2
    <3>2. CASE Owns(w.cn, w.tk) /\ ss = w.cn.slot
      BY <1>2, <1>3, <1>8, <3>2
    <3> QED BY <1>2, <3>1, <3>2
  <2>2. Called(v) /\ ~v.cn.slot.bound
    BY <1>2, <1>3, <1>4, CalledKept
  <2>3. Post(v, Refused(v))
    BY <1>4, <2>1, <2>2, RefusedPost
  <2> QED BY <1>4, <2>3, PostFrom
<1> QED BY <1>9, <1>10

(* A model could not read its record, or its task was cancelled there.     *)
LEMMA ReadingPost ==
  ASSUME NEW w, Sound(w), Called(w), w.tk.pc = "reading", Stage(w.cn, w.tk)
  PROVE  Post(w, Adopts(w, TRUE)) /\ Post(w, Reset(w, "restoring"))
<1>1. w.tk.op = "bind" /\ Owns(w.cn, w.tk) /\ SlotOK(w.cn.slot)
  BY DEF Stage
<1>2. Post(w, Adopts(w, TRUE))
  BY <1>1, AdoptsPost
<1>3. Post(w, Reset(w, "restoring"))
  BY <1>1, ResetPost DEF Owns, Called
<1> QED BY <1>2, <1>3

(* An exchange is given up: a model puts the stored identity back, a reset *)
(* leaves the selection stale.                                             *)
LEMMA GivesUpPost ==
  ASSUME NEW w, Sound(w), Called(w), SlotOK(w.cn.slot),
         w.tk.phase = "own" => Owns(w.cn, w.tk) /\ (w.tk.op = "signin" => ~w.cn.slot.bound),
         w.tk.phase # "own" => w.cn.slot.selected = None
  PROVE  Post(w, GivesUp(w))
<1>1. CASE w.tk.phase = "own" /\ w.tk.op = "bind"
  <2>1. Post(w, Reset(w, "restoring"))
    BY <1>1, ResetPost DEF Owns, Called
  <2>2. GivesUp(w) = Reset(w, "restoring")
    BY <1>1 DEF GivesUp, Refused
  <2> QED BY <2>1, <2>2
<1>2. CASE w.tk.phase = "own" /\ w.tk.op = "signin"
  <2>1. Post(w, Ends(w))
    BY <1>2, SignerEnds DEF FreeOK
  <2>2. GivesUp(w) = Ends(w)
    BY <1>2 DEF GivesUp, Refused
  <2> QED BY <2>1, <2>2
<1>3. CASE w.tk.phase # "own"
  <2>1. Post(w, Ends(w))
    BY <1>3, SignerEnds DEF FreeOK
  <2>2. GivesUp(w) = Ends(w)
    BY <1>3 DEF GivesUp
  <2> QED BY <2>1, <2>2
<1> QED BY <1>1, <1>2, <1>3 DEF Owns

(* Whether the session is one that no call has adopted.                    *)
WithBound(w, is) == [w EXCEPT !.cn.slot.bound = is]

LEMMA BoundIs ==
  ASSUME NEW w \in WorldType, NEW is \in BOOLEAN, NEW v, v = WithBound(w, is)
  PROVE  /\ Writes(w, v) /\ Session(v) = Session(w)
         /\ v.cn.slot.selected = w.cn.slot.selected /\ v.cn.slot.user = w.cn.slot.user
         /\ v.cn.slot.owner = w.cn.slot.owner /\ v.cn.slot.bound = is
<1>1. w.cn \in ConnType /\ w.cn.slot \in SlotType
  BY DEF WorldType, ConnType
<1>2. PICK s : s = [w.cn.slot EXCEPT !.bound = is]
  OBVIOUS
<1>3. s \in SlotType
  BY <1>1, <1>2 DEF SlotType
<1>4. /\ s.engine = w.cn.slot.engine /\ s.selected = w.cn.slot.selected /\ s.user = w.cn.slot.user
      /\ s.owner = w.cn.slot.owner
  BY <1>1, <1>2 DEF SlotType
<1>5. s.bound = is
  BY <1>1, <1>2 DEF SlotType
<1>6. v = WithSlot(w, s)
  BY <1>1, <1>2 DEF WithBound, WithSlot, WorldType, ConnType, SlotType
<1>7. Writes(w, v) /\ Session(v) = Session(w) /\ v.cn.slot = s
  BY <1>3, <1>4, <1>6, SlotIs
<1> QED BY <1>4, <1>5, <1>7

(* An exchange is cancelled: the session is the one there was, its owner   *)
(* user removed or not; or, where it was no owner's, the one asked for.    *)
LEMMA CutPost ==
  ASSUME NEW w, Sound(w), Called(w), w.tk.pc \in {"exchanging", "replaying"}, Stage(w.cn, w.tk),
         w.tk.phase # "opening"
  PROVE  /\ Post(w, GivesUp(w))
         /\ w.tk.was => Post(w, GivesUp(Defines(w, FALSE)))
         /\ ~w.tk.was => Post(w, GivesUp(Replaced(w)))
<1>1. w.tk.pc \in Signing
  BY DEF Signing
<1>2. /\ w \in WorldType /\ w.cn.slot \in SlotType /\ w.cn.slot.engine = Session(w)
      /\ SlotOK(w.cn.slot) /\ ~w.cn.slot.bound /\ w.tk.was = w.cn.slot.owner
      /\ Session(w) # NoEngine /\ Session(w).url # None
      /\ \/ /\ w.tk.phase \in {"resetting", "restoring"} /\ w.tk.pc # "exchanging"
            /\ Phased(w.cn, w.tk) /\ w.cn.slot.owner
         \/ Owns(w.cn, w.tk) /\ w.tk.pc # "replaying"
  <2>1. SessionSlot(w.cn, w.tk) = w.cn.slot
    BY DEF SessionSlot
  <2> QED BY <1>1, <2>1, SigningIs
<1>3. /\ w.tk.phase = "own" => Owns(w.cn, w.tk)
      /\ w.tk.phase # "own" => w.cn.slot.selected = None
  BY <1>2 DEF Phased, Owns
<1>4. Post(w, GivesUp(w))
  BY <1>2, <1>3, GivesUpPost
<1>5. ASSUME NEW v, Writes(w, v), SlotOK(v.cn.slot), v.cn.slot.selected = w.cn.slot.selected,
             v.cn.slot.engine # NoEngine, w.tk.op = "signin" => ~v.cn.slot.bound
      PROVE  Post(w, GivesUp(v))
  <2>1. Sound(v) /\ SameCall(w, v) /\ Called(v)
    BY <1>5, WritesSound, CalledKept
  <2>2. v.tk.phase = w.tk.phase /\ v.tk.op = w.tk.op /\ v.cn.database = w.cn.database
    BY <1>5 DEF Writes, SameCall, Keeps
  <2>3. Owns(w.cn, w.tk) => Owns(v.cn, v.tk)
    BY <1>5, <2>2 DEF Owns
  <2>4. Post(v, GivesUp(v))
    BY <1>3, <1>5, <2>1, <2>2, <2>3, GivesUpPost
  <2> QED BY <2>1, <2>4, PostFrom
<1>6. ASSUME w.tk.was PROVE Post(w, GivesUp(Defines(w, FALSE)))
  <2>1. PICK no \in BOOLEAN : no = FALSE
    OBVIOUS
  <2>2. PICK v : v = Defines(w, no)
    OBVIOUS
  <2>3. /\ Writes(w, v)
        /\ Session(v).user = no /\ v.cn.slot.user = no
        /\ Session(v).url = Session(w).url /\ Session(v).up = Session(w).up
        /\ Session(v).who = Session(w).who /\ Session(v).selects = Session(w).selects
        /\ v.cn.slot.selected = w.cn.slot.selected /\ v.cn.slot.owner = w.cn.slot.owner
        /\ v.cn.slot.bound = w.cn.slot.bound
    BY <1>2, <2>2, DefinesIs
  <2>4. v.cn.slot.engine = Session(v)
    BY <2>3 DEF Writes, Session
  <2>5. w.cn.slot.owner /\ w.cn.slot.engine.up
    BY <1>2, <1>6, Awake
  <2>6. v.cn.slot.engine # NoEngine
    BY <1>2, <2>3, <2>4 DEF NoEngine
  <2>7. /\ w.cn.slot.selected # None => w.cn.slot.engine.selects = w.cn.slot.selected
        /\ w.cn.slot.engine.who = Owner
    BY <1>2, <2>5 DEF SlotOK
  <2>8. SlotOK(v.cn.slot)
    BY <1>2, <2>1, <2>3, <2>4, <2>5, <2>7 DEF SlotOK
  <2>9. Post(w, GivesUp(v))
    BY <1>2, <1>5, <2>3, <2>6, <2>8
  <2> QED BY <2>1, <2>2, <2>9
<1>7. ASSUME ~w.tk.was PROVE Post(w, GivesUp(Replaced(w)))
  <2>1. Owns(w.cn, w.tk) /\ ~w.cn.slot.owner
    BY <1>2, <1>7
  <2>2. /\ w.tk.phase = "own" /\ w.tk.who.of = w.cn.database /\ w.cn.slot.selected = w.cn.database
        /\ w.cn.database # None /\ w.tk.who \in Whos
    BY <1>2, <2>1 DEF Owns, Called, WorldType, TaskType
  <2>3. PICK who : who = w.tk.who
    OBVIOUS
  <2>4. who \in Whos /\ who.of \in Databases /\ who.of = w.cn.slot.selected /\ who.of # None
    BY <2>2, <2>3 DEF Whos
  <2>5. PICK u : u = Runs(w, who, who.of)
    OBVIOUS
  <2>6. /\ Writes(w, u)
        /\ Session(u).who = who /\ Session(u).selects = who.of
        /\ Session(u).url = Session(w).url /\ Session(u).up = Session(w).up /\ Session(u).user = Session(w).user
        /\ u.cn.slot.selected = w.cn.slot.selected /\ u.cn.slot.owner = w.cn.slot.owner
        /\ u.cn.slot.user = w.cn.slot.user
    BY <1>2, <2>4, <2>5, RunsIs
  <2>7. u \in WorldType
    BY <2>6 DEF Writes
  <2>8. PICK is \in BOOLEAN : is = (w.tk.op = "bind")
    OBVIOUS
  <2>9. PICK v : v = WithBound(u, is)
    OBVIOUS
  <2>10. /\ Writes(u, v) /\ Session(v) = Session(u)
         /\ v.cn.slot.selected = u.cn.slot.selected /\ v.cn.slot.user = u.cn.slot.user
         /\ v.cn.slot.owner = u.cn.slot.owner /\ v.cn.slot.bound = is
    BY <2>7, <2>9, BoundIs
  <2>11. Replaced(w) = v
    BY <2>2, <2>3, <2>5, <2>8, <2>9 DEF Replaced, WithBound
  <2>12. Writes(w, v)
    BY <2>6, <2>10, WritesTwice
  <2>13. v.cn.slot.engine = Session(v)
    BY <2>2, <2>12 DEF Writes, Session
  <2>14. w.cn.slot.engine.up
    BY <1>2, <2>2 DEF SlotOK
  <2>15. /\ w.cn.slot.user = w.cn.slot.engine.user
         /\ w.cn.slot.engine.user => KeyOf(w.cn.slot.engine.url) = Memory
         /\ KeyOf(w.cn.slot.engine.url) = Memory => w.cn.slot.engine.user
    BY <1>2, <2>1 DEF SlotOK
  <2>16. /\ v.cn.slot.engine.url = w.cn.slot.engine.url /\ v.cn.slot.engine.up
         /\ v.cn.slot.engine.user = w.cn.slot.engine.user
         /\ v.cn.slot.engine.who = who /\ v.cn.slot.engine.selects = who.of
    BY <1>2, <2>6, <2>10, <2>13, <2>14
  <2>17. v.cn.slot.selected = who.of /\ v.cn.slot.user = w.cn.slot.user /\ ~v.cn.slot.owner
    BY <2>1, <2>4, <2>6, <2>10
  <2>18. SlotOK(v.cn.slot)
    BY <1>2, <2>15, <2>16, <2>17 DEF SlotOK
  <2>19. v.cn.slot.engine # NoEngine
    BY <1>2, <2>16 DEF NoEngine
  <2>20. w.tk.op = "signin" => ~v.cn.slot.bound
    BY <2>8, <2>10
  <2> QED BY <1>5, <2>6, <2>10, <2>11, <2>12, <2>18, <2>19, <2>20
<1> QED BY <1>4, <1>6, <1>7

(* The engine is open, on the database its call asked for.                 *)
LEMMA OpenedPost ==
  ASSUME NEW w, Sound(w), w.tk.pc = "opening", Stage(w.cn, w.tk)
  PROVE  Post(w, Replay([w EXCEPT !.tk.engine = [Fresh(w.tk.engine.url) EXCEPT !.selects = w.tk.database]]))
<1>1. /\ w.tk.phase = "opening" /\ w.cn.slot = EmptySlot /\ Phased(w.cn, w.tk)
      /\ w.tk.engine = Down(w.tk.engine)
  BY DEF Stage
<1>2. w \in WorldType /\ w.tk.engine \in EngineType /\ w.tk.engine.url \in Urls /\ w.tk.database \in Databases
  BY DEF Sound, WorldType, TaskType, EngineType
<1>3. SessionSlot(w.cn, w.tk).engine = w.tk.engine /\ Session(w) = w.tk.engine
  BY <1>1, <1>2, SlotFields DEF Session
<1>4. w.tk.engine.url # None
  <2>1. w.tk.engine # NoEngine
    BY <1>1, <1>3 DEF Phased
  <2>2. CASE w.tk.engine.url = None
    <3>1. PICK d : d = [NoEngine EXCEPT !.url = w.tk.engine.url]
      OBVIOUS
    <3>2. d = NoEngine
      BY <2>2, <3>1 DEF NoEngine
    <3>3. Down(w.tk.engine) = d
      BY <3>1 DEF Down
    <3> QED BY <1>1, <2>1, <3>2, <3>3
  <2> QED BY <2>2
<1>5. PICK e : e = [Fresh(w.tk.engine.url) EXCEPT !.selects = w.tk.database]
  OBVIOUS
<1>6. PICK f : f = Fresh(w.tk.engine.url)
  OBVIOUS
<1>7. f \in EngineType /\ f.url = w.tk.engine.url /\ f.up = TRUE /\ f.who = Owner /\ f.user = FALSE
  BY <1>2, <1>6, FreshIs
<1>8. /\ e \in EngineType /\ e.url = w.tk.engine.url /\ e.up /\ e.who = Owner /\ ~e.user
      /\ e.selects = w.tk.database
  BY <1>2, <1>5, <1>6, <1>7 DEF EngineType
<1>9. PICK v : v = WithSession(w, e)
  OBVIOUS
<1>10. v = [w EXCEPT !.tk.engine = [Fresh(w.tk.engine.url) EXCEPT !.selects = w.tk.database]]
  BY <1>1, <1>5, <1>9 DEF WithSession
<1>11. /\ Writes(w, v) /\ Session(v) = e
       /\ v.cn.slot.selected = w.cn.slot.selected /\ v.cn.slot.owner = w.cn.slot.owner
       /\ v.cn.slot.user = w.cn.slot.user /\ v.cn.slot.bound = w.cn.slot.bound
  <2>1. w \in WorldType
    BY <1>2
  <2> QED BY <1>8, <1>9, <2>1, SessionIs
<1>12. v.cn.slot.selected = None /\ v.cn.slot.owner /\ ~v.cn.slot.user /\ ~v.cn.slot.bound
  BY <1>1, <1>11, EmptyIsFree DEF EmptySlot
<1>13. e # NoEngine
  BY <1>4, <1>8 DEF NoEngine
<1>14. Sound(v) /\ SameCall(w, v) /\ v \in WorldType
  BY <1>11, WritesSound DEF Writes
<1>15. Phased(v.cn, v.tk)
  BY <1>1, <1>2, <1>3, <1>8, <1>11, <1>12, <1>13, PhasedKept
<1> DEFINE vs == SessionSlot(v.cn, v.tk)
<1>16. /\ vs.engine = e /\ vs \in SlotType
       /\ vs.owner = v.cn.slot.owner /\ vs.user = v.cn.slot.user /\ vs.bound = v.cn.slot.bound
       /\ vs.selected = v.cn.slot.selected
  BY <1>11, <1>14, SlotFields
<1> HIDE DEF vs
<1>17. SlotOK(vs)
  <2>1. vs.selected = None /\ vs.owner /\ ~vs.user /\ ~vs.bound
    BY <1>12, <1>16
  <2>2. vs.engine.url # None /\ vs.engine.up /\ vs.engine.who = Owner /\ ~vs.engine.user
    BY <1>4, <1>8, <1>16
  <2>3. vs.user \in BOOLEAN /\ vs.engine.user \in BOOLEAN
    BY <1>16 DEF SlotType, EngineType
  <2>4. vs.user = vs.engine.user
    BY <2>1, <2>2, <2>3
  <2> QED BY <2>1, <2>2, <2>4 DEF SlotOK
<1>18. v.tk.phase = "opening" /\ v.tk.database = w.tk.database
  BY <1>1, <1>11 DEF Writes
<1>19. Ready(v)
  BY <1>8, <1>12, <1>15, <1>16, <1>17, <1>18 DEF Ready, vs
<1>20. Post(v, Replay(v))
  BY <1>12, <1>14, <1>19, ReplayPost
<1> QED BY <1>10, <1>14, <1>20, PostFrom

-----------------------------------------------------------------------------
(***************************************************************************)
(* The blocks                                                              *)
(***************************************************************************)
(* A block's segments may leave the connection with other settings.        *)
LEMMA LandsFrom ==
  ASSUME NEW w, NEW u, NEW v, u.me = w.me, u.tk.op = w.tk.op, u.tk.conn = w.tk.conn, u.tk.who = w.tk.who,
         Lands(u, v)
  PROVE  Lands(w, v)
BY DEF Lands

LEMMA EndsLands ==
  ASSUME NEW w, Sound(w), FreeOK(w.cn.slot)
  PROVE  Lands(w, Ends(w)) /\ Keeps(w, Ends(w)) /\ Ends(w).tk = Idle
<1> DEFINE v == Ends(w)
<1>1. w \in WorldType /\ w.cn \in ConnType
  BY DEF Sound, WorldType
<1>2. v \in WorldType /\ v.me = w.me /\ v.tk = Idle /\ v.cn = [w.cn EXCEPT !.guard = None]
  BY <1>1, Constants DEF Ends, WorldType, ConnType
<1> HIDE DEF v
<1>3. /\ v.cn.guard = None /\ v.cn.url = w.cn.url /\ v.cn.database = w.cn.database
      /\ v.cn.token = w.cn.token /\ v.cn.slot = w.cn.slot /\ v.cn.block = w.cn.block
  BY <1>1, <1>2 DEF ConnType
<1>4. ConnOK(v.cn)
  BY <1>3 DEF Sound, ConnOK
<1>5. Lands(w, v) /\ Keeps(w, v)
  BY <1>2, <1>3, <1>4 DEF Lands, Keeps
<1> QED BY <1>2, <1>5 DEF v

(* set_connection(): the block's own settings.                             *)
LEMMA SetPost ==
  ASSUME NEW w, Sound(w), FreeOK(w.cn.slot), w.tk.target.url # None, w.tk.target.database # None
  PROVE  Lands(w, SetConnection(w)) /\ SetConnection(w).tk = Idle
<1>1. w \in WorldType /\ w.cn \in ConnType /\ w.tk \in TaskType
      /\ w.tk.target.url \in Urls /\ w.tk.target.database \in Databases
  BY DEF Sound, WorldType, TaskType
<1>2. PICK u : u = [w EXCEPT !.cn.url = w.tk.target.url, !.cn.database = w.tk.target.database, !.cn.token = NoOne]
  OBVIOUS
<1>3. u \in WorldType
  BY <1>1, <1>2, Constants DEF WorldType, ConnType
<1>4. u.me = w.me /\ u.tk = w.tk
  BY <1>1, <1>2 DEF WorldType
<1>5. /\ u.cn.url = w.tk.target.url /\ u.cn.database = w.tk.target.database /\ u.cn.token = NoOne
      /\ u.cn.guard = w.cn.guard /\ u.cn.slot = w.cn.slot /\ u.cn.block = w.cn.block
  BY <1>1, <1>2 DEF WorldType, ConnType
<1>6. Sound(u)
  BY <1>3, <1>4, <1>5 DEF Sound, ConnOK
<1>7. Lands(u, Ends(u)) /\ Ends(u).tk = Idle
  BY <1>5, <1>6, EndsLands
<1>8. SetConnection(w) = Ends(u)
  BY <1>2 DEF SetConnection
<1> QED BY <1>4, <1>7, <1>8, LandsFrom

(* A block is entered: settings and slot are put aside.                    *)
PutsAside(w) ==
  [w EXCEPT !.cn.block = [by |-> w.me, closed |-> FALSE, url |-> w.cn.url, database |-> w.cn.database,
                          token |-> w.cn.token, slot |-> w.cn.slot],
            !.cn.slot = EmptySlot]

LEMMA EntersPost ==
  ASSUME NEW w, Sound(w), FreeOK(w.cn.slot), w.tk.op = "enter",
         w.tk.target.url # None, w.tk.target.database # None
  PROVE  /\ Lands(w, EntersBlock(w))
         /\ EntersBlock(w).tk # Idle => EntersBlock(w).tk.target = w.tk.target
<1>1. w \in WorldType /\ w.cn \in ConnType /\ w.tk \in TaskType /\ w.cn.slot \in SlotType
  BY DEF Sound, WorldType, ConnType
<1>2. PICK b : b = [by |-> w.me, closed |-> FALSE, url |-> w.cn.url, database |-> w.cn.database,
                    token |-> w.cn.token, slot |-> w.cn.slot]
  OBVIOUS
<1>3. b \in BlockType
  BY <1>1, <1>2 DEF BlockType, WorldType, ConnType
<1>4. b.url = w.cn.url /\ b.database = w.cn.database /\ b.token = w.cn.token /\ b.slot = w.cn.slot /\ b.closed = FALSE
  BY <1>2
<1>5. PICK v : v = PutsAside(w)
  OBVIOUS
<1>6. v = [w EXCEPT !.cn.block = b, !.cn.slot = EmptySlot]
  BY <1>2, <1>5 DEF PutsAside
<1>7. v \in WorldType
  BY <1>1, <1>3, <1>6, Constants DEF WorldType, ConnType
<1>8. v.me = w.me /\ v.tk = w.tk
  BY <1>1, <1>6 DEF WorldType
<1>9. /\ v.cn.url = w.cn.url /\ v.cn.database = w.cn.database /\ v.cn.token = w.cn.token
      /\ v.cn.guard = w.cn.guard /\ v.cn.slot = EmptySlot /\ v.cn.block = b
  BY <1>1, <1>6 DEF WorldType, ConnType
<1>10. Sound(v)
  BY <1>4, <1>7, <1>8, <1>9 DEF Sound, ConnOK
<1>11. CASE SameStore(w.cn.slot.engine.url, w.tk.target.url)
  <2>1. EntersBlock(w) = At(v, "detaching")
    BY <1>5, <1>11 DEF EntersBlock, PutsAside
  <2>2. w.cn.slot.engine.url # None
    BY <1>11 DEF SameStore, OnDisk, KeyOf
  <2> DEFINE tk == [v.tk EXCEPT !.pc = "detaching"]
  <2>3. v.tk \in TaskType /\ "detaching" \in Holding
    BY <1>7 DEF WorldType, Holding
  <2>4. tk.pc = "detaching" /\ tk.op = v.tk.op /\ tk.target = v.tk.target
    BY <2>3 DEF TaskType
  <2>5. At(v, "detaching").tk = tk
    BY <1>7 DEF At, WorldType
  <2> HIDE DEF tk
  <2>6. Stage(v.cn, tk)
    BY <1>4, <1>8, <1>9, <2>2, <2>4 DEF Stage, StageBack, StageSigning, WayBack, Signing
  <2>7. Post(v, At(v, "detaching"))
    BY <1>10, <2>3, <2>6, AtPost DEF Staged, tk
  <2>8. Lands(w, At(v, "detaching"))
    BY <1>8, <2>7, LandsFrom DEF Post
  <2> QED BY <1>8, <2>1, <2>4, <2>5, <2>8
<1>12. CASE ~SameStore(w.cn.slot.engine.url, w.tk.target.url)
  <2>1. EntersBlock(w) = SetConnection(v)
    BY <1>5, <1>12 DEF EntersBlock, PutsAside
  <2>2. FreeOK(v.cn.slot)
    BY <1>9, EmptyIsFree
  <2>3. Lands(v, SetConnection(v)) /\ SetConnection(v).tk = Idle
    BY <1>8, <1>10, <2>2, SetPost
  <2> QED BY <1>8, <2>1, <2>3, LandsFrom
<1> QED BY <1>11, <1>12

(* The outer engine lets the store go, down, without a session.            *)
LetGo(w) ==
  [w EXCEPT !.cn.block.slot = [EmptySlot EXCEPT !.engine = Down(w.cn.block.slot.engine)], !.cn.block.closed = TRUE]

LEMMA DetachedPost ==
  ASSUME NEW w, Sound(w), w.tk.pc = "detaching", Stage(w.cn, w.tk),
         w.tk.target.url # None, w.tk.target.database # None
  PROVE  Lands(w, SetConnection(LetGo(w))) /\ SetConnection(LetGo(w)).tk = Idle
<1>1. /\ w \in WorldType /\ w.cn \in ConnType /\ w.tk \in TaskType /\ w.cn.block \in BlockType
      /\ w.cn.block.slot \in SlotType /\ w.cn.block.slot.engine \in EngineType
  BY DEF Sound, WorldType, ConnType, BlockType, SlotType
<1>2. w.cn.slot = EmptySlot /\ w.cn.block.slot.engine.url # None
  BY DEF Stage
<1>3. PICK d : d = Down(w.cn.block.slot.engine)
  OBVIOUS
<1>4. d \in EngineType /\ d.url = w.cn.block.slot.engine.url /\ Down(d) = d
  BY <1>1, <1>3, DownIs
<1>5. PICK s : s = [EmptySlot EXCEPT !.engine = d]
  OBVIOUS
<1>6. s \in SlotType /\ s.engine = d
  BY <1>4, <1>5, Constants DEF SlotType
<1>7. PICK b : b = [w.cn.block EXCEPT !.slot = s, !.closed = TRUE]
  OBVIOUS
<1>8. b \in BlockType
  BY <1>1, <1>6, <1>7 DEF BlockType
<1>9. /\ b.url = w.cn.block.url /\ b.database = w.cn.block.database /\ b.token = w.cn.block.token
      /\ b.slot = s /\ b.closed
  BY <1>1, <1>7 DEF BlockType
<1>10. PICK v : v = LetGo(w)
  OBVIOUS
<1>11. v = [w EXCEPT !.cn.block = b]
  BY <1>1, <1>3, <1>5, <1>7, <1>10 DEF LetGo, WorldType, ConnType, BlockType
<1>12. v \in WorldType
  BY <1>1, <1>8, <1>11 DEF WorldType, ConnType
<1>13. v.me = w.me /\ v.tk = w.tk
  BY <1>1, <1>11 DEF WorldType
<1>14. /\ v.cn.url = w.cn.url /\ v.cn.database = w.cn.database /\ v.cn.token = w.cn.token
       /\ v.cn.guard = w.cn.guard /\ v.cn.slot = w.cn.slot /\ v.cn.block = b
  BY <1>1, <1>11 DEF WorldType, ConnType
<1>15. Sound(v)
  <2>1. v.cn.block.slot = [EmptySlot EXCEPT !.engine = Down(v.cn.block.slot.engine)]
    BY <1>4, <1>5, <1>6, <1>9, <1>14
  <2>2. v.cn.block.slot.engine.url # None
    BY <1>2, <1>4, <1>6, <1>9, <1>14
  <2> QED BY <1>9, <1>12, <1>13, <1>14, <2>1, <2>2 DEF Sound, ConnOK
<1>16. FreeOK(v.cn.slot)
  BY <1>2, <1>14, EmptyIsFree
<1>17. Lands(v, SetConnection(v)) /\ SetConnection(v).tk = Idle
  BY <1>13, <1>15, <1>16, SetPost
<1> QED BY <1>10, <1>13, <1>17, LandsFrom

(* The engine put aside is the slot's again, or none is.                   *)
LEMMA PutBackPost ==
  ASSUME NEW w, Sound(w), w.tk.op = "leave", NEW engine \in EngineType,
         NEW s \in SlotType, s = [w.cn.block.slot EXCEPT !.engine = engine], FreeOK(s)
  PROVE  Lands(w, PutBack(w, engine)) /\ Keeps(w, PutBack(w, engine))
<1> DEFINE b     == w.cn.block
           ours  == w.cn.slot.engine
           url   == engine.url
           held  == Claim(w.claims, url, w.tk.conn)
           freed == IF engine = NoEngine THEN Unclaimed(held, b.slot.engine.url, w.tk.conn) ELSE held
           away  == [Down(ours) EXCEPT !.up = ours.up]
           other == KeyOf(ours.url) # KeyOf(url)
<1>1. /\ w \in WorldType /\ w.cn \in ConnType /\ w.tk \in TaskType /\ w.claims \in ClaimsType
      /\ w.tk.conn \in Connections \cup {None} /\ ours \in EngineType
  BY DEF Sound, WorldType, ConnType, SlotType, TaskType
<1>2. freed \in ClaimsType
  <2>1. held \in ClaimsType
    BY <1>1, ClaimsTyped
  <2> HIDE DEF held
  <2> QED BY <1>1, <2>1, ClaimsTyped
<1>3. away \in EngineType
  <2>1. PICK d : d = Down(ours)
    OBVIOUS
  <2>2. d \in EngineType
    BY <1>1, <2>1, DownIs
  <2> QED BY <1>1, <2>1, <2>2 DEF EngineType
<1>4. other \in BOOLEAN
  OBVIOUS
<1>5. PICK v : v = [w EXCEPT !.claims = freed, !.cn.block = Outside, !.cn.slot = s]
  OBVIOUS
<1>6. PutBack(w, engine) =
        IF b.closed \/ ours = NoEngine THEN Ends(v)
        ELSE [v EXCEPT !.tk.engine = away, !.tk.pc = "ending", !.tk.claimed = other]
  BY <1>5 DEF PutBack
<1> HIDE DEF freed
<1> HIDE DEF away
<1> HIDE DEF other
<1>7. v \in WorldType
  BY <1>1, <1>2, <1>5, Constants DEF WorldType, ConnType
<1>8. v.me = w.me /\ v.tk = w.tk
  BY <1>1, <1>5 DEF WorldType
<1>9. /\ v.cn.url = w.cn.url /\ v.cn.database = w.cn.database /\ v.cn.token = w.cn.token
      /\ v.cn.guard = w.cn.guard /\ v.cn.slot = s /\ v.cn.block = Outside
  BY <1>1, <1>5 DEF WorldType, ConnType
<1>10. ConnOK(v.cn)
  BY <1>9, EmptyIsFree DEF Sound, ConnOK, Outside
<1>11. Sound(v)
  BY <1>7, <1>8, <1>9, <1>10 DEF Sound
<1>12. CASE b.closed \/ ours = NoEngine
  <2>1. Lands(v, Ends(v)) /\ Keeps(v, Ends(v))
    BY <1>9, <1>11, EndsLands
  <2>2. Keeps(w, Ends(v))
    BY <1>9, <2>1 DEF Keeps
  <2> QED BY <1>6, <1>8, <1>12, <2>1, <2>2, LandsFrom
<1>13. CASE ~(b.closed \/ ours = NoEngine)
  <2>1. PICK x : x = [v EXCEPT !.tk.engine = away, !.tk.pc = "ending", !.tk.claimed = other]
    OBVIOUS
  <2>2. x.me = v.me /\ x.cn = v.cn /\ x.claims = v.claims
    BY <1>7, <2>1 DEF WorldType
  <2>3. v.tk \in TaskType /\ "ending" \in Holding
    BY <1>7 DEF WorldType, Holding
  <2>4. x.tk = [v.tk EXCEPT !.engine = away, !.pc = "ending", !.claimed = other]
    BY <1>7, <2>1 DEF WorldType
  <2>5. x.tk \in TaskType
    BY <1>3, <1>4, <2>3, <2>4 DEF TaskType
  <2>6. x.tk.pc = "ending" /\ x.tk.op = v.tk.op /\ x.tk.conn = v.tk.conn /\ x.tk.who = v.tk.who
    BY <2>3, <2>4 DEF TaskType
  <2>7. x \in WorldType
    BY <1>7, <2>1, <2>3, <2>5, <2>4 DEF WorldType
  <2>8. Stage(x.cn, x.tk)
    BY <1>8, <1>9, <2>2, <2>6 DEF Stage, StageBack, StageSigning, WayBack, Signing
  <2>9. Lands(w, x)
    BY <1>8, <1>9, <1>10, <2>2, <2>3, <2>6, <2>7, <2>8 DEF Lands, Sound
  <2>10. Keeps(w, x)
    BY <1>9, <2>2 DEF Keeps
  <2> QED BY <1>6, <1>13, <2>1, <2>9, <2>10
<1> QED BY <1>12, <1>13

(* A block is left: the settings are back first.                           *)
Restored(w) == [w EXCEPT !.cn.url = w.cn.block.url, !.cn.database = w.cn.block.database, !.cn.token = w.cn.block.token]

LEMMA LeavesPost ==
  ASSUME NEW w, Sound(w), w.tk.op = "leave"
  PROVE  Lands(w, LeavesBlock(w))
<1>1. /\ w \in WorldType /\ w.cn \in ConnType /\ w.tk \in TaskType /\ w.cn.block \in BlockType
      /\ w.cn.block.slot \in SlotType /\ w.cn.block.slot.engine \in EngineType
      /\ w.cn.block.url \in Urls /\ w.cn.block.database \in Databases /\ w.cn.block.token \in Whos
  BY DEF Sound, WorldType, ConnType, BlockType, SlotType
<1>2. PICK v : v = Restored(w)
  OBVIOUS
<1>3. v \in WorldType
  BY <1>1, <1>2 DEF Restored, WorldType, ConnType
<1>4. v.me = w.me /\ v.tk = w.tk
  BY <1>1, <1>2 DEF Restored, WorldType
<1>5. /\ v.cn.url = w.cn.block.url /\ v.cn.database = w.cn.block.database /\ v.cn.token = w.cn.block.token
      /\ v.cn.guard = w.cn.guard /\ v.cn.slot = w.cn.slot /\ v.cn.block = w.cn.block
  BY <1>1, <1>2 DEF Restored, WorldType, ConnType
<1>6. Sound(v)
  BY <1>3, <1>4, <1>5 DEF Sound, ConnOK
<1>7. LeavesBlock(w) =
        IF ~w.cn.block.closed THEN PutBack(v, w.cn.block.slot.engine)
        ELSE At(v, IF w.cn.slot.engine = NoEngine THEN "reattaching" ELSE "discarding")
  BY <1>2 DEF LeavesBlock, Restored
<1>8. CASE ~w.cn.block.closed
  <2>1. PICK s : s = w.cn.block.slot
    OBVIOUS
  <2>2. s = [v.cn.block.slot EXCEPT !.engine = s.engine] /\ s \in SlotType /\ s.engine \in EngineType
    BY <1>1, <1>5, <2>1 DEF SlotType
  <2>3. FreeOK(s)
    BY <1>8, <2>1 DEF Sound, ConnOK
  <2>4. v.tk.op = "leave"
    BY <1>4
  <2>5. Lands(v, PutBack(v, s.engine))
    BY <1>6, <2>2, <2>3, <2>4, PutBackPost
  <2> QED BY <1>4, <1>7, <1>8, <2>1, <2>5, LandsFrom
<1>9. CASE w.cn.block.closed
  <2>1. PICK pc \in {"reattaching", "discarding"} :
          pc = IF w.cn.slot.engine = NoEngine THEN "reattaching" ELSE "discarding"
    OBVIOUS
  <2>2. v.tk \in TaskType /\ pc \in Holding
    BY <1>3 DEF WorldType, Holding
  <2> DEFINE tk == [v.tk EXCEPT !.pc = pc]
  <2>3. tk.pc = pc /\ tk.op = v.tk.op
    BY <2>2 DEF TaskType
  <2> HIDE DEF tk
  <2>4. Stage(v.cn, tk)
    BY <1>4, <1>5, <1>9, <2>3 DEF Stage, StageBack, StageSigning, WayBack, Signing
  <2>5. Post(v, At(v, pc))
    BY <1>6, <2>2, <2>4, AtPost DEF Staged, tk
  <2> QED BY <1>4, <1>7, <1>9, <2>1, <2>5, LandsFrom DEF Post
<1> QED BY <1>8, <1>9

(* The block's own client is closed.                                       *)
LEMMA DiscardedPost ==
  ASSUME NEW w, Sound(w), w.tk.pc = "discarding", Stage(w.cn, w.tk),
         NEW u, u = [w EXCEPT !.cn.slot.engine = Down(w.cn.slot.engine)]
  PROVE  Post(w, At(u, "reattaching"))
<1>1. /\ w \in WorldType /\ w.cn \in ConnType /\ w.tk \in TaskType /\ w.cn.slot \in SlotType
      /\ w.cn.slot.engine \in EngineType
  BY DEF Sound, WorldType, ConnType, SlotType
<1>2. PICK d \in EngineType : d = Down(w.cn.slot.engine)
  BY <1>1, DownIs
<1>3. u \in WorldType
  BY <1>1, <1>2 DEF WorldType, ConnType, SlotType
<1>4. u.me = w.me /\ u.tk = w.tk
  BY <1>1 DEF WorldType
<1>5. /\ u.cn.url = w.cn.url /\ u.cn.database = w.cn.database /\ u.cn.token = w.cn.token
      /\ u.cn.guard = w.cn.guard /\ u.cn.block = w.cn.block
  BY <1>1 DEF WorldType, ConnType
<1>6. Sound(u) /\ SameCall(w, u)
  BY <1>3, <1>4, <1>5 DEF Sound, ConnOK, SameCall, Keeps
<1>7. w.tk.op = "leave" /\ w.cn.block.closed
  BY DEF Stage
<1> DEFINE tk == [u.tk EXCEPT !.pc = "reattaching"]
<1>8. u.tk \in TaskType /\ "reattaching" \in Holding
  BY <1>3 DEF WorldType, Holding
<1>9. tk.pc = "reattaching" /\ tk.op = u.tk.op
  BY <1>8 DEF TaskType
<1> HIDE DEF tk
<1>10. Stage(u.cn, tk)
  BY <1>4, <1>5, <1>7, <1>9 DEF Stage, StageBack, StageSigning, WayBack, Signing
<1>11. Post(u, At(u, "reattaching"))
  BY <1>6, <1>8, <1>10, AtPost DEF Staged, tk
<1> QED BY <1>6, <1>11, PostFrom

LEMMA ReattachedPost ==
  ASSUME NEW w, Sound(w), w.tk.pc = "reattaching", Stage(w.cn, w.tk)
  PROVE  /\ w.tk.op = "leave"
         /\ Post(w, PutBack(w, Fresh(w.cn.block.slot.engine.url)))
         /\ Post(w, PutBack(w, NoEngine))
<1>1. w.cn.block.slot.engine.url \in Urls /\ w.cn.block.slot \in SlotType
  BY DEF Sound, WorldType, ConnType, BlockType, SlotType, EngineType
<1>2. w.tk.op = "leave" /\ w.cn.block.closed
  BY DEF Stage
<1>3. /\ w.cn.block.slot = [EmptySlot EXCEPT !.engine = Down(w.cn.block.slot.engine)]
      /\ w.cn.block.slot.engine.url # None
  BY <1>2 DEF Sound, ConnOK
<1>4. w.cn.block.slot.selected = None /\ w.cn.block.slot.owner /\ ~w.cn.block.slot.user /\ ~w.cn.block.slot.bound
  BY <1>3 DEF EmptySlot
<1>5. PICK f : f = Fresh(w.cn.block.slot.engine.url)
  OBVIOUS
<1>6. f \in EngineType /\ f.url = w.cn.block.slot.engine.url /\ f.up = TRUE /\ f.who = Owner /\ f.user = FALSE
  BY <1>1, <1>5, FreshIs
<1>7. PICK s : s = [w.cn.block.slot EXCEPT !.engine = f]
  OBVIOUS
<1>8. s \in SlotType
  BY <1>1, <1>6, <1>7 DEF SlotType
<1>9. /\ s.engine = f /\ s.selected = None /\ s.owner /\ s.user = FALSE /\ ~s.bound
  BY <1>1, <1>4, <1>7 DEF SlotType
<1>10. FreeOK(s)
  BY <1>3, <1>6, <1>9 DEF FreeOK, SlotOK
<1>11. Post(w, PutBack(w, f))
  BY <1>2, <1>6, <1>7, <1>8, <1>10, PutBackPost DEF Post, Serving
<1>12. PICK e : e = NoEngine
  OBVIOUS
<1>13. PICK r : r = [w.cn.block.slot EXCEPT !.engine = e]
  OBVIOUS
<1>14. r \in SlotType /\ e \in EngineType
  BY <1>1, <1>12, <1>13, Constants DEF SlotType
<1>15. r.engine = e /\ ~r.bound
  BY <1>1, <1>4, <1>13 DEF SlotType
<1>16. FreeOK(r)
  BY <1>12, <1>15 DEF FreeOK, SlotOK
<1>17. Post(w, PutBack(w, e))
  BY <1>2, <1>13, <1>14, <1>16, PutBackPost DEF Post, Serving
<1> QED BY <1>2, <1>5, <1>11, <1>12, <1>17

-----------------------------------------------------------------------------
(***************************************************************************)
(* The invariant after a task's step                                       *)
(***************************************************************************)
(* Of the steps of every task, those that hand a client out.               *)
ServesNow ==
  \A t \in Tasks :
    LET c == task[t].conn IN
    task[t].op = "get" /\ task'[t] = Idle /\ conn[c].guard = t =>
      LET cn == conn'[c] IN
      \/ cn.slot.engine = NoEngine
      \/ cn.slot.selected = None
      \/ cn.slot.engine.url = cn.url /\ (cn.slot.selected = cn.database \/ task[t].moved)

(* What a task that holds the guard, or takes it, starts from.             *)
LEMMA WorldIs ==
  ASSUME SlotInv, NEW t \in Tasks, task[t].pc \in Holding
  PROVE  /\ Sound(World(t)) /\ Called(World(t)) /\ Stage(World(t).cn, World(t).tk)
         /\ World(t).me = t /\ World(t).tk = task[t] /\ World(t).cn = conn[task[t].conn]
         /\ World(t).claims = claims
         /\ task[t].conn \in Connections /\ conn[task[t].conn].guard = t
         /\ task[t] \in TaskType /\ conn[task[t].conn] \in ConnType
<1> DEFINE w == World(t)
<1>1. w.me = t /\ w.tk = task[t] /\ w.cn = conn[task[t].conn] /\ w.claims = claims
  BY DEF World
<1>2. task[t].pc # "idle"
  BY DEF Holding, WayBack, Signing
<1>3. task[t].conn \in Connections /\ task[t] \in TaskType
  BY <1>2 DEF SlotInv, CallKnown, TypeOK
<1>4. conn[task[t].conn] \in ConnType /\ claims \in ClaimsType /\ ConnOK(conn[task[t].conn])
  BY <1>3 DEF SlotInv, TypeOK
<1>5. w \in WorldType
  BY <1>3, <1>4 DEF World, WorldType
<1>6. conn[task[t].conn].guard = t /\ Stage(conn[task[t].conn], task[t])
  BY DEF SlotInv, GuardHeld
<1>7. task[t].op \in {"signin", "bind"} =>
        task[t].who.of = conn[task[t].conn].database /\ conn[task[t].conn].database # None
  BY <1>4 DEF SlotInv, CallKnown, ConnOK
<1> HIDE DEF w
<1>8. Sound(w) /\ Called(w) /\ Stage(w.cn, w.tk)
  BY <1>1, <1>4, <1>5, <1>6, <1>7 DEF Sound, Called
<1> QED BY <1>1, <1>3, <1>4, <1>6, <1>8 DEF w

(* The call is over, or waits again and holds the guard.                   *)
Landed(t) ==
  \/ task'[t] = Idle
  \/ task'[t].pc \in Holding /\ task'[t].op = task[t].op /\ task'[t].conn = task[t].conn

(* A task's step, by what it leaves.                                       *)
LEMMA StepInv ==
  ASSUME SlotInv, NEW t \in Tasks, task[t].pc # "idle",
         conn[task[t].conn].guard \in {None, t},
         NEW w, w.me = t, w.tk.op = task[t].op, w.tk.conn = task[t].conn, w.tk.who = task[t].who,
         NEW v, Lands(w, v), Becomes(t, v),
         \/ v.cn.url = conn[task[t].conn].url /\ v.cn.database = conn[task[t].conn].database
         \/ Settled(task[t].conn),
         v.tk.op = "enter" => /\ v.tk.target.url # None /\ v.tk.target.database # None
                              /\ Settled(task[t].conn)
  PROVE  SlotInv' /\ Landed(t)
<1> DEFINE c == task[t].conn
<1>1. c \in Connections /\ conn \in [Connections -> ConnType] /\ task \in [Tasks -> TaskType]
  BY DEF SlotInv, CallKnown, TypeOK
<1>2. v \in WorldType /\ v.cn \in ConnType /\ v.tk \in TaskType /\ v.claims \in ClaimsType /\ v.me = t
  BY DEF Lands, WorldType
<1>3. conn' = [conn EXCEPT ![c] = v.cn] /\ task' = [task EXCEPT ![t] = v.tk] /\ claims' = v.claims
  BY DEF Becomes
<1>4. conn'[c] = v.cn /\ \A d \in Connections : d # c => conn'[d] = conn[d]
  BY <1>1, <1>3
<1>5. task'[t] = v.tk /\ \A u \in Tasks : u # t => task'[u] = task[u]
  BY <1>1, <1>3
<1>6. TypeOK'
  BY <1>1, <1>2, <1>3 DEF TypeOK
<1>7. \/ v.tk = Idle /\ v.cn.guard = None /\ FreeOK(v.cn.slot)
      \/ /\ v.cn.guard = t /\ v.tk.pc \in Holding
         /\ v.tk.op = task[t].op /\ v.tk.conn = c /\ v.tk.who = task[t].who
         /\ Stage(v.cn, v.tk)
  BY DEF Lands
<1>8. ConnOK(v.cn)
  BY DEF Lands
<1>9. None \notin Tasks /\ Idle.pc \notin Holding /\ Idle.pc = "idle" /\ Idle.op = None
  BY SlotAssumption DEF SlotAssumption, Idle, Holding, WayBack, Signing
<1> HIDE DEF c
<1>10. conn[c].guard \in {None, t}
  BY DEF c
<1>11. \A u \in Tasks : u # t /\ task[u].pc \in Holding => task[u].conn # c
  BY <1>9, <1>10 DEF SlotInv, GuardHeld
<1>12. GuardHeld'
  <2>1. ASSUME NEW u \in Tasks, task'[u].pc \in Holding PROVE conn'[task'[u].conn].guard = u
    <3>1. CASE u = t
      BY <1>4, <1>5, <1>7, <1>9, <2>1, <3>1
    <3>2. CASE u # t
      <4>1. task[u].pc \in Holding /\ task[u].conn # c
        BY <1>5, <1>11, <2>1, <3>2
      <4>2. task[u].conn \in Connections /\ conn[task[u].conn].guard = u
        BY <4>1 DEF SlotInv, GuardHeld, CallKnown, Holding, WayBack, Signing
      <4> QED BY <1>4, <1>5, <3>2, <4>1, <4>2
    <3> QED BY <3>1, <3>2
  <2>2. ASSUME NEW d \in Connections, NEW u \in Tasks, conn'[d].guard = u
        PROVE  task'[u].conn = d /\ task'[u].pc \in Holding
    <3>1. CASE d = c
      BY <1>4, <1>5, <1>7, <1>9, <2>2, <3>1
    <3>2. CASE d # c
      <4>1. conn[d].guard = u
        BY <1>4, <2>2, <3>2
      <4>2. task[u].conn = d /\ task[u].pc \in Holding
        BY <4>1 DEF SlotInv, GuardHeld
      <4>3. u # t
        BY <3>2, <4>2 DEF c
      <4> QED BY <1>5, <4>2, <4>3
    <3> QED BY <3>1, <3>2
  <2> QED BY <2>1, <2>2 DEF GuardHeld
<1>13. \A d : Settled(d) => Settled(d)'
  BY <1>1, <1>5, <1>7, <1>9 DEF Settled, c
<1>14. ASSUME NEW u \in Tasks PROVE CallKnown(u)'
  <2>1. CASE u # t
    <3>1. task'[u] = task[u]
      BY <1>5, <2>1
    <3>2. CallKnown(u)
      BY DEF SlotInv
    <3>3. task[u].op \in {"signin", "bind"} => task[u].pc # "idle"
      BY <1>9, <3>2 DEF CallKnown
    <3>4. task[u].op \in {"signin", "bind"} =>
            task[u].who.of = conn'[task[u].conn].database /\ conn'[task[u].conn].url # None
      <4>1. CASE task[u].conn = c
        <5>1. Settled(c) => task[u].op \notin {"signin", "bind"}
          BY <4>1 DEF Settled
        <5> QED BY <1>4, <3>2, <4>1, <5>1 DEF CallKnown, c
      <4>2. CASE task[u].conn # c
        BY <1>4, <3>2, <3>3, <4>2 DEF CallKnown
      <4> QED BY <4>1, <4>2
    <3>5. task[u].pc = "detaching" => Settled(task[u].conn)'
      BY <1>13, <3>1, <3>2 DEF CallKnown
    <3> QED BY <3>1, <3>2, <3>4, <3>5 DEF CallKnown
  <2>2. CASE u = t /\ v.tk = Idle
    BY <1>5, <1>9, <2>2 DEF CallKnown
  <2>3. CASE u = t /\ v.tk # Idle
    <3>1. /\ v.cn.guard = t /\ v.tk.pc \in Holding
          /\ v.tk.op = task[t].op /\ v.tk.conn = c /\ v.tk.who = task[t].who
          /\ Stage(v.cn, v.tk)
      BY <1>7, <2>3
    <3>2. CallKnown(t)
      BY DEF SlotInv
    <3>3. v.tk.pc # "idle"
      BY <1>9, <3>1
    <3>4. v.tk.op \in {"signin", "bind"} => v.tk.who.of = v.cn.database /\ v.cn.url # None
      <4>1. Settled(c) => v.tk.op \notin {"signin", "bind"}
        BY <3>1 DEF Settled, c
      <4> QED BY <3>1, <3>2, <4>1 DEF CallKnown, c
    <3>5. v.tk.pc = "detaching" => Settled(task[t].conn)'
      <4>1. PICK d : d = c
        OBVIOUS
      <4>2. v.tk.pc = "detaching" => Settled(d)
        BY <3>1, <4>1 DEF Stage, c
      <4>3. Settled(d) => Settled(d)'
        BY <1>13
      <4>4. task'[t].conn = d
        BY <1>5, <3>1, <4>1
      <4>5. Settled(d)' => Settled(task[t].conn)'
        BY <4>4 DEF Settled
      <4> QED BY <4>2, <4>3, <4>5
    <3> QED BY <1>1, <1>4, <1>5, <2>3, <3>1, <3>3, <3>4, <3>5 DEF CallKnown
  <2> QED BY <2>1, <2>2, <2>3
<1>15. ASSUME NEW d \in Connections PROVE ConnOK(conn'[d]) /\ (conn'[d].guard = None => FreeOK(conn'[d].slot))
  BY <1>4, <1>7, <1>8, <1>9 DEF SlotInv
<1>16. ASSUME NEW u \in Tasks, task'[u].pc \in Holding PROVE Stage(conn'[task'[u].conn], task'[u])
  <2>1. CASE u = t
    BY <1>4, <1>5, <1>7, <1>9, <1>16, <2>1
  <2>2. CASE u # t
    <3>1. task[u].pc \in Holding /\ task[u].conn # c /\ task'[u] = task[u]
      BY <1>5, <1>11, <1>16, <2>2
    <3>2. task[u].conn \in Connections /\ Stage(conn[task[u].conn], task[u])
      BY <3>1 DEF SlotInv, CallKnown, Holding, WayBack, Signing
    <3> QED BY <1>4, <3>1, <3>2
  <2> QED BY <2>1, <2>2
<1>17. Landed(t)
  BY <1>5, <1>7 DEF Landed, c
<1> QED BY <1>6, <1>12, <1>14, <1>15, <1>16, <1>17 DEF SlotInv

(* What a step of a guard holder shows of the clients handed out.          *)
LEMMA OthersServe ==
  ASSUME SlotInv, NEW t \in Tasks, task[t].pc # "idle", NEW v, Becomes(t, v),
         task[t].op = "get" /\ v.tk = Idle /\ conn[task[t].conn].guard = t => Served(v.cn, task[t].moved)
  PROVE  ServesNow
<1>1. task[t].conn \in Connections /\ conn \in [Connections -> ConnType] /\ task \in [Tasks -> TaskType]
  BY DEF SlotInv, CallKnown, TypeOK
<1>2. conn'[task[t].conn] = v.cn
  BY <1>1 DEF Becomes
<1>3. task'[t] = v.tk /\ \A u \in Tasks : u # t => task'[u] = task[u]
  BY <1>1 DEF Becomes
<1>4. Idle.op # "get"
  BY DEF Idle
<1> QED BY <1>2, <1>3, <1>4 DEF ServesNow, Served

(* Only who enters a block, or closes an engine, waits without a session.  *)
LEMMA NeverEnters ==
  ASSUME NEW cn, NEW tk, tk.pc \in Holding \ {"forgetting", "detaching"}, Stage(cn, tk)
  PROVE  tk.op # "enter"
<1>1. CASE tk.pc \in {"opening", "replacing", "reading", "discarding", "reattaching", "ending"}
  BY <1>1 DEF Stage, Phased, Gets
<1>2. CASE tk.pc \in WayBack
  BY <1>2 DEF Stage, StageBack, Returning, Phased, Gets
<1>3. CASE tk.pc \in Signing
  BY <1>3 DEF Stage, StageSigning, Owns, Phased, Gets
<1> QED BY <1>1, <1>2, <1>3 DEF Holding

(* A step of a guard holder that leaves the settings.                      *)
LEMMA HolderStep ==
  ASSUME SlotInv, NEW t \in Tasks, task[t].pc \in Holding \ {"forgetting", "detaching"},
         NEW v, Post(World(t), v), Becomes(t, v)
  PROVE  SlotInv' /\ ServesNow /\ Landed(t)
<1>1. /\ Sound(World(t)) /\ Called(World(t)) /\ Stage(World(t).cn, World(t).tk)
      /\ World(t).me = t /\ World(t).tk = task[t] /\ World(t).cn = conn[task[t].conn]
      /\ conn[task[t].conn].guard = t
  BY WorldIs
<1>2. task[t].pc # "idle"
  BY DEF Holding, WayBack, Signing
<1>3. PICK w : w = World(t)
  OBVIOUS
<1>4. task[t].op # "enter"
  BY <1>1, NeverEnters
<1>5. Lands(w, v) /\ v.cn.url = conn[task[t].conn].url /\ v.cn.database = conn[task[t].conn].database
  BY <1>1, <1>3 DEF Post, Keeps
<1>6. v.tk.op # "enter"
  BY <1>1, <1>3, <1>4, <1>5 DEF Lands, Idle
<1>7. SlotInv' /\ Landed(t)
  BY <1>1, <1>2, <1>3, <1>5, <1>6, StepInv
<1>8. task[t].op = "get" /\ v.tk = Idle => Served(v.cn, task[t].moved)
  BY <1>1 DEF Post, Serving
<1>9. ServesNow
  BY <1>2, <1>8, OthersServe
<1> QED BY <1>7, <1>9

-----------------------------------------------------------------------------
(***************************************************************************)
(* The steps, one by one                                                   *)
(***************************************************************************)
(* The guard is taken.                                                     *)
Guarded(t) == [World(t) EXCEPT !.cn.guard = t]

LEMMA GuardedIs ==
  ASSUME SlotInv, NEW t \in Tasks, task[t].pc = "waiting", conn[task[t].conn].guard = None,
         NEW w, w = Guarded(t)
  PROVE  /\ Sound(w) /\ FreeOK(w.cn.slot)
         /\ w.me = t /\ w.tk = task[t] /\ w.cn.url = conn[task[t].conn].url
         /\ w.cn.database = conn[task[t].conn].database
         /\ task[t].conn \in Connections
<1>1. task[t].conn \in Connections /\ task[t] \in TaskType
  BY DEF SlotInv, CallKnown, TypeOK
<1>2. /\ conn[task[t].conn] \in ConnType /\ claims \in ClaimsType /\ ConnOK(conn[task[t].conn])
      /\ FreeOK(conn[task[t].conn].slot)
  BY <1>1 DEF SlotInv, TypeOK
<1>3. PICK cn : cn = [conn[task[t].conn] EXCEPT !.guard = t]
  OBVIOUS
<1>4. cn \in ConnType
  BY <1>2, <1>3 DEF ConnType
<1>5. /\ cn.guard = t /\ cn.url = conn[task[t].conn].url /\ cn.database = conn[task[t].conn].database
      /\ cn.token = conn[task[t].conn].token /\ cn.slot = conn[task[t].conn].slot
      /\ cn.block = conn[task[t].conn].block
  BY <1>2, <1>3 DEF ConnType
<1>6. w = [me |-> t, tk |-> task[t], cn |-> cn, claims |-> claims]
  BY <1>3 DEF Guarded, World
<1>7. w \in WorldType /\ w.me = t /\ w.tk = task[t] /\ w.cn = cn
  BY <1>1, <1>2, <1>4, <1>6 DEF WorldType
<1>8. ConnOK(cn)
  BY <1>2, <1>5 DEF ConnOK
<1> QED BY <1>1, <1>2, <1>5, <1>7, <1>8 DEF Sound

LEMMA AcquireStep ==
  ASSUME SlotInv, NEW t \in Tasks, Acquire(t)
  PROVE  SlotInv' /\ ServesNow /\ Landed(t)
<1>1. task[t].pc = "waiting" /\ conn[task[t].conn].guard = None
  BY DEF Acquire
<1>2. PICK w : w = Guarded(t)
  OBVIOUS
<1>3. /\ Sound(w) /\ FreeOK(w.cn.slot)
      /\ w.me = t /\ w.tk = task[t] /\ w.cn.url = conn[task[t].conn].url
      /\ w.cn.database = conn[task[t].conn].database
  BY <1>1, <1>2, GuardedIs
<1>4. None \notin Tasks
  BY SlotAssumption DEF SlotAssumption
<1>5. ASSUME NEW v, Becomes(t, v) PROVE ServesNow
  BY <1>1, <1>4, <1>5, OthersServe
<1>6. ASSUME NEW v, Becomes(t, v), Lands(w, v), v.cn.url = w.cn.url, v.cn.database = w.cn.database,
             v.tk.op # "enter"
      PROVE  SlotInv' /\ Landed(t)
  <2>1. v.cn.url = conn[task[t].conn].url /\ v.cn.database = conn[task[t].conn].database
    BY <1>3, <1>6
  <2> QED BY <1>1, <1>3, <1>6, <2>1, StepInv
<1>7. Idle.op = None
  BY DEF Idle
<1>8. CASE task[t].op \in Gets /\ Becomes(t, Held(w))
  <2>1. PICK v : v = Held(w)
    OBVIOUS
  <2>2. Lands(w, v) /\ Keeps(w, v)
    BY <1>3, <1>8, <2>1, HeldPost
  <2>3. v.tk.op # "enter"
    BY <1>3, <1>7, <1>8, <2>2 DEF Lands, Gets
  <2>4. Becomes(t, v)
    BY <1>8, <2>1
  <2> QED BY <1>5, <1>6, <2>2, <2>3, <2>4 DEF Keeps
<1>9. CASE task[t].op \in {"close", "remove"}
           /\ Becomes(t, IF w.cn.slot.engine = NoEngine THEN Ends(w) ELSE Forget(w, "forgetting"))
  <2>1. PICK v : v = IF w.cn.slot.engine = NoEngine THEN Ends(w) ELSE Forget(w, "forgetting")
    OBVIOUS
  <2>2. w.tk.op # "get"
    BY <1>3, <1>9
  <2>3. Post(w, Ends(w))
    BY <1>3, <2>2, EndsPost
  <2>4. Post(w, Forget(w, "forgetting"))
    BY <1>3, ForgetPost
  <2>5. Post(w, v)
    BY <2>1, <2>3, <2>4
  <2>6. v.tk.op # "enter"
    BY <1>3, <1>7, <1>9, <2>5 DEF Post, Lands
  <2>7. Becomes(t, v)
    BY <1>9, <2>1
  <2> QED BY <1>5, <1>6, <2>5, <2>6, <2>7 DEF Post, Keeps
<1>10. CASE task[t].op = "enter" /\ Settled(task[t].conn) /\ Becomes(t, EntersBlock(w))
  <2>1. PICK v : v = EntersBlock(w)
    OBVIOUS
  <2>2. w.tk.target.url # None /\ w.tk.target.database # None
    BY <1>3, <1>10 DEF SlotInv, CallKnown
  <2>3. Lands(w, v) /\ (v.tk # Idle => v.tk.target = w.tk.target)
    BY <1>3, <1>10, <2>1, <2>2, EntersPost
  <2>4. v.tk.op = "enter" => v.tk.target.url # None /\ v.tk.target.database # None
    BY <1>7, <2>2, <2>3
  <2>5. Becomes(t, v)
    BY <1>10, <2>1
  <2>6. SlotInv' /\ Landed(t)
    BY <1>1, <1>3, <1>10, <2>3, <2>4, <2>5, StepInv
  <2> QED BY <1>5, <2>5, <2>6
<1>11. CASE task[t].op = "leave" /\ Settled(task[t].conn) /\ Becomes(t, LeavesBlock(w))
  <2>1. PICK v : v = LeavesBlock(w)
    OBVIOUS
  <2>2. Lands(w, v)
    BY <1>3, <1>11, <2>1, LeavesPost
  <2>3. v.tk.op # "enter"
    BY <1>3, <1>7, <1>11, <2>2 DEF Lands
  <2>4. Becomes(t, v)
    BY <1>11, <2>1
  <2>5. SlotInv' /\ Landed(t)
    BY <1>1, <1>3, <1>11, <2>2, <2>3, <2>4, StepInv
  <2> QED BY <1>5, <2>4, <2>5
<1>12. \/ task[t].op \in Gets /\ Becomes(t, Held(w))
       \/ /\ task[t].op \in {"close", "remove"}
          /\ Becomes(t, IF w.cn.slot.engine = NoEngine THEN Ends(w) ELSE Forget(w, "forgetting"))
       \/ task[t].op = "enter" /\ Settled(task[t].conn) /\ Becomes(t, EntersBlock(w))
       \/ task[t].op = "leave" /\ Settled(task[t].conn) /\ Becomes(t, LeavesBlock(w))
  BY <1>2 DEF Acquire, Guarded, Gets
<1> QED BY <1>8, <1>9, <1>10, <1>11, <1>12

(* An engine is closed: its store is let go.                               *)
LetsGo(t) == [World(t) EXCEPT !.tk.engine = NoEngine, !.claims = Unclaimed(claims, task[t].engine.url, task[t].conn)]

LEMMA ForgottenStep ==
  ASSUME SlotInv, NEW t \in Tasks, Forgotten(t)
  PROVE  SlotInv' /\ ServesNow /\ Landed(t)
<1>1. task[t].pc \in {"forgetting", "replacing"}
  BY DEF Forgotten
<1>2. task[t].pc \in Holding /\ task[t].pc # "idle"
  BY <1>1 DEF Holding
<1>3. /\ Sound(World(t)) /\ Stage(World(t).cn, World(t).tk)
      /\ World(t).me = t /\ World(t).tk = task[t] /\ World(t).cn = conn[task[t].conn]
      /\ World(t).claims = claims
      /\ task[t].conn \in Connections /\ conn[task[t].conn].guard = t /\ task[t] \in TaskType
  BY <1>2, WorldIs
<1>4. PICK x : x = World(t)
  OBVIOUS
<1>5. PICK held : held = Unclaimed(claims, task[t].engine.url, task[t].conn)
  OBVIOUS
<1>6. held \in ClaimsType
  BY <1>3, <1>5, ClaimsTyped DEF SlotInv, TypeOK
<1>7. PICK w : w = LetsGo(t)
  OBVIOUS
<1>8. w = [x EXCEPT !.tk.engine = NoEngine, !.claims = held]
  BY <1>4, <1>5, <1>7 DEF LetsGo
<1>9. x \in WorldType /\ x.tk \in TaskType
  BY <1>3, <1>4 DEF Sound, WorldType
<1>10. w \in WorldType
  BY <1>6, <1>8, <1>9, Constants DEF WorldType, TaskType
<1>11. w.me = x.me /\ w.cn = x.cn
  BY <1>8, <1>9 DEF WorldType
<1>12. /\ w.tk.op = x.tk.op /\ w.tk.conn = x.tk.conn /\ w.tk.who = x.tk.who /\ w.tk.moved = x.tk.moved
       /\ w.tk.generation = x.tk.generation
  BY <1>8, <1>9 DEF WorldType, TaskType
<1>13. Sound(w) /\ SameCall(x, w)
  BY <1>3, <1>4, <1>10, <1>11, <1>12 DEF Sound, SameCall, Keeps
<1>14. w.cn.slot = EmptySlot
  BY <1>1, <1>3, <1>4, <1>11 DEF Stage
<1>15. FreeOK(w.cn.slot) /\ w.cn.slot.engine = NoEngine
  BY <1>14, EmptyIsFree
<1>16. CASE task[t].pc = "forgetting"
  <2>1. PICK v : v = Ends(w)
    OBVIOUS
  <2>2. Becomes(t, v)
    BY <1>7, <1>16, <2>1 DEF Forgotten, LetsGo
  <2>3. Served(w.cn, w.tk.moved)
    BY <1>15 DEF Served
  <2>4. Post(w, v)
    BY <1>13, <1>15, <2>1, <2>3, EndsPost
  <2>5. Post(x, v)
    BY <1>13, <2>4, PostFrom
  <2>6. v.tk = Idle /\ v.tk.op # "enter"
    <3>1. v.tk = Idle
      BY <1>13, <1>15, <2>1, EndsLands
    <3> QED BY <3>1 DEF Idle
  <2>7. Lands(x, v) /\ v.cn.url = conn[task[t].conn].url /\ v.cn.database = conn[task[t].conn].database
    BY <1>3, <1>4, <2>5 DEF Post, Keeps
  <2>8. SlotInv' /\ Landed(t)
    BY <1>2, <1>3, <1>4, <2>2, <2>6, <2>7, StepInv
  <2>9. task[t].op = "get" /\ v.tk = Idle => Served(v.cn, task[t].moved)
    BY <1>3, <1>4, <2>5 DEF Post, Serving
  <2>10. ServesNow
    BY <1>2, <2>2, <2>9, OthersServe
  <2> QED BY <2>8, <2>10
<1>17. CASE task[t].pc = "replacing"
  <2>1. PICK v : v = Open(w)
    OBVIOUS
  <2>2. Becomes(t, v)
    BY <1>7, <1>17, <2>1 DEF Forgotten, LetsGo
  <2>3. w.tk.op \in Gets /\ w.tk.generation <= w.cn.generation
    BY <1>3, <1>4, <1>11, <1>12, <1>17 DEF Stage
  <2>4. Post(w, v)
    BY <1>13, <1>15, <2>1, <2>3, OpenPost
  <2>5. Post(x, v)
    BY <1>13, <2>4, PostFrom
  <2>6. task[t].pc \in Holding \ {"forgetting", "detaching"}
    BY <1>2, <1>17
  <2>7. Post(World(t), v)
    BY <1>4, <2>5
  <2> QED BY <2>2, <2>6, <2>7, HolderStep
<1> QED BY <1>1, <1>16, <1>17

(* The engine answers, or refuses.                                         *)
LEMMA OpenedStep ==
  ASSUME SlotInv, NEW t \in Tasks, Opened(t) \/ OpenFails(t)
  PROVE  SlotInv' /\ ServesNow /\ Landed(t)
<1>1. task[t].pc = "opening"
  BY DEF Opened, OpenFails
<1>2. task[t].pc \in Holding \ {"forgetting", "detaching"}
  BY <1>1 DEF Holding
<1>3. PICK w : w = World(t)
  OBVIOUS
<1>4. Sound(w) /\ Stage(w.cn, w.tk) /\ w.tk = task[t]
  BY <1>2, <1>3, WorldIs
<1>5. CASE Opened(t)
  <2>1. PICK v : v = Replay([w EXCEPT !.tk.engine = [Fresh(w.tk.engine.url) EXCEPT !.selects = w.tk.database]])
    OBVIOUS
  <2>2. Becomes(t, v)
    BY <1>3, <1>5, <2>1 DEF Opened
  <2>3. Post(w, v)
    BY <1>1, <1>4, <2>1, OpenedPost
  <2> QED BY <1>2, <1>3, <2>2, <2>3, HolderStep
<1>6. CASE OpenFails(t)
  <2>1. PICK v : v = NotOpened(w)
    OBVIOUS
  <2>2. Becomes(t, v)
    BY <1>3, <1>6, <2>1 DEF OpenFails
  <2>3. w.cn.slot = EmptySlot
    BY <1>1, <1>4 DEF Stage
  <2>4. w.cn.slot.engine = NoEngine /\ ~w.cn.slot.bound
    BY <2>3 DEF EmptySlot
  <2>5. Post(w, v)
    BY <1>4, <2>1, <2>4, NotOpenedPost
  <2> QED BY <1>2, <1>3, <2>2, <2>5, HolderStep
<1> QED BY <1>5, <1>6

(* The way back to the owner.                                              *)
LEMMA RemovedStep ==
  ASSUME SlotInv, NEW t \in Tasks, Removed(t)
  PROVE  SlotInv' /\ ServesNow /\ Landed(t)
<1>1. task[t].pc = "removing"
  BY DEF Removed
<1>2. task[t].pc \in Holding \ {"forgetting", "detaching"}
  BY <1>1 DEF Holding, WayBack
<1>3. PICK w : w = World(t)
  OBVIOUS
<1>4. Sound(w) /\ Stage(w.cn, w.tk) /\ w.tk = task[t]
  BY <1>2, <1>3, WorldIs
<1>5. Post(w, Select(Defines(w, FALSE))) /\ Post(w, Select(w))
  BY <1>1, <1>4, DropsPost
<1>6. PICK v : Becomes(t, v) /\ (v = Select(Defines(w, FALSE)) \/ v = Select(w))
  BY <1>3 DEF Removed
<1> QED BY <1>2, <1>3, <1>5, <1>6, HolderStep

LEMMA ClosedStep ==
  ASSUME SlotInv, NEW t \in Tasks, Closed(t)
  PROVE  SlotInv' /\ ServesNow /\ Landed(t)
<1>1. task[t].pc = "closing"
  BY DEF Closed
<1>2. task[t].pc \in Holding \ {"forgetting", "detaching"}
  BY <1>1 DEF Holding, WayBack
<1>3. PICK w : w = World(t)
  OBVIOUS
<1>4. Sound(w) /\ Stage(w.cn, w.tk) /\ w.tk = task[t] /\ w.tk.pc \in WayBack
  BY <1>1, <1>2, <1>3, WorldIs DEF WayBack
<1>5. w.tk.phase # "opening"
  BY <1>4, BackIs
<1>6. PICK u : u = WithSession(w, Down(w.cn.slot.engine))
  OBVIOUS
<1>7. u = [w EXCEPT !.cn.slot.engine = Down(w.cn.slot.engine)]
  BY <1>5, <1>6 DEF WithSession
<1>8. PICK v : v = At(Ended(u), "connecting")
  OBVIOUS
<1>9. Becomes(t, v)
  BY <1>3, <1>7, <1>8 DEF Closed
<1>10. Post(w, v)
  BY <1>1, <1>4, <1>6, <1>8, ClosedPost
<1> QED BY <1>2, <1>3, <1>9, <1>10, HolderStep

LEMMA ConnectedStep ==
  ASSUME SlotInv, NEW t \in Tasks, Connected(t)
  PROVE  SlotInv' /\ ServesNow /\ Landed(t)
<1>1. task[t].pc = "connecting"
  BY DEF Connected
<1>2. task[t].pc \in Holding \ {"forgetting", "detaching"}
  BY <1>1 DEF Holding, WayBack
<1>3. PICK w : w = World(t)
  OBVIOUS
<1>4. Sound(w) /\ Stage(w.cn, w.tk) /\ w.tk = task[t] /\ w.tk.pc \in WayBack
  BY <1>1, <1>2, <1>3, WorldIs DEF WayBack
<1>5. w.tk.phase # "opening" /\ w \in WorldType
  BY <1>4, BackIs
<1>6. PICK u : u = WithSession(w, Fresh(w.cn.slot.engine.url))
  OBVIOUS
<1>7. PICK f : f = Fresh(w.cn.slot.engine.url)
  OBVIOUS
<1>8. u = [w EXCEPT !.cn.slot.engine = f]
  BY <1>5, <1>6, <1>7 DEF WithSession
<1>9. AsOwner(u) = [w EXCEPT !.cn.slot.engine = f, !.cn.slot.owner = TRUE, !.cn.slot.bound = FALSE]
  BY <1>8 DEF AsOwner
<1>10. Post(w, Select(AsOwner(u)))
  BY <1>1, <1>4, <1>6, ConnectedPost
<1>11. Post(w, Fails(w))
  BY <1>4, BackFails
<1>12. PICK v : Becomes(t, v) /\ (v = Select(AsOwner(u)) \/ v = Fails(w))
  <2>1. CASE Becomes(t, Select([w EXCEPT !.cn.slot.engine = f, !.cn.slot.owner = TRUE, !.cn.slot.bound = FALSE]))
    BY <1>9, <2>1
  <2>2. CASE Becomes(t, Fails(w))
    BY <2>2
  <2> QED BY <1>3, <1>7, <2>1, <2>2 DEF Connected
<1> QED BY <1>2, <1>3, <1>10, <1>11, <1>12, HolderStep

LEMMA InvalidatedStep ==
  ASSUME SlotInv, NEW t \in Tasks, Invalidated(t)
  PROVE  SlotInv' /\ ServesNow /\ Landed(t)
<1>1. task[t].pc = "invalidating"
  BY DEF Invalidated
<1>2. task[t].pc \in Holding \ {"forgetting", "detaching"}
  BY <1>1 DEF Holding, WayBack
<1>3. PICK w : w = World(t)
  OBVIOUS
<1>4. Sound(w) /\ Stage(w.cn, w.tk) /\ w.tk = task[t] /\ w.tk.pc \in WayBack
  BY <1>1, <1>2, <1>3, WorldIs DEF WayBack
<1>5. PICK u : u = Ended(Runs(w, Anonymous, w.cn.slot.engine.selects))
  OBVIOUS
<1>6. Post(w, At(u, "owning")) /\ Post(w, Fails(u)) /\ Post(w, Fails(w))
  BY <1>1, <1>4, <1>5, InvalidatedPost, BackFails
<1>7. PICK v : Becomes(t, v) /\ v \in {At(u, "owning"), Fails(u), Fails(w)}
  BY <1>3, <1>5 DEF Invalidated
<1> QED BY <1>2, <1>3, <1>6, <1>7, HolderStep

LEMMA OwnerSignedInStep ==
  ASSUME SlotInv, NEW t \in Tasks, OwnerSignedIn(t)
  PROVE  SlotInv' /\ ServesNow /\ Landed(t)
<1>1. task[t].pc = "owning"
  BY DEF OwnerSignedIn
<1>2. task[t].pc \in Holding \ {"forgetting", "detaching"}
  BY <1>1 DEF Holding, WayBack
<1>3. PICK w : w = World(t)
  OBVIOUS
<1>4. Sound(w) /\ Stage(w.cn, w.tk) /\ w.tk = task[t] /\ w.tk.pc \in WayBack
  BY <1>1, <1>2, <1>3, WorldIs DEF WayBack
<1>5. PICK u : u = Runs(w, Owner, w.cn.slot.engine.selects)
  OBVIOUS
<1>6. w.cn.slot.engine.user => Post(w, At(AsOwner(u), "dropping"))
  BY <1>1, <1>4, <1>5, OwnerSignedInPost
<1>7. Post(w, Fails(w))
  BY <1>4, BackFails
<1>8. PICK v : Becomes(t, v) /\ ((w.cn.slot.engine.user /\ v = At(AsOwner(u), "dropping")) \/ v = Fails(w))
  BY <1>3, <1>5 DEF OwnerSignedIn, AsOwner
<1> QED BY <1>2, <1>3, <1>6, <1>7, <1>8, HolderStep

LEMMA DroppedStep ==
  ASSUME SlotInv, NEW t \in Tasks, Dropped(t)
  PROVE  SlotInv' /\ ServesNow /\ Landed(t)
<1>1. task[t].pc = "dropping"
  BY DEF Dropped
<1>2. task[t].pc \in Holding \ {"forgetting", "detaching"}
  BY <1>1 DEF Holding, WayBack
<1>3. PICK w : w = World(t)
  OBVIOUS
<1>4. Sound(w) /\ Stage(w.cn, w.tk) /\ w.tk = task[t] /\ w.tk.pc \in WayBack
  BY <1>1, <1>2, <1>3, WorldIs DEF WayBack
<1>5. Post(w, Select(Defines(w, FALSE))) /\ Post(w, Fails(w))
  BY <1>1, <1>4, DropsPost, BackFails
<1>6. PICK v : Becomes(t, v) /\ (v = Select(Defines(w, FALSE)) \/ v = Fails(w))
  BY <1>3 DEF Dropped
<1> QED BY <1>2, <1>3, <1>5, <1>6, HolderStep

LEMMA UsedStep ==
  ASSUME SlotInv, NEW t \in Tasks, Used(t)
  PROVE  SlotInv' /\ ServesNow /\ Landed(t)
<1>1. task[t].pc = "using"
  BY DEF Used
<1>2. task[t].pc \in Holding \ {"forgetting", "detaching"}
  BY <1>1 DEF Holding, WayBack
<1>3. PICK w : w = World(t)
  OBVIOUS
<1>4. Sound(w) /\ Stage(w.cn, w.tk) /\ w.tk = task[t] /\ w.tk.pc \in WayBack
  BY <1>1, <1>2, <1>3, WorldIs DEF WayBack
<1>5. PICK u : u = Runs(w, w.cn.slot.engine.who, w.tk.database)
  OBVIOUS
<1>6. /\ w.tk.phase = "own" => Post(w, Ends(Published(u)))
      /\ w.tk.phase # "own" => Post(w, Replay(u))
      /\ Post(w, Fails(w))
  BY <1>1, <1>4, <1>5, UsedPost, BackFails
<1>7. PICK v : Becomes(t, v) /\ (v = (IF w.tk.phase = "own" THEN Ends(Published(u)) ELSE Replay(u)) \/ v = Fails(w))
  BY <1>3, <1>5 DEF Used
<1>8. Post(w, v)
  BY <1>6, <1>7
<1> QED BY <1>2, <1>3, <1>7, <1>8, HolderStep

(* The owner user, the exchange, the model's record.                       *)
LEMMA DefinedStep ==
  ASSUME SlotInv, NEW t \in Tasks, Defined(t)
  PROVE  SlotInv' /\ ServesNow /\ Landed(t)
<1>1. task[t].pc = "defining"
  BY DEF Defined
<1>2. task[t].pc \in Holding \ {"forgetting", "detaching"}
  BY <1>1 DEF Holding, Signing
<1>3. PICK w : w = World(t)
  OBVIOUS
<1>4. Sound(w) /\ Called(w) /\ Stage(w.cn, w.tk) /\ w.tk = task[t]
  BY <1>2, <1>3, WorldIs
<1>5. /\ Post(w, IF w.tk.phase = "own" THEN At(Defines(w, TRUE), "exchanging") ELSE ReplaySends(Defines(w, TRUE)))
      /\ Post(w, Undefined(w))
  BY <1>1, <1>4, DefinedPost, UndefinedPost
<1>6. PICK v : /\ Becomes(t, v)
               /\ \/ v = IF w.tk.phase = "own" THEN At(Defines(w, TRUE), "exchanging") ELSE ReplaySends(Defines(w, TRUE))
                  \/ v = Undefined(w)
  BY <1>3 DEF Defined
<1>7. Post(w, v)
  BY <1>5, <1>6
<1> QED BY <1>2, <1>3, <1>6, <1>7, HolderStep

LEMMA ExchangedStep ==
  ASSUME SlotInv, NEW t \in Tasks, Exchanged(t)
  PROVE  SlotInv' /\ ServesNow /\ Landed(t)
<1>1. task[t].pc \in {"replaying", "exchanging"}
  BY DEF Exchanged
<1>2. task[t].pc \in Holding \ {"forgetting", "detaching"} /\ task[t].pc \in Signing
  BY <1>1 DEF Holding, Signing
<1>3. PICK w : w = World(t)
  OBVIOUS
<1>4. Sound(w) /\ Called(w) /\ Stage(w.cn, w.tk) /\ w.tk = task[t]
  BY <1>2, <1>3, WorldIs
<1>5. \/ w.tk.phase \in {"opening", "resetting", "restoring"} /\ w.tk.pc # "exchanging"
      \/ w.tk.phase = "own" /\ w.tk.pc # "replaying"
  BY <1>2, <1>4, SigningIs DEF Owns
<1>6. PICK v : v = NotOwner(Runs(w, w.tk.who, w.tk.who.of))
  OBVIOUS
<1>7. PICK r : r = NotOwner(Runs(w, w.tk.replays, w.tk.replays.of))
  OBVIOUS
<1>8. \/ task[t].pc = "replaying" /\ Becomes(t, Replayed(r))
      \/ task[t].pc = "exchanging" /\ w.tk.op = "bind" /\ Becomes(t, At(Binds(v), "reading"))
      \/ /\ task[t].pc = "exchanging" /\ w.tk.op = "signin"
         /\ \E kept \in BOOLEAN : Becomes(t, Adopts(v, kept))
  <2>1. CASE task[t].pc = "replaying"
    <3>1. w.tk.phase # "own"
      BY <1>4, <1>5, <2>1
    <3> QED BY <1>3, <1>7, <2>1, <3>1 DEF Exchanged, NotOwner
  <2>2. CASE task[t].pc = "exchanging"
    <3>1. w.tk.phase = "own"
      BY <1>4, <1>5, <2>2
    <3> QED BY <1>3, <1>6, <2>2, <3>1 DEF Exchanged, NotOwner, Binds
  <2> QED BY <1>1, <2>1, <2>2
<1>9. PICK x : Becomes(t, x) /\ Post(w, x)
  <2>1. CASE task[t].pc = "replaying" /\ Becomes(t, Replayed(r))
    BY <1>4, <1>7, <2>1, ReplayingPost
  <2>2. CASE task[t].pc = "exchanging" /\ w.tk.op = "bind" /\ Becomes(t, At(Binds(v), "reading"))
    BY <1>4, <1>6, <2>2, ExchangingPost
  <2>3. CASE /\ task[t].pc = "exchanging" /\ w.tk.op = "signin"
             /\ \E kept \in BOOLEAN : Becomes(t, Adopts(v, kept))
    BY <1>4, <1>6, <2>3, ExchangingPost
  <2> QED BY <1>8, <2>1, <2>2, <2>3
<1> QED BY <1>2, <1>3, <1>9, HolderStep

LEMMA ReadStep ==
  ASSUME SlotInv, NEW t \in Tasks, Read(t)
  PROVE  SlotInv' /\ ServesNow /\ Landed(t)
<1>1. task[t].pc = "reading"
  BY DEF Read
<1>2. task[t].pc \in Holding \ {"forgetting", "detaching"}
  BY <1>1 DEF Holding
<1>3. PICK w : w = World(t)
  OBVIOUS
<1>4. Sound(w) /\ Called(w) /\ Stage(w.cn, w.tk) /\ w.tk = task[t]
  BY <1>2, <1>3, WorldIs
<1>5. Post(w, Adopts(w, TRUE)) /\ Post(w, Reset(w, "restoring"))
  BY <1>1, <1>4, ReadingPost
<1>6. PICK v : Becomes(t, v) /\ (v = Adopts(w, TRUE) \/ v = Reset(w, "restoring"))
  BY <1>3 DEF Read
<1> QED BY <1>2, <1>3, <1>5, <1>6, HolderStep

LEMMA ExchangeRefusedStep ==
  ASSUME SlotInv, NEW t \in Tasks, ExchangeRefused(t)
  PROVE  SlotInv' /\ ServesNow /\ Landed(t)
<1>1. task[t].pc \in {"exchanging", "replaying"}
  BY DEF ExchangeRefused
<1>2. task[t].pc \in Holding \ {"forgetting", "detaching"}
  BY <1>1 DEF Holding, Signing
<1>3. PICK w : w = World(t)
  OBVIOUS
<1>4. Sound(w) /\ Called(w) /\ Stage(w.cn, w.tk) /\ w.tk = task[t]
  BY <1>2, <1>3, WorldIs
<1>5. PICK u : u = IF w.tk.phase = "own" THEN w ELSE Tokenless(w)
  OBVIOUS
<1>6. PICK v : v = IF w.tk.was /\ w.cn.slot.user THEN At(u, "undoing") ELSE Refused(u)
  OBVIOUS
<1>7. Becomes(t, v)
  BY <1>3, <1>5, <1>6 DEF ExchangeRefused, Tokenless
<1>8. Post(w, v)
  BY <1>1, <1>4, <1>5, <1>6, ExchangeRefusedPost
<1> QED BY <1>2, <1>3, <1>7, <1>8, HolderStep

LEMMA UndoneStep ==
  ASSUME SlotInv, NEW t \in Tasks, Undone(t)
  PROVE  SlotInv' /\ ServesNow /\ Landed(t)
<1>1. task[t].pc = "undoing"
  BY DEF Undone
<1>2. task[t].pc \in Holding \ {"forgetting", "detaching"}
  BY <1>1 DEF Holding, Signing
<1>3. PICK w : w = World(t)
  OBVIOUS
<1>4. Sound(w) /\ Called(w) /\ Stage(w.cn, w.tk) /\ w.tk = task[t]
  BY <1>2, <1>3, WorldIs
<1>5. Post(w, Refused(Defines(w, FALSE))) /\ Post(w, Refused(w))
  BY <1>1, <1>4, UndonePost
<1>6. PICK v : Becomes(t, v) /\ (v = Refused(Defines(w, FALSE)) \/ v = Refused(w))
  BY <1>3 DEF Undone
<1> QED BY <1>2, <1>3, <1>5, <1>6, HolderStep

(* A block is entered and left.                                            *)
LEMMA DetachedStep ==
  ASSUME SlotInv, NEW t \in Tasks, Detached(t)
  PROVE  SlotInv' /\ ServesNow /\ Landed(t)
<1>1. task[t].pc = "detaching"
  BY DEF Detached
<1>2. task[t].pc \in Holding /\ task[t].pc # "idle"
  BY <1>1 DEF Holding
<1>3. PICK w : w = World(t)
  OBVIOUS
<1>4. /\ Sound(w) /\ Stage(w.cn, w.tk) /\ w.me = t /\ w.tk = task[t] /\ w.cn = conn[task[t].conn]
      /\ conn[task[t].conn].guard = t
  BY <1>2, <1>3, WorldIs
<1>5. task[t].op = "enter"
  BY <1>1, <1>4 DEF Stage
<1>6. task[t].target.url # None /\ task[t].target.database # None /\ Settled(task[t].conn)
  BY <1>1, <1>5 DEF SlotInv, CallKnown
<1>7. PICK v : v = SetConnection(LetGo(w))
  OBVIOUS
<1>8. Becomes(t, v)
  BY <1>3, <1>4, <1>7 DEF Detached, LetGo
<1>9. Lands(w, v) /\ v.tk = Idle
  BY <1>1, <1>4, <1>6, <1>7, DetachedPost
<1>10. v.tk.op # "enter"
  BY <1>9 DEF Idle
<1>11. SlotInv' /\ Landed(t)
  BY <1>2, <1>4, <1>6, <1>8, <1>9, <1>10, StepInv
<1>12. ServesNow
  BY <1>2, <1>5, <1>8, OthersServe
<1> QED BY <1>11, <1>12

LEMMA DiscardedStep ==
  ASSUME SlotInv, NEW t \in Tasks, Discarded(t)
  PROVE  SlotInv' /\ ServesNow /\ Landed(t)
<1>1. task[t].pc = "discarding"
  BY DEF Discarded
<1>2. task[t].pc \in Holding \ {"forgetting", "detaching"}
  BY <1>1 DEF Holding
<1>3. PICK w : w = World(t)
  OBVIOUS
<1>4. Sound(w) /\ Stage(w.cn, w.tk) /\ w.tk = task[t]
  BY <1>2, <1>3, WorldIs
<1>5. PICK u : u = [w EXCEPT !.cn.slot.engine = Down(w.cn.slot.engine)]
  OBVIOUS
<1>6. PICK v : v = At(u, "reattaching")
  OBVIOUS
<1>7. Becomes(t, v)
  BY <1>3, <1>5, <1>6 DEF Discarded
<1>8. Post(w, v)
  BY <1>1, <1>4, <1>5, <1>6, DiscardedPost
<1> QED BY <1>2, <1>3, <1>7, <1>8, HolderStep

LEMMA ReattachedStep ==
  ASSUME SlotInv, NEW t \in Tasks, Reattached(t)
  PROVE  SlotInv' /\ ServesNow /\ Landed(t)
<1>1. task[t].pc = "reattaching"
  BY DEF Reattached
<1>2. task[t].pc \in Holding \ {"forgetting", "detaching"}
  BY <1>1 DEF Holding
<1>3. PICK w : w = World(t)
  OBVIOUS
<1>4. Sound(w) /\ Stage(w.cn, w.tk) /\ w.tk = task[t]
  BY <1>2, <1>3, WorldIs
<1>5. Post(w, PutBack(w, Fresh(w.cn.block.slot.engine.url))) /\ Post(w, PutBack(w, NoEngine))
  BY <1>1, <1>4, ReattachedPost
<1>6. PICK v : /\ Becomes(t, v)
               /\ v = PutBack(w, Fresh(w.cn.block.slot.engine.url)) \/ v = PutBack(w, NoEngine)
  BY <1>3 DEF Reattached
<1> QED BY <1>2, <1>3, <1>5, <1>6, HolderStep

LEMMA BlockEndsStep ==
  ASSUME SlotInv, NEW t \in Tasks, BlockEnds(t)
  PROVE  SlotInv' /\ ServesNow /\ Landed(t)
<1>1. task[t].pc = "ending"
  BY DEF BlockEnds
<1>2. task[t].pc \in Holding \ {"forgetting", "detaching"}
  BY <1>1 DEF Holding
<1>3. PICK w : w = World(t)
  OBVIOUS
<1>4. /\ Sound(w) /\ Stage(w.cn, w.tk) /\ w.tk = task[t] /\ w.claims = claims
      /\ task[t].conn \in Connections
  BY <1>2, <1>3, WorldIs
<1>5. FreeOK(w.cn.slot) /\ w.tk.op # "get"
  BY <1>1, <1>4 DEF Stage
<1>6. PICK held : held = Unclaimed(claims, w.tk.engine.url, w.tk.conn)
  OBVIOUS
<1>7. w \in WorldType /\ held \in ClaimsType
  BY <1>4, <1>6, ClaimsTyped DEF Sound, WorldType
<1>8. PICK u : u = WithClaims(w, held)
  OBVIOUS
<1>9. Writes(w, u) /\ u.cn = w.cn /\ u.tk = w.tk
  BY <1>7, <1>8, ClaimsIs
<1>10. Sound(u) /\ SameCall(w, u)
  BY <1>4, <1>9, WritesSound
<1>11. Post(u, Ends(u)) /\ Post(w, Ends(w))
  BY <1>4, <1>5, <1>9, <1>10, EndsPost
<1>12. Post(w, Ends(u))
  BY <1>10, <1>11, PostFrom
<1>13. PICK v : v = Ends(IF w.tk.claimed THEN u ELSE w)
  OBVIOUS
<1>14. Becomes(t, v)
  BY <1>3, <1>6, <1>8, <1>13 DEF BlockEnds, WithClaims
<1>15. Post(w, v)
  BY <1>11, <1>12, <1>13
<1> QED BY <1>2, <1>3, <1>14, <1>15, HolderStep

(* A call is cancelled: before the guard is its, nothing else changes.     *)
LEMMA WaiterGone ==
  ASSUME SlotInv, NEW t \in Tasks, task[t].pc = "waiting", task' = [task EXCEPT ![t] = Idle],
         UNCHANGED <<conn, claims>>
  PROVE  SlotInv' /\ ServesNow /\ Landed(t)
<1>1. task \in [Tasks -> TaskType] /\ None \notin Tasks
  BY SlotAssumption DEF SlotInv, TypeOK, SlotAssumption
<1>2. task'[t] = Idle /\ \A u \in Tasks : u # t => task'[u] = task[u]
  BY <1>1
<1>3. /\ Idle.pc = "idle" /\ Idle.op = None /\ Idle.pc \notin Holding /\ task[t].pc \notin Holding
  BY DEF Idle, Holding, WayBack, Signing
<1>4. TypeOK'
  BY Constants DEF SlotInv, TypeOK
<1>5. GuardHeld'
  BY <1>2, <1>3 DEF SlotInv, GuardHeld
<1>6. \A d : Settled(d) => Settled(d)'
  BY <1>2, <1>3 DEF Settled
<1>7. ASSUME NEW u \in Tasks PROVE CallKnown(u)'
  <2>1. CASE u = t
    BY <1>2, <1>3, <2>1 DEF CallKnown
  <2>2. CASE u # t
    <3>1. task'[u] = task[u] /\ CallKnown(u)
      BY <1>2, <2>2 DEF SlotInv
    <3>2. task[u].pc = "detaching" => Settled(task[u].conn)'
      BY <1>6, <3>1 DEF CallKnown
    <3> QED BY <3>1, <3>2 DEF CallKnown
  <2> QED BY <2>1, <2>2
<1>8. ASSUME NEW u \in Tasks, task'[u].pc \in Holding PROVE Stage(conn'[task'[u].conn], task'[u])
  BY <1>2, <1>3, <1>8 DEF SlotInv
<1>9. ServesNow
  <2>1. task[t].conn \in Connections
    BY DEF SlotInv, CallKnown
  <2>2. conn[task[t].conn].guard # t
    BY <1>3, <2>1 DEF SlotInv, GuardHeld
  <2>3. \A u \in Tasks : u # t /\ task[u].op = "get" => task'[u] # Idle
    BY <1>2, <1>3
  <2> QED BY <2>2, <2>3 DEF ServesNow
<1>10. Landed(t)
  BY <1>2 DEF Landed
<1> QED BY <1>4, <1>5, <1>7, <1>8, <1>9, <1>10 DEF SlotInv

LEMMA CancelStep ==
  ASSUME SlotInv, NEW t \in Tasks, Cancel(t)
  PROVE  SlotInv' /\ ServesNow /\ Landed(t)
<1>1. PICK w : w = World(t)
  OBVIOUS
<1>2. ASSUME task[t].pc \in {"opening", "replaying", "closing", "connecting", "using", "reading"}
      PROVE  /\ task[t].pc \in Holding \ {"forgetting", "detaching"}
             /\ Sound(w) /\ Called(w) /\ Stage(w.cn, w.tk) /\ w.tk = task[t]
  <2>1. task[t].pc \in Holding \ {"forgetting", "detaching"}
    BY <1>2 DEF Holding, WayBack, Signing
  <2> QED BY <1>1, <2>1, WorldIs
<1>3. CASE /\ task[t].pc = "waiting" /\ task' = [task EXCEPT ![t] = Idle] /\ UNCHANGED <<conn, claims>>
  BY <1>3, WaiterGone
<1>4. CASE task[t].pc \in {"opening", "replaying"} /\ task[t].phase = "opening" /\ Becomes(t, NotOpened(w))
  <2>1. w.cn.slot.engine = NoEngine /\ ~w.cn.slot.bound
    <3>1. CASE task[t].pc = "opening"
      <4>1. w.cn.slot = EmptySlot
        BY <1>2, <3>1 DEF Stage
      <4> QED BY <4>1 DEF EmptySlot
    <3>2. CASE task[t].pc = "replaying"
      BY <1>2, <1>4, <3>2 DEF Stage, StageSigning, Signing, Phased, Owns
    <3> QED BY <1>4, <3>1, <3>2
  <2>2. PICK v : v = NotOpened(w)
    OBVIOUS
  <2>3. Post(w, v)
    BY <1>2, <1>4, <2>1, <2>2, NotOpenedPost
  <2> QED BY <1>1, <1>2, <1>4, <2>2, <2>3, HolderStep
<1>5. CASE task[t].pc = "closing" /\ \E e \in {w.cn.slot.engine, Down(w.cn.slot.engine)} :
                                        Becomes(t, Ends([w EXCEPT !.cn.slot.engine = e]))
  <2>1. Sound(w) /\ Stage(w.cn, w.tk) /\ w.tk.pc = "closing" /\ w.tk.pc \in WayBack
    BY <1>2, <1>5 DEF WayBack
  <2>2. w.tk.phase # "opening" /\ w \in WorldType /\ w.cn \in ConnType /\ w.cn.slot \in SlotType
    BY <2>1, BackIs
  <2>3. PICK u : u = WithSession(w, Down(w.cn.slot.engine))
    OBVIOUS
  <2>4. u = [w EXCEPT !.cn.slot.engine = Down(w.cn.slot.engine)]
    BY <2>2, <2>3 DEF WithSession
  <2>5. w = [w EXCEPT !.cn.slot.engine = w.cn.slot.engine]
    BY <2>2 DEF WorldType, ConnType, SlotType
  <2>6. PICK v : Becomes(t, v) /\ (v = Ends(w) \/ v = Ends(u))
    BY <1>5, <2>4, <2>5
  <2>7. Post(w, Ends(w)) /\ Post(w, Ends(u))
    BY <2>1, <2>3, BackFails, ClosedPost
  <2> QED BY <1>1, <1>2, <1>5, <2>6, <2>7, HolderStep
<1>6. CASE task[t].pc = "connecting" /\ \E e \in {w.cn.slot.engine, Fresh(w.cn.slot.engine.url)} :
                                           Becomes(t, Ends([w EXCEPT !.cn.slot.engine = e]))
  <2>1. Sound(w) /\ Stage(w.cn, w.tk) /\ w.tk.pc = "connecting" /\ w.tk.pc \in WayBack
    BY <1>2, <1>6 DEF WayBack
  <2>2. w.tk.phase # "opening" /\ w \in WorldType /\ w.cn \in ConnType /\ w.cn.slot \in SlotType
    BY <2>1, BackIs
  <2>3. PICK u : u = WithSession(w, Fresh(w.cn.slot.engine.url))
    OBVIOUS
  <2>4. u = [w EXCEPT !.cn.slot.engine = Fresh(w.cn.slot.engine.url)]
    BY <2>2, <2>3 DEF WithSession
  <2>5. w = [w EXCEPT !.cn.slot.engine = w.cn.slot.engine]
    BY <2>2 DEF WorldType, ConnType, SlotType
  <2>6. PICK v : Becomes(t, v) /\ (v = Ends(w) \/ v = Ends(u))
    BY <1>6, <2>4, <2>5
  <2>7. Post(w, Ends(w)) /\ Post(w, Ends(u))
    BY <2>1, <2>3, BackFails, ConnectedPost
  <2> QED BY <1>1, <1>2, <1>6, <2>6, <2>7, HolderStep
<1>7. CASE task[t].pc = "using" /\ \E selects \in {w.cn.slot.engine.selects, w.tk.database} :
                                      Becomes(t, Ends(Runs(w, w.cn.slot.engine.who, selects)))
  <2>1. Sound(w) /\ Stage(w.cn, w.tk) /\ w.tk.pc = "using" /\ w.tk.pc \in WayBack
    BY <1>2, <1>7 DEF WayBack
  <2>2. w.cn.slot.engine.selects \in Databases /\ w.tk.database \in Databases
    BY <2>1, BackIs DEF EngineType, TaskType
  <2>3. PICK selects \in Databases : Becomes(t, Ends(Runs(w, w.cn.slot.engine.who, selects)))
    BY <1>7, <2>2
  <2>4. PICK u : u = Runs(w, w.cn.slot.engine.who, selects)
    OBVIOUS
  <2>5. PICK v : v = Ends(u)
    OBVIOUS
  <2>6. Post(w, v)
    BY <2>1, <2>4, <2>5, UseCancelledPost
  <2> QED BY <1>1, <1>2, <1>7, <2>3, <2>4, <2>5, <2>6, HolderStep
<1>8. CASE task[t].pc = "reading" /\ Becomes(t, Reset(w, "restoring"))
  <2>1. PICK v : v = Reset(w, "restoring")
    OBVIOUS
  <2>2. Post(w, v)
    BY <1>2, <1>8, <2>1, ReadingPost
  <2> QED BY <1>1, <1>2, <1>8, <2>1, <2>2, HolderStep
<1> QED BY <1>1, <1>3, <1>4, <1>5, <1>6, <1>7, <1>8 DEF Cancel

(* No task is cancelled between the engine's answer to an exchange of the  *)
(* owner's session and the step that learns of it.                         *)
NoneAnswered == "answered" \notin CancelledAt

LEMMA CutShortStep ==
  ASSUME NoneAnswered, SlotInv, NEW t \in Tasks, CutShort(t)
  PROVE  SlotInv' /\ ServesNow /\ Landed(t)
<1>1. task[t].pc \in {"exchanging", "replaying"} /\ task[t].phase # "opening"
  BY DEF CutShort
<1>2. task[t].pc \in Holding \ {"forgetting", "detaching"}
  BY <1>1 DEF Holding, Signing
<1>3. PICK w : w = World(t)
  OBVIOUS
<1>4. Sound(w) /\ Called(w) /\ Stage(w.cn, w.tk) /\ w.tk = task[t]
  BY <1>2, <1>3, WorldIs
<1>5. /\ Post(w, GivesUp(w))
      /\ w.tk.was => Post(w, GivesUp(Defines(w, FALSE)))
      /\ ~w.tk.was => Post(w, GivesUp(Replaced(w)))
  BY <1>1, <1>4, CutPost
<1>6. PICK v : /\ Becomes(t, v)
               /\ \/ v = GivesUp(w)
                  \/ w.tk.was /\ v = GivesUp(Defines(w, FALSE))
                  \/ ~w.tk.was /\ v = GivesUp(Replaced(w))
  BY <1>3 DEF CutShort, NoneAnswered
<1>7. Post(w, v)
  BY <1>5, <1>6
<1> QED BY <1>2, <1>3, <1>6, <1>7, HolderStep

-----------------------------------------------------------------------------
(***************************************************************************)
(* The program's steps                                                     *)
(***************************************************************************)
(* What a task knows while the settings change under it.                   *)
SameStage(tk, u) ==
  /\ u.pc = tk.pc /\ u.op = tk.op /\ u.conn = tk.conn /\ u.phase = tk.phase /\ u.engine = tk.engine
  /\ u.database = tk.database /\ u.generation = tk.generation /\ u.was = tk.was /\ u.replays = tk.replays
  /\ u.who = tk.who /\ u.target = tk.target
  /\ tk.moved => u.moved

SameSlot(cn, cn2) == cn2.slot = cn.slot /\ cn2.guard = cn.guard /\ cn2.block = cn.block

(* The token goes; or settings and generation change; or the database does *)
(* and whoever holds the guard is told.                                    *)
Resettled(cn, tk, cn2, u) ==
  \/ cn2.url = cn.url /\ cn2.database = cn.database /\ cn2.generation = cn.generation
  \/ /\ tk.op \notin {"signin", "bind"} /\ cn2.token = NoOne
     /\ \/ cn2.generation = cn.generation + 1
        \/ cn2.generation = cn.generation /\ cn2.url = cn.url /\ u.moved

LEMMA StageKept ==
  ASSUME NEW cn \in ConnType, NEW cn2 \in ConnType, NEW tk \in TaskType, NEW u \in TaskType,
         SameStage(tk, u), SameSlot(cn, cn2), Resettled(cn, tk, cn2, u),
         cn2.token \in {cn.token, NoOne}, Stage(cn, tk)
  PROVE  Stage(cn2, u)
<1>1. SessionSlot(cn2, u) = SessionSlot(cn, tk)
  BY DEF SessionSlot, SameStage, SameSlot
<1>2. cn.generation \in Nat /\ cn2.generation \in Nat /\ tk.generation \in Nat
  BY DEF ConnType, TaskType
<1>3. /\ u.pc = tk.pc /\ u.op = tk.op /\ u.phase = tk.phase /\ u.engine = tk.engine
      /\ u.database = tk.database /\ u.generation = tk.generation /\ u.was = tk.was /\ u.replays = tk.replays
      /\ tk.moved => u.moved
  BY DEF SameStage
<1>4. cn2.slot = cn.slot /\ cn2.block = cn.block
  BY DEF SameSlot
<1>5. Phased(cn, tk) => Phased(cn2, u)
  <2>1. CASE cn2.url = cn.url /\ cn2.database = cn.database /\ cn2.generation = cn.generation
    BY <1>1, <1>3, <1>4, <2>1 DEF Phased
  <2>2. CASE /\ tk.op \notin {"signin", "bind"} /\ cn2.token = NoOne
             /\ cn2.generation = cn.generation + 1
    BY <1>1, <1>2, <1>3, <1>4, <2>2 DEF Phased
  <2>3. CASE /\ tk.op \notin {"signin", "bind"} /\ cn2.token = NoOne
             /\ cn2.generation = cn.generation /\ cn2.url = cn.url /\ u.moved
    BY <1>1, <1>3, <1>4, <2>3 DEF Phased
  <2> QED BY <2>1, <2>2, <2>3 DEF Resettled
<1>6. Returning(cn, tk) => Returning(cn2, u)
  BY <1>3, <1>4, <1>5 DEF Returning
<1>7. Owns(cn, tk) => Owns(cn2, u)
  <2>1. tk.op \in {"signin", "bind"} => cn2.database = cn.database
    BY DEF Resettled
  <2> QED BY <1>3, <1>4, <2>1 DEF Owns
<1>8. StageBack(cn2, u)
  BY <1>3, <1>4, <1>6 DEF Stage, StageBack
<1>9. StageSigning(cn2, u)
  BY <1>1, <1>3, <1>4, <1>5, <1>7 DEF Stage, StageSigning
<1>10. tk.generation <= cn.generation => u.generation <= cn2.generation
  BY <1>2, <1>3 DEF Resettled
<1> QED BY <1>3, <1>4, <1>5, <1>7, <1>8, <1>9, <1>10 DEF Stage

(* A call that is made.                                                    *)
NewCall(tk, c, database) ==
  /\ tk.pc = "waiting" /\ tk.conn = c
  /\ tk.op \in {"signin", "bind"} => tk.who.of = database
  /\ tk.op = "enter" => tk.target.url # None /\ tk.target.database # None

(* What a task under way can bear of a change.                             *)
Bears(k, tk, cn, u) ==
  /\ tk.op \in {"signin", "bind"} => cn.url = k.url /\ cn.database = k.database
  /\ tk.pc \in Holding => Resettled(k, tk, cn, u)

LEMMA ProgramStep ==
  ASSUME SlotInv, NEW c \in Connections, NEW cn \in ConnType, conn' = [conn EXCEPT ![c] = cn], UNCHANGED claims,
         SameSlot(conn[c], cn), ConnOK(cn), cn.token \in {conn[c].token, NoOne},
         task' \in [Tasks -> TaskType],
         \A u \in Tasks :
           \/ /\ SameStage(task[u], task'[u]) /\ (task[u] = Idle => task'[u] = Idle)
              /\ task[u].conn = c => Bears(conn[c], task[u], cn, task'[u])
           \/ /\ task[u] = Idle /\ NewCall(task'[u], c, conn[c].database)
              /\ task'[u].op \in {"signin", "bind"} =>
                   /\ cn.url = conn[c].url /\ cn.database = conn[c].database /\ cn.url # None
                   /\ \A x \in Tasks : ~(task[x].conn = c /\ task[x].pc = "detaching")
  PROVE  SlotInv' /\ ServesNow
<1>1. conn \in [Connections -> ConnType] /\ task \in [Tasks -> TaskType] /\ claims \in ClaimsType
  BY DEF SlotInv, TypeOK
<1>2. conn'[c] = cn /\ \A d \in Connections : d # c => conn'[d] = conn[d]
  BY <1>1
<1>3. /\ Idle.pc = "idle" /\ Idle.op = None /\ Idle.conn = None
      /\ "idle" \notin Holding /\ "waiting" \notin Holding
  BY DEF Idle, Holding, WayBack, Signing
<1>4. cn.guard = conn[c].guard /\ cn.slot = conn[c].slot /\ cn.block = conn[c].block
  BY DEF SameSlot
<1>5. \A d \in Connections : conn'[d].guard = conn[d].guard /\ conn'[d].slot = conn[d].slot
  BY <1>2, <1>4
<1>6. ASSUME NEW u \in Tasks
      PROVE  /\ task[u].pc \in Holding => SameStage(task[u], task'[u])
             /\ task'[u].pc \in Holding => SameStage(task[u], task'[u])
  BY <1>3 DEF NewCall
<1>7. TypeOK'
  BY <1>1 DEF TypeOK
<1>8. GuardHeld'
  <2>1. ASSUME NEW u \in Tasks, task'[u].pc \in Holding PROVE conn'[task'[u].conn].guard = u
    <3>1. task[u].pc \in Holding /\ task'[u].conn = task[u].conn
      BY <1>6, <2>1 DEF SameStage
    <3>2. task[u].conn \in Connections /\ conn[task[u].conn].guard = u
      BY <1>3, <3>1 DEF SlotInv, GuardHeld, CallKnown
    <3> QED BY <1>5, <3>1, <3>2
  <2>2. ASSUME NEW d \in Connections, NEW u \in Tasks, conn'[d].guard = u
        PROVE  task'[u].conn = d /\ task'[u].pc \in Holding
    <3>1. task[u].conn = d /\ task[u].pc \in Holding
      BY <1>5, <2>2 DEF SlotInv, GuardHeld
    <3> QED BY <1>6, <3>1 DEF SameStage
  <2> QED BY <2>1, <2>2 DEF GuardHeld
<1>9. ASSUME NEW u \in Tasks PROVE CallKnown(u)'
  <2>1. CASE /\ SameStage(task[u], task'[u]) /\ (task[u] = Idle => task'[u] = Idle)
             /\ task[u].conn = c => Bears(conn[c], task[u], cn, task'[u])
    <3>1. /\ task'[u].pc = task[u].pc /\ task'[u].op = task[u].op /\ task'[u].conn = task[u].conn
          /\ task'[u].who = task[u].who /\ task'[u].target = task[u].target
      BY <2>1 DEF SameStage
    <3>2. CallKnown(u)
      BY DEF SlotInv
    <3>3. (task'[u].pc = "idle") <=> (task'[u] = Idle)
      BY <1>3, <2>1, <3>1, <3>2 DEF CallKnown
    <3>4. task'[u].op \in {"signin", "bind"} =>
            task'[u].who.of = conn'[task'[u].conn].database /\ conn'[task'[u].conn].url # None
      <4>1. CASE task[u].conn = c
        <5>1. task[u].op \in {"signin", "bind"} => cn.url = conn[c].url /\ cn.database = conn[c].database
          BY <2>1, <4>1 DEF Bears
        <5> QED BY <1>2, <3>1, <3>2, <4>1, <5>1 DEF CallKnown
      <4>2. CASE task[u].conn # c
        <5>1. task[u].op \in {"signin", "bind"} => task[u].conn \in Connections
          BY <1>3, <3>2 DEF CallKnown
        <5> QED BY <1>2, <3>1, <3>2, <4>2, <5>1 DEF CallKnown
      <4> QED BY <4>1, <4>2
    <3>5. task'[u].pc = "detaching" => Settled(task[u].conn)'
      <4>1. PICK d : d = task[u].conn
        OBVIOUS
      <4>2. SUFFICES ASSUME task[u].pc = "detaching" PROVE Settled(d)'
        <5>1. task'[u].conn = d
          BY <3>1, <4>1
        <5> QED BY <3>1, <4>1, <5>1 DEF Settled
      <4>3. Settled(d)
        BY <3>2, <4>1, <4>2 DEF CallKnown
      <4>4. ASSUME NEW x \in Tasks PROVE ~(task'[x].conn = d /\ task'[x].op \in {"signin", "bind"})
        <5>1. CASE SameStage(task[x], task'[x])
          BY <4>3, <5>1 DEF Settled, SameStage
        <5>2. CASE task'[x].conn = c /\ (task'[x].op \in {"signin", "bind"} =>
                     \A y \in Tasks : ~(task[y].conn = c /\ task[y].pc = "detaching"))
          BY <4>1, <4>2, <5>2
        <5> QED BY <5>1, <5>2 DEF NewCall
      <4> QED BY <4>4 DEF Settled
    <3> QED BY <3>1, <3>2, <3>3, <3>4, <3>5 DEF CallKnown
  <2>2. CASE /\ task[u] = Idle /\ NewCall(task'[u], c, conn[c].database)
             /\ task'[u].op \in {"signin", "bind"} =>
                  cn.url = conn[c].url /\ cn.database = conn[c].database /\ cn.url # None
    BY <1>2, <1>3, <2>2 DEF CallKnown, NewCall
  <2> QED BY <2>1, <2>2
<1>10. ASSUME NEW d \in Connections PROVE ConnOK(conn'[d]) /\ (conn'[d].guard = None => FreeOK(conn'[d].slot))
  BY <1>2, <1>4 DEF SlotInv
<1>11. ASSUME NEW u \in Tasks, task'[u].pc \in Holding PROVE Stage(conn'[task'[u].conn], task'[u])
  <2>1. SameStage(task[u], task'[u])
    BY <1>6, <1>11
  <2>2. task[u].pc \in Holding /\ task'[u].conn = task[u].conn
    BY <1>11, <2>1 DEF SameStage
  <2>3. task[u].conn \in Connections /\ Stage(conn[task[u].conn], task[u]) /\ task[u] # Idle
    BY <1>3, <2>2 DEF SlotInv, CallKnown
  <2>4. CASE task[u].conn = c
    <3>1. Resettled(conn[c], task[u], cn, task'[u])
      BY <2>2, <2>3, <2>4 DEF Bears
    <3>2. task[u] \in TaskType /\ task'[u] \in TaskType /\ conn[c] \in ConnType
      BY <1>1
    <3>3. Stage(cn, task'[u])
      BY <2>1, <2>3, <2>4, <3>1, <3>2, StageKept
    <3> QED BY <1>2, <2>2, <2>4, <3>3
  <2>5. CASE task[u].conn # c
    <3>1. conn'[task'[u].conn] = conn[task[u].conn]
      BY <1>2, <2>2, <2>3, <2>5
    <3>2. task[u] \in TaskType /\ task'[u] \in TaskType /\ conn[task[u].conn] \in ConnType
      BY <1>1, <2>3
    <3>3. PICK k : k = conn[task[u].conn]
      OBVIOUS
    <3>4. SameSlot(k, k) /\ Resettled(k, task[u], k, task'[u])
      BY DEF SameSlot, Resettled
    <3>5. Stage(k, task'[u])
      BY <2>1, <2>3, <3>2, <3>3, <3>4, StageKept
    <3> QED BY <3>1, <3>3, <3>5
  <2> QED BY <2>4, <2>5
<1>12. ServesNow
  <2>1. ASSUME NEW u \in Tasks, task[u].op = "get" PROVE task'[u] # Idle
    <3>1. task[u] # Idle
      BY <1>3, <2>1
    <3>2. task'[u].op = "get"
      BY <2>1, <3>1 DEF SameStage
    <3> QED BY <1>3, <3>2
  <2> QED BY <2>1 DEF ServesNow
<1> QED BY <1>7, <1>8, <1>9, <1>10, <1>11, <1>12 DEF SlotInv

(* A call that changes no settings.                                        *)
LEMMA CallStep ==
  ASSUME SlotInv, NEW t \in Tasks, NEW c \in Connections, task[t].pc = "idle", UNCHANGED <<conn, claims>>,
         NEW call \in TaskType, task' = [task EXCEPT ![t] = [call EXCEPT !.pc = "waiting", !.conn = c]],
         call.op \in {"signin", "bind"} =>
           /\ call.who.of = conn[c].database /\ conn[c].url # None
           /\ \A x \in Tasks : ~(task[x].conn = c /\ task[x].pc = "detaching"),
         call.op = "enter" => call.target.url # None /\ call.target.database # None
  PROVE  SlotInv' /\ ServesNow
<1>1. conn \in [Connections -> ConnType] /\ task \in [Tasks -> TaskType]
  BY DEF SlotInv, TypeOK
<1>2. PICK x : x = [call EXCEPT !.pc = "waiting", !.conn = c]
  OBVIOUS
<1>3. x \in TaskType
  BY <1>2 DEF TaskType
<1>4. x.pc = "waiting" /\ x.conn = c /\ x.op = call.op /\ x.who = call.who /\ x.target = call.target
  BY <1>2 DEF TaskType
<1>5. task' \in [Tasks -> TaskType] /\ task'[t] = x /\ \A u \in Tasks : u # t => task'[u] = task[u]
  BY <1>1, <1>2, <1>3
<1>6. task[t] = Idle
  BY DEF SlotInv, CallKnown
<1>7. PICK cn \in ConnType : cn = conn[c]
  BY <1>1
<1>8. /\ conn' = [conn EXCEPT ![c] = cn] /\ SameSlot(conn[c], cn) /\ ConnOK(cn)
      /\ cn.token \in {conn[c].token, NoOne} /\ UNCHANGED claims
  BY <1>1, <1>7 DEF SlotInv, SameSlot
<1>9. NewCall(task'[t], c, conn[c].database)
  BY <1>4, <1>5 DEF NewCall
<1>10. ASSUME NEW u \in Tasks, u # t
       PROVE  /\ SameStage(task[u], task'[u]) /\ (task[u] = Idle => task'[u] = Idle)
              /\ Bears(conn[c], task[u], cn, task'[u])
  BY <1>5, <1>7, <1>10 DEF SameStage, Bears, Resettled
<1>11. task'[t].op \in {"signin", "bind"} =>
         /\ cn.url = conn[c].url /\ cn.database = conn[c].database /\ cn.url # None
         /\ \A y \in Tasks : ~(task[y].conn = c /\ task[y].pc = "detaching")
  BY <1>4, <1>5, <1>7
<1>12. \A u \in Tasks :
         \/ /\ SameStage(task[u], task'[u]) /\ (task[u] = Idle => task'[u] = Idle)
            /\ task[u].conn = c => Bears(conn[c], task[u], cn, task'[u])
         \/ /\ task[u] = Idle /\ NewCall(task'[u], c, conn[c].database)
            /\ task'[u].op \in {"signin", "bind"} =>
                 /\ cn.url = conn[c].url /\ cn.database = conn[c].database /\ cn.url # None
                 /\ \A y \in Tasks : ~(task[y].conn = c /\ task[y].pc = "detaching")
  BY <1>6, <1>9, <1>10, <1>11
<1> QED BY <1>5, <1>7, <1>8, <1>12, ProgramStep

(* A call of an idle task, by what it asks for.                            *)
LEMMA PlainCall ==
  ASSUME NEW op \in Ops \cup {"leave"}, NEW call, call = [Idle EXCEPT !.op = op]
  PROVE  call \in TaskType /\ call.op = op
BY Constants DEF TaskType

LEMMA CallsStep ==
  ASSUME SlotInv, NEW t \in Tasks, NEW c \in Connections,
         \/ GetClient(t, c) \/ Signin(t, c) \/ Invalidate(t, c) \/ Close(t, c) \/ EnterBlock(t, c) \/ LeaveBlock(t, c)
  PROVE  SlotInv' /\ ServesNow
<1>1. conn \in [Connections -> ConnType] /\ task \in [Tasks -> TaskType]
  BY DEF SlotInv, TypeOK
<1>2. ASSUME NEW op \in {"get", "invalidate", "close", "leave"}, task[t].pc = "idle", UNCHANGED <<conn, claims>>,
             NEW call, call = [Idle EXCEPT !.op = op],
             task' = [task EXCEPT ![t] = [call EXCEPT !.pc = "waiting", !.conn = c]]
      PROVE  SlotInv' /\ ServesNow
  <2>1. op \in Ops \cup {"leave"}
    BY DEF Ops
  <2>2. call \in TaskType /\ call.op = op
    BY <1>2, <2>1, PlainCall
  <2> QED BY <1>2, <2>2, CallStep
<1>3. CASE GetClient(t, c)
  <2>1. PICK op \in {"get", "invalidate", "close", "leave"} : op = "get"
    OBVIOUS
  <2>2. PICK call : call = [Idle EXCEPT !.op = op]
    OBVIOUS
  <2> QED BY <1>2, <1>3, <2>1, <2>2 DEF GetClient, Calls
<1>4. CASE Invalidate(t, c)
  <2>1. PICK op \in {"get", "invalidate", "close", "leave"} : op = "invalidate"
    OBVIOUS
  <2>2. PICK call : call = [Idle EXCEPT !.op = op]
    OBVIOUS
  <2> QED BY <1>2, <1>4, <2>1, <2>2 DEF Invalidate, Calls
<1>5. CASE Close(t, c)
  <2>1. PICK op \in {"get", "invalidate", "close", "leave"} : op = "close"
    OBVIOUS
  <2>2. PICK call : call = [Idle EXCEPT !.op = op]
    OBVIOUS
  <2> QED BY <1>2, <1>5, <2>1, <2>2 DEF Close, Calls
<1>6. CASE LeaveBlock(t, c)
  <2>1. PICK op \in {"get", "invalidate", "close", "leave"} : op = "leave"
    OBVIOUS
  <2>2. PICK call : call = [Idle EXCEPT !.op = op]
    OBVIOUS
  <2>3. [call EXCEPT !.pc = "waiting", !.conn = c] = [Idle EXCEPT !.pc = "waiting", !.op = "leave", !.conn = c]
    BY <2>1, <2>2 DEF Idle
  <2> QED BY <1>2, <1>6, <2>1, <2>2, <2>3 DEF LeaveBlock
<1>7. CASE Signin(t, c)
  <2>1. PICK op \in {"signin", "bind"}, u \in Users :
          Calls(t, c, [Idle EXCEPT !.op = op, !.who = [user |-> u, of |-> conn[c].database]])
    BY <1>7 DEF Signin
  <2>2. PICK who : who = [user |-> u, of |-> conn[c].database]
    OBVIOUS
  <2>3. conn[c].database \in Databases
    BY <1>1 DEF ConnType
  <2>4. who \in Whos /\ who.of = conn[c].database
    BY <2>2, <2>3 DEF Whos
  <2>5. PICK call : call = [Idle EXCEPT !.op = op, !.who = who]
    OBVIOUS
  <2>6. call \in TaskType /\ call.op = op /\ call.who = who
    BY <2>4, <2>5, Constants DEF TaskType, Ops
  <2>7. /\ task[t].pc = "idle" /\ conn[c].url # None
        /\ task' = [task EXCEPT ![t] = [call EXCEPT !.pc = "waiting", !.conn = c]]
    BY <2>1, <2>2, <2>5 DEF Calls
  <2>8. UNCHANGED <<conn, claims>> /\ \A x \in Tasks : ~(task[x].conn = c /\ task[x].pc = "detaching")
    BY <1>7 DEF Signin
  <2>9. call.op # "enter"
    BY <2>6
  <2> QED BY <2>4, <2>6, <2>7, <2>8, <2>9, CallStep
<1>8. CASE EnterBlock(t, c)
  <2>1. PICK s \in Blocks : Calls(t, c, [Idle EXCEPT !.op = "enter", !.target = s])
    BY <1>8 DEF EnterBlock
  <2>2. s.url # None /\ s.database # None /\ s.url \in Urls /\ s.database \in Databases
    BY SlotAssumption DEF SlotAssumption, Urls, Databases, Settings
  <2>3. s \in [url : Urls, database : Databases]
    <3>1. s = [url |-> s.url, database |-> s.database]
      BY SlotAssumption DEF SlotAssumption
    <3> QED BY <2>2, <3>1
  <2>4. PICK call : call = [Idle EXCEPT !.op = "enter", !.target = s]
    OBVIOUS
  <2>5. call \in TaskType /\ call.op = "enter" /\ call.target = s
    BY <2>3, <2>4, Constants DEF TaskType, Ops
  <2>6. /\ task[t].pc = "idle"
        /\ task' = [task EXCEPT ![t] = [call EXCEPT !.pc = "waiting", !.conn = c]]
    BY <2>1, <2>4 DEF Calls
  <2>7. UNCHANGED <<conn, claims>>
    BY <1>8 DEF EnterBlock
  <2> QED BY <2>2, <2>5, <2>6, <2>7, CallStep
<1> QED BY <1>3, <1>4, <1>5, <1>6, <1>7, <1>8

(* Every task keeps its call while only the settings change.               *)
LEMMA SettingsStep ==
  ASSUME SlotInv, NEW c \in Connections, NEW cn \in ConnType, conn' = [conn EXCEPT ![c] = cn], UNCHANGED claims,
         SameSlot(conn[c], cn), ConnOK(cn), cn.token = NoOne,
         UNCHANGED task,
         \/ Settled(c) /\ cn.generation = conn[c].generation + 1
         \/ cn.url = conn[c].url /\ cn.database = conn[c].database /\ cn.generation = conn[c].generation
  PROVE  SlotInv' /\ ServesNow
<1>1. task' \in [Tasks -> TaskType]
  BY DEF SlotInv, TypeOK
<1>2. cn.token \in {conn[c].token, NoOne}
  OBVIOUS
<1>3. ASSUME NEW u \in Tasks
      PROVE  /\ SameStage(task[u], task'[u]) /\ (task[u] = Idle => task'[u] = Idle)
             /\ task[u].conn = c => Bears(conn[c], task[u], cn, task'[u])
  <2>1. Settled(c) /\ task[u].conn = c => task[u].op \notin {"signin", "bind"}
    BY DEF Settled
  <2> QED BY <2>1 DEF SameStage, Bears, Resettled
<1> QED BY <1>1, <1>2, <1>3, ProgramStep

LEMMA RegisterStep ==
  ASSUME SlotInv, NEW c \in Connections, Register(c)
  PROVE  SlotInv' /\ ServesNow
<1>1. PICK s \in Registered :
        conn' = [conn EXCEPT ![c].url = s.url, ![c].database = s.database, ![c].token = NoOne, ![c].generation = @ + 1]
  BY DEF Register
<1>2. s.url # None /\ s.database # None /\ s.url \in Urls /\ s.database \in Databases
  BY SlotAssumption DEF SlotAssumption, Urls, Databases, Settings
<1>3. conn \in [Connections -> ConnType] /\ conn[c] \in ConnType /\ conn[c].generation \in Nat
  BY DEF SlotInv, TypeOK, ConnType
<1>4. PICK cn : cn = [conn[c] EXCEPT !.url = s.url, !.database = s.database, !.token = NoOne, !.generation = @ + 1]
  OBVIOUS
<1>5. cn \in ConnType
  <2>1. PICK g \in Nat : g = conn[c].generation + 1
    BY <1>3
  <2>2. cn = [conn[c] EXCEPT !.url = s.url, !.database = s.database, !.token = NoOne, !.generation = g]
    BY <1>4, <2>1
  <2> QED BY <1>2, <1>3, <2>2, Constants DEF ConnType
<1>6. /\ cn.url = s.url /\ cn.database = s.database /\ cn.token = NoOne /\ cn.generation = conn[c].generation + 1
      /\ cn.slot = conn[c].slot /\ cn.guard = conn[c].guard /\ cn.block = conn[c].block
  BY <1>3, <1>4 DEF ConnType
<1>7. conn' = [conn EXCEPT ![c] = cn]
  BY <1>1, <1>3, <1>4
<1>8. SameSlot(conn[c], cn)
  BY <1>6 DEF SameSlot
<1>9. ConnOK(cn)
  BY <1>2, <1>6 DEF SlotInv, ConnOK
<1>10. Settled(c) /\ UNCHANGED claims /\ UNCHANGED task
  BY DEF Register, Bump
<1> QED BY <1>5, <1>6, <1>7, <1>8, <1>9, <1>10, SettingsStep

LEMMA ClearSessionStep ==
  ASSUME SlotInv, NEW c \in Connections, ClearSession(c)
  PROVE  SlotInv' /\ ServesNow
<1>1. conn' = [conn EXCEPT ![c].token = NoOne] /\ UNCHANGED claims /\ UNCHANGED task
  BY DEF ClearSession
<1>2. conn \in [Connections -> ConnType] /\ conn[c] \in ConnType
  BY DEF SlotInv, TypeOK
<1>3. PICK cn : cn = [conn[c] EXCEPT !.token = NoOne]
  OBVIOUS
<1>4. cn \in ConnType
  BY <1>2, <1>3, Constants DEF ConnType
<1>5. /\ cn.url = conn[c].url /\ cn.database = conn[c].database /\ cn.token = NoOne
      /\ cn.generation = conn[c].generation
      /\ cn.slot = conn[c].slot /\ cn.guard = conn[c].guard /\ cn.block = conn[c].block
  BY <1>2, <1>3 DEF ConnType
<1>6. conn' = [conn EXCEPT ![c] = cn]
  BY <1>1, <1>2, <1>3
<1>7. SameSlot(conn[c], cn)
  BY <1>5 DEF SameSlot
<1>8. ConnOK(cn)
  BY <1>5 DEF SlotInv, ConnOK
<1> QED BY <1>1, <1>4, <1>5, <1>6, <1>7, <1>8, SettingsStep

LEMMA SetDatabaseStep ==
  ASSUME SlotInv, NEW c \in Connections, SetDatabase(c)
  PROVE  SlotInv' /\ ServesNow
<1>1. PICK s \in Registered : conn' = [conn EXCEPT ![c].database = s.database, ![c].token = NoOne]
  BY DEF SetDatabase
<1>2. s.database # None /\ s.database \in Databases
  BY SlotAssumption DEF SlotAssumption, Databases, Settings
<1>3. /\ conn \in [Connections -> ConnType] /\ conn[c] \in ConnType
      /\ task \in [Tasks -> TaskType]
  BY DEF SlotInv, TypeOK
<1>4. PICK cn : cn = [conn[c] EXCEPT !.database = s.database, !.token = NoOne]
  OBVIOUS
<1>5. cn \in ConnType
  BY <1>2, <1>3, <1>4, Constants DEF ConnType
<1>6. /\ cn.url = conn[c].url /\ cn.database = s.database /\ cn.token = NoOne
      /\ cn.generation = conn[c].generation
      /\ cn.slot = conn[c].slot /\ cn.guard = conn[c].guard /\ cn.block = conn[c].block
  BY <1>3, <1>4 DEF ConnType
<1>7. conn' = [conn EXCEPT ![c] = cn]
  BY <1>1, <1>3, <1>4
<1>8. SameSlot(conn[c], cn)
  BY <1>6 DEF SameSlot
<1>9. conn[c].url # None /\ Settled(c) /\ UNCHANGED claims
  BY DEF SetDatabase
<1>10. ConnOK(cn)
  BY <1>2, <1>6, <1>9 DEF SlotInv, ConnOK
<1>11. ASSUME NEW u \in Tasks
       PROVE  /\ task'[u] \in TaskType
              /\ SameStage(task[u], task'[u])
              /\ conn[c].guard # u => task'[u] = task[u]
              /\ conn[c].guard = u => task'[u].moved
  <2>1. task'[u] = [task[u] EXCEPT !.moved = task[u].moved \/ conn[c].guard = u]
    BY DEF SetDatabase
  <2>2. PICK moved \in BOOLEAN : moved = (task[u].moved \/ conn[c].guard = u)
    OBVIOUS
  <2>3. task'[u] = [task[u] EXCEPT !.moved = moved] /\ task[u] \in TaskType /\ task[u].moved \in BOOLEAN
    BY <1>3, <2>1, <2>2 DEF TaskType
  <2>4. task'[u] \in TaskType /\ task'[u].moved = moved
    BY <2>3 DEF TaskType
  <2>5. SameStage(task[u], task'[u])
    BY <2>2, <2>3 DEF SameStage, TaskType
  <2>6. ASSUME conn[c].guard # u PROVE task'[u] = task[u]
    <3>1. moved = task[u].moved
      BY <2>2, <2>3, <2>6
    <3> QED BY <2>3, <3>1 DEF TaskType
  <2> QED BY <2>2, <2>4, <2>5, <2>6
<1>12. task' \in [Tasks -> TaskType]
  <2>1. task' = [u \in Tasks |-> [task[u] EXCEPT !.moved = task[u].moved \/ conn[c].guard = u]]
    BY DEF SetDatabase
  <2> QED BY <1>11, <2>1
<1>13. ASSUME NEW u \in Tasks PROVE task[u] = Idle => task'[u] = Idle
  <2>1. conn[c].guard = u => task[u].pc \in Holding
    BY DEF SlotInv, GuardHeld
  <2>2. task[u] = Idle => task[u].pc \notin Holding
    BY DEF Idle, Holding, WayBack, Signing
  <2> QED BY <1>11, <2>1, <2>2
<1>14. ASSUME NEW u \in Tasks, task[u].conn = c PROVE Bears(conn[c], task[u], cn, task'[u])
  <2>1. task[u].op \notin {"signin", "bind"}
    BY <1>9, <1>14 DEF Settled
  <2>2. task[u].pc \in Holding => conn[c].guard = u
    BY <1>14 DEF SlotInv, GuardHeld
  <2> QED BY <1>6, <1>11, <2>1, <2>2 DEF Bears, Resettled
<1>15. cn.token \in {conn[c].token, NoOne}
  BY <1>6
<1>16. ASSUME NEW u \in Tasks
       PROVE  /\ SameStage(task[u], task'[u]) /\ (task[u] = Idle => task'[u] = Idle)
              /\ task[u].conn = c => Bears(conn[c], task[u], cn, task'[u])
  BY <1>11, <1>13, <1>14
<1> QED BY <1>5, <1>7, <1>8, <1>9, <1>10, <1>12, <1>15, <1>16, ProgramStep

(* remove_connection(): the settings go, and the engine if there is one.   *)
LEMMA RemoveStep ==
  ASSUME SlotInv, NEW t \in Tasks, NEW c \in Connections, Remove(t, c)
  PROVE  SlotInv' /\ ServesNow
<1>1. conn' = [conn EXCEPT ![c].url = None, ![c].database = None, ![c].token = NoOne, ![c].generation = @ + 1]
  BY DEF Remove
<1>2. /\ conn \in [Connections -> ConnType] /\ conn[c] \in ConnType /\ conn[c].generation \in Nat
      /\ task \in [Tasks -> TaskType]
  BY DEF SlotInv, TypeOK, ConnType
<1>3. PICK cn : cn = [conn[c] EXCEPT !.url = None, !.database = None, !.token = NoOne, !.generation = @ + 1]
  OBVIOUS
<1>4. cn \in ConnType
  <2>1. PICK g \in Nat : g = conn[c].generation + 1
    BY <1>2
  <2>2. cn = [conn[c] EXCEPT !.url = None, !.database = None, !.token = NoOne, !.generation = g]
    BY <1>3, <2>1
  <2> QED BY <1>2, <2>2, Constants DEF ConnType
<1>5. /\ cn.url = None /\ cn.database = None /\ cn.token = NoOne /\ cn.generation = conn[c].generation + 1
      /\ cn.slot = conn[c].slot /\ cn.guard = conn[c].guard /\ cn.block = conn[c].block
  BY <1>2, <1>3 DEF ConnType
<1>6. conn' = [conn EXCEPT ![c] = cn]
  BY <1>1, <1>2, <1>3
<1>7. SameSlot(conn[c], cn)
  BY <1>5 DEF SameSlot
<1>8. ConnOK(cn)
  BY <1>5 DEF SlotInv, ConnOK
<1>9. Settled(c) /\ UNCHANGED claims
  BY DEF Remove, Bump
<1>10. CASE UNCHANGED task
  BY <1>4, <1>5, <1>6, <1>7, <1>8, <1>9, <1>10, SettingsStep
<1>11. CASE Calls(t, c, [Idle EXCEPT !.op = "remove"])
  <2>1. PICK call : call = [Idle EXCEPT !.op = "remove"]
    OBVIOUS
  <2>2. call \in TaskType /\ call.op = "remove"
    BY <2>1, PlainCall DEF Ops
  <2>3. PICK x : x = [call EXCEPT !.pc = "waiting", !.conn = c]
    OBVIOUS
  <2>4. x \in TaskType
    BY <2>2, <2>3 DEF TaskType
  <2>5. x.pc = "waiting" /\ x.conn = c /\ x.op = "remove"
    BY <2>2, <2>3 DEF TaskType
  <2>6. task' = [task EXCEPT ![t] = x] /\ task[t].pc = "idle"
    BY <1>11, <2>1, <2>3 DEF Calls
  <2>7. task' \in [Tasks -> TaskType] /\ task'[t] = x /\ \A u \in Tasks : u # t => task'[u] = task[u]
    BY <1>2, <2>4, <2>6
  <2>8. task[t] = Idle
    BY <2>6 DEF SlotInv, CallKnown
  <2>9. NewCall(task'[t], c, conn[c].database) /\ task'[t].op \notin {"signin", "bind"}
    BY <2>5, <2>7 DEF NewCall
  <2>10. ASSUME NEW u \in Tasks, u # t
         PROVE  /\ SameStage(task[u], task'[u]) /\ (task[u] = Idle => task'[u] = Idle)
                /\ task[u].conn = c => Bears(conn[c], task[u], cn, task'[u])
    <3>1. task[u].conn = c => task[u].op \notin {"signin", "bind"}
      BY <1>9 DEF Settled
    <3> QED BY <1>5, <2>7, <2>10, <3>1 DEF SameStage, Bears, Resettled
  <2>11. cn.token \in {conn[c].token, NoOne}
    BY <1>5
  <2>12. \A u \in Tasks :
           \/ /\ SameStage(task[u], task'[u]) /\ (task[u] = Idle => task'[u] = Idle)
              /\ task[u].conn = c => Bears(conn[c], task[u], cn, task'[u])
           \/ /\ task[u] = Idle /\ NewCall(task'[u], c, conn[c].database)
              /\ task'[u].op \in {"signin", "bind"} =>
                   /\ cn.url = conn[c].url /\ cn.database = conn[c].database /\ cn.url # None
                   /\ \A y \in Tasks : ~(task[y].conn = c /\ task[y].pc = "detaching")
    BY <2>8, <2>9, <2>10
  <2> QED BY <1>4, <1>6, <1>7, <1>8, <1>9, <2>7, <2>11, <2>12, ProgramStep
<1> QED BY <1>10, <1>11 DEF Remove

-----------------------------------------------------------------------------
(***************************************************************************)
(* The theorems                                                            *)
(***************************************************************************)
LEMMA InitInv == Init => SlotInv
<1> SUFFICES ASSUME Init PROVE SlotInv
  OBVIOUS
<1>1. /\ Idle.pc = "idle" /\ Idle.op = None /\ "idle" \notin Holding
  BY DEF Idle, Holding, WayBack, Signing
<1>2. None \notin Tasks
  BY SlotAssumption DEF SlotAssumption
<1>3. ASSUME NEW c \in Connections
      PROVE  /\ conn[c] \in ConnType /\ conn[c].guard = None /\ conn[c].slot = EmptySlot
             /\ conn[c].token = NoOne /\ conn[c].block = Outside
             /\ conn[c].url # None /\ conn[c].database # None
  <2>1. conn[c] = [url |-> First[c].url, database |-> First[c].database, generation |-> 0, token |-> NoOne,
                   slot |-> EmptySlot, guard |-> None, block |-> Outside]
    BY DEF Init
  <2>2. First[c] \in Settings /\ First[c].url # None /\ First[c].database # None /\ First[c].url \in DOMAIN StoreOf
    BY SlotAssumption DEF SlotAssumption, Settings
  <2>3. First[c].url \in Urls /\ First[c].database \in Databases
    BY <2>2 DEF Urls, Databases
  <2> QED BY <2>1, <2>2, <2>3, Constants DEF ConnType
<1>4. \A c \in Connections : ConnOK(conn[c]) /\ FreeOK(conn[c].slot)
  <2>1. /\ Outside.url = None /\ Outside.database = None /\ Outside.token = NoOne
        /\ Outside.closed = FALSE /\ Outside.slot = EmptySlot
    BY DEF Outside
  <2> QED BY <1>3, <2>1, EmptyIsFree DEF ConnOK
<1>5. TypeOK
  <2>1. conn \in [Connections -> ConnType]
    BY <1>3 DEF Init
  <2>2. claims \in ClaimsType
    BY DEF Init, ClaimsType
  <2>3. task \in [Tasks -> TaskType]
    BY Constants DEF Init
  <2> QED BY <2>1, <2>2, <2>3 DEF TypeOK
<1>6. \A t \in Tasks : task[t] = Idle
  BY DEF Init
<1>7. GuardHeld
  BY <1>1, <1>2, <1>3, <1>6 DEF GuardHeld
<1>8. \A t \in Tasks : CallKnown(t)
  BY <1>1, <1>6 DEF CallKnown
<1> QED BY <1>1, <1>4, <1>5, <1>6, <1>7, <1>8 DEF SlotInv

LEMMA NextInv ==
  ASSUME NoneAnswered, SlotInv, [Next]_vars
  PROVE  SlotInv' /\ [ServesNow]_vars
<1>1. CASE UNCHANGED vars
  BY <1>1 DEF vars, SlotInv, TypeOK, GuardHeld, CallKnown, Settled
<1>2. ASSUME NEW t \in Tasks, Proceeds(t) PROVE SlotInv' /\ ServesNow
  BY <1>2, AcquireStep, ForgottenStep, OpenedStep, RemovedStep, ClosedStep, ConnectedStep, InvalidatedStep,
     OwnerSignedInStep, DroppedStep, UsedStep, DefinedStep, ExchangedStep, ReadStep, ExchangeRefusedStep,
     UndoneStep, DetachedStep, DiscardedStep, ReattachedStep, BlockEndsStep DEF Proceeds
<1>3. ASSUME NEW t \in Tasks, Cancel(t) \/ CutShort(t) PROVE SlotInv' /\ ServesNow
  BY <1>3, CancelStep, CutShortStep
<1>4. CASE Program
  BY <1>4, CallsStep, RemoveStep, RegisterStep, SetDatabaseStep, ClearSessionStep DEF Program
<1> QED BY <1>1, <1>2, <1>3, <1>4 DEF Next

(* The guard of a connection has one holder, and what every call knows at  *)
(* each await of it is so, whatever the others change meanwhile            *)
(* (connection_manager.py: _embedded_guard() and what runs under it), as   *)
(* long as no exchange is cancelled once it was answered.                  *)
THEOREM SlotInvariant ==
  ASSUME NoneAnswered
  PROVE  Spec => []SlotInv
<1>1. SlotInv /\ [Next]_vars => SlotInv'
  BY NextInv
<1> QED BY <1>1, InitInv, PTL DEF Spec

(* The holder's stage says what the slot is, but while a store is taken    *)
(* back from a block.                                                      *)
LEMMA SlotsOK ==
  ASSUME SlotInv, NEW c \in Connections, ~TakenBack(c)
  PROVE  SlotOK(conn[c].slot)
<1>1. CASE conn[c].guard = None
  BY <1>1 DEF SlotInv, FreeOK
<1>2. CASE conn[c].guard # None
  <2>1. conn[c].guard \in Tasks
    BY <1>2 DEF SlotInv, TypeOK, ConnType
  <2>2. PICK t \in Tasks : conn[c].guard = t
    BY <2>1
  <2>3. task[t].conn = c /\ task[t].pc \in Holding
    BY <2>2 DEF SlotInv, GuardHeld
  <2>4. Stage(conn[c], task[t])
    BY <2>3 DEF SlotInv
  <2>5. task[t].pc \notin {"discarding", "reattaching"}
    BY <2>3 DEF TakenBack
  <2>6. CASE task[t].pc \in {"opening", "forgetting", "replacing", "detaching"}
    <3>1. conn[c].slot = EmptySlot
      BY <2>4, <2>6 DEF Stage
    <3> QED BY <3>1, EmptyIsFree DEF FreeOK
  <2>7. CASE task[t].pc \in WayBack
    BY <2>4, <2>7 DEF Stage, StageBack, Returning
  <2>8. CASE task[t].pc \in Signing
    <3>1. SlotOK(SessionSlot(conn[c], task[t]))
      BY <2>4, <2>8 DEF Stage, StageSigning
    <3>2. CASE task[t].phase = "opening"
      <4>1. conn[c].slot.engine = NoEngine
        BY <2>4, <2>8, <3>2 DEF Stage, StageSigning, Phased, Owns
      <4> QED BY <4>1 DEF SlotOK
    <3>3. CASE task[t].phase # "opening"
      BY <3>1, <3>3 DEF SessionSlot
    <3> QED BY <3>2, <3>3
  <2>9. CASE task[t].pc \in {"reading", "ending"}
    BY <2>4, <2>9 DEF Stage, FreeOK
  <2> QED BY <2>3, <2>5, <2>6, <2>7, <2>8, <2>9 DEF Holding
<1> QED BY <1>1, <1>2

(* What the slot says of the shared session is so, between any two awaits: *)
(* the selection, the identity, the way back to the owner                  *)
(* (_reset_embedded_session(), _embedded_exchange(),                       *)
(* _back_to_embedded_owner(), _restore_shared_session()), as long as no    *)
(* exchange is cancelled once it was answered.                             *)
THEOREM SessionAlwaysKnown ==
  ASSUME NoneAnswered
  PROVE  Spec => []SessionKnown
<1>1. SlotInv => SessionKnown
  <2>1. SUFFICES ASSUME SlotInv, NEW c \in Connections, conn[c].slot.engine # NoEngine, ~TakenBack(c)
                 PROVE  LET s == conn[c].slot
                            e == s.engine IN
                        /\ s.selected # None => /\ e.up /\ e.selects = s.selected
                                               /\ (e.who = Owner \/ e.who.of = s.selected)
                        /\ s.owner => e.who = Owner
                        /\ ~s.owner /\ KeyOf(e.url) = Memory => e.user
                        /\ e.user => s.user
                        /\ FastPath(c) /\ conn[c].guard = None => ~s.bound
    BY DEF SessionKnown
  <2>2. SlotOK(conn[c].slot)
    BY <2>1, SlotsOK
  <2>3. FastPath(c) /\ conn[c].guard = None => ~conn[c].slot.bound
    <3>1. SUFFICES ASSUME FastPath(c), conn[c].guard = None PROVE ~conn[c].slot.bound
      OBVIOUS
    <3>2. conn[c].url # None
      BY <2>1, <2>2, <3>1 DEF FastPath, SlotOK
    <3>3. conn[c].slot.selected # None
      BY <2>1, <3>1, <3>2 DEF FastPath, SlotInv, ConnOK
    <3> QED BY <2>1, <3>1, <3>3 DEF SlotInv, FreeOK
  <2> QED BY <2>1, <2>2, <2>3 DEF SlotOK
<1> QED BY <1>1, SlotInvariant, PTL

(* A get_client() that held the guard lets it go with a slot that is       *)
(* empty, stale or on the connection's settings of that moment: no client  *)
(* on a retired URL is handed out (_refuse_retired_embedded()), as long as *)
(* no exchange is cancelled once it was answered.                          *)
THEOREM ClientsServeCurrent ==
  ASSUME NoneAnswered
  PROVE  Spec => ServesCurrent
<1>1. SlotInv /\ [Next]_vars => [ServesNow]_vars
  BY NextInv
<1>2. Spec => [][ServesNow]_vars
  BY <1>1, SlotInvariant, PTL DEF Spec
<1> QED BY <1>2 DEF ServesCurrent, ServesNow
=============================================================================
