---------------------------- MODULE EmbeddedSlot ----------------------------
(***************************************************************************)
(* The embedded engine of a connection (connection_manager.py): one client *)
(* for every event loop and thread, in a slot that a lock guards, with one *)
(* shared session.  The session is opened as the in-process owner,         *)
(* selected again when the database changes, signed in, bound by a model,  *)
(* logged out, closed, put aside by an embedded_database() block; a store  *)
(* on disk is open for one connection of the process at a time.            *)
(*                                                                         *)
(* An action is what a task does between two awaits, with the answer that  *)
(* ends the first.  A segment is a function on what the task may write:    *)
(* w = [me, tk: itself, cn: its connection, claims: the stores].           *)
(***************************************************************************)
EXTENDS Naturals

CONSTANTS
  Connections,    \* connection classes
  Tasks,          \* tasks of the program, on any loop and thread
  Stores,         \* the on-disk stores
  StoreOf,        \* the store each URL opens, or Memory
  First,          \* what each connection is configured with: [url, database]
  Registered,     \* what a name is registered with again
  Blocks,         \* what embedded_database() blocks open
  Does,           \* the calls the program makes on each connection
  Users,          \* record users of the program
  Faults,         \* what may be refused, of the names below
  CancelledAt,    \* the awaits a task may be cancelled at; "answered": an
                  \* exchange of the owner's session too once it was answered
  MaxGeneration   \* bound: how often a connection is registered again or removed

Memory == "memory"
None   == "none"

FaultNames == {"open", "reopen", "invalidate", "use", "user", "owner", "exchange", "read"}

Ops == {"get", "signin", "bind", "invalidate", "close", "remove", "enter", "register", "select", "clear"}

ASSUME SlotAssumption ==
  /\ Does \in [Connections -> SUBSET Ops]
  /\ StoreOf \in [DOMAIN StoreOf -> Stores \cup {Memory}]
  /\ {None, Memory} \cap Stores = {}
  /\ None \notin Tasks /\ None \notin Connections
  /\ \A s \in Registered \cup Blocks \cup {First[c] : c \in Connections} :
       /\ s = [url |-> s.url, database |-> s.database]
       /\ s.url \in DOMAIN StoreOf /\ s.url # None /\ s.database # None
  /\ Faults \subseteq FaultNames
  /\ CancelledAt \subseteq {"waiting", "opening", "replaying", "closing", "connecting", "using",
                       "exchanging", "answered", "reading"}
  /\ MaxGeneration \in Nat

VARIABLES
  conn,     \* a connection: its settings, session, slot, lock and block
  claims,   \* _STORE_CLAIMS: the connection that has each store open
  task      \* the call each task is in

vars == <<conn, claims, task>>

(* Who a session runs as: a record user belongs to a database.             *)
NoOne     == [user |-> None, of |-> None]
Owner     == [user |-> "owner", of |-> None]
Anonymous == [user |-> "anonymous", of |-> None]

(* An engine: its URL, whether it is open, the database its session has    *)
(* selected, whom it runs as, and the temporary owner user it defines.     *)
NoEngine == [url |-> None, up |-> FALSE, selects |-> None, who |-> NoOne, user |-> FALSE]
Down(e)    == [NoEngine EXCEPT !.url = e.url]
Fresh(url) == [NoEngine EXCEPT !.url = url, !.up = TRUE, !.who = Owner]

EmptySlot == [engine |-> NoEngine, selected |-> None, owner |-> TRUE, user |-> FALSE, bound |-> FALSE]

Outside == [by |-> None, closed |-> FALSE, url |-> None, database |-> None, token |-> NoOne, slot |-> EmptySlot]

Idle == [pc |-> "idle", op |-> None, conn |-> None, phase |-> None, engine |-> NoEngine, claimed |-> FALSE,
         database |-> None, who |-> NoOne, replays |-> NoOne, was |-> FALSE, generation |-> 0, moved |-> FALSE,
         target |-> [url |-> None, database |-> None]]

Init ==
  /\ conn = [c \in Connections |->
               [url |-> First[c].url, database |-> First[c].database, generation |-> 0, token |-> NoOne,
                slot |-> EmptySlot, guard |-> None, block |-> Outside]]
  /\ claims = [s \in Stores |-> None]
  /\ task = [t \in Tasks |-> Idle]

-----------------------------------------------------------------------------
(***************************************************************************)
(* The stores                                                              *)
(***************************************************************************)
KeyOf(url) == IF url = None THEN None ELSE StoreOf[url]
OnDisk(url) == KeyOf(url) \notin {None, Memory}

Claimed(held, url, c)   == OnDisk(url) => held[KeyOf(url)] \in {None, c}
Claim(held, url, c)     == [s \in Stores |-> IF s = KeyOf(url) /\ held[s] = None THEN c ELSE held[s]]
Unclaimed(held, url, c) == [s \in Stores |-> IF s = KeyOf(url) /\ held[s] = c THEN None ELSE held[s]]

(* The engines of the process, and the lock of the engine on its store.    *)
Engines(c) == {conn[c].slot.engine, conn[c].block.slot.engine} \cup {task[t].engine : t \in {u \in Tasks : task[u].conn = c}}
Locked(url) ==
  OnDisk(url) /\ \E c \in Connections : \E e \in Engines(c) : e.up /\ KeyOf(e.url) = KeyOf(url)

-----------------------------------------------------------------------------
(***************************************************************************)
(* Segments                                                                *)
(***************************************************************************)
At(w, pc) == [w EXCEPT !.tk.pc = pc]
Ends(w)   == [w EXCEPT !.tk = Idle, !.cn.guard = None]

(* _forget_embedded(): the slot is emptied first, closed then.             *)
Forget(w, next) ==
  [w EXCEPT !.tk.engine = [Down(w.cn.slot.engine) EXCEPT !.up = w.cn.slot.engine.up],
            !.tk.pc = next, !.cn.slot = EmptySlot]

(* _refuse_retired_embedded(), once the settings changed.                  *)
Retired(w) ==
  IF w.cn.slot.engine.url # w.cn.url THEN Forget(w, "forgetting")
                                     ELSE Ends([w EXCEPT !.cn.slot.selected = None])
Raises(w) == IF w.cn.generation = w.tk.generation THEN Ends(w) ELSE Retired(w)

(* The configuration's database is selected on the session.                *)
Select(w) ==
  IF w.tk.phase = "own"
    THEN LET v == [w EXCEPT !.cn.token = NoOne, !.tk.database = w.cn.database] IN
         IF w.cn.database = None THEN Ends(v) ELSE At(v, "using")
    ELSE At(w, "using")

(* _back_to_embedded_owner()                                               *)
BackToOwner(w) ==
  IF w.cn.slot.owner THEN IF w.cn.slot.user THEN At(w, "removing") ELSE Select(w)
                     ELSE At(w, IF OnDisk(w.cn.slot.engine.url) THEN "closing" ELSE "invalidating")

(* Mutant of Reset: the slot keeps the selection while the way back runs.  *)
Reset_Trusting(w, phase) ==
  IF w.cn.database = None THEN Ends(w) ELSE
  BackToOwner([w EXCEPT !.tk.phase = phase, !.tk.database = w.cn.database])

(* _reset_embedded_session(): stale until done.                            *)
Reset(w, phase) ==
  IF w.cn.database = None THEN Ends(w) ELSE
  BackToOwner([w EXCEPT !.tk.phase = phase, !.tk.database = w.cn.database, !.cn.slot.selected = None])

Published(w) ==
  LET v == [w EXCEPT !.cn.slot.selected = w.tk.database] IN
  IF w.tk.phase = "opening"
    THEN [v EXCEPT !.cn.slot.engine = w.tk.engine, !.tk.engine = NoEngine]
    ELSE v

(* _embedded_exchange(): an in-memory engine's way back is defined first.  *)
SlotUrl(w) == IF w.cn.slot.engine = NoEngine THEN w.cn.url ELSE w.cn.slot.engine.url

(* Mutant of NeedsUser: no owner user is defined, nothing leads back.      *)
NeedsUser_Never(w) == FALSE

NeedsUser(w) == w.cn.slot.owner /\ ~w.cn.slot.user /\ KeyOf(SlotUrl(w)) = Memory

(* _held_embedded_client() returns the slot's client.                      *)
Serves(w) ==
  CASE w.tk.op = "get" -> Ends(w)
    [] w.tk.op \in {"signin", "bind"} ->
         At([w EXCEPT !.tk.phase = "own", !.tk.was = w.cn.slot.owner,
                      !.tk.generation = 0, !.tk.replays = NoOne],
            IF NeedsUser(w) THEN "defining" ELSE "exchanging")
    [] w.tk.op = "invalidate" ->
         BackToOwner([w EXCEPT !.tk.phase = "own", !.cn.slot.selected = None, !.tk.generation = 0])

(* Mutant of Replayed: settings changed meanwhile are not looked at.       *)
Replayed_Anyway(w) ==
  CASE w.tk.phase = "restoring"                 -> Ends(Published(w))
    [] w.tk.phase \in {"opening", "resetting"} -> Serves(Published(w))

(* The stored session was replayed, or there is none.                      *)
Replayed(w) ==
  CASE w.tk.phase = "restoring"                 -> Ends(Published(w))
    [] w.tk.phase \in {"opening", "resetting"} ->
         IF w.cn.generation = w.tk.generation THEN Serves(Published(w)) ELSE Retired(Published(w))

ReplaySends(w) ==
  IF w.cn.token = NoOne THEN Replayed([w EXCEPT !.cn.slot.owner = FALSE])
                        ELSE At([w EXCEPT !.tk.replays = w.cn.token], "replaying")

Replay(w) ==
  LET v == [w EXCEPT !.tk.was = w.cn.slot.owner] IN
  IF w.cn.token = NoOne THEN Replayed(w)
  ELSE IF NeedsUser(w) THEN At(v, "defining") ELSE ReplaySends(v)

(* _open_embedded(), as far as the engine's answer.                        *)
Open(w) ==
  IF w.cn.url = None \/ ~Claimed(w.claims, w.cn.url, w.tk.conn)
    THEN Ends(w)
    ELSE [w EXCEPT !.tk.pc = "opening", !.tk.phase = "opening", !.tk.database = w.cn.database,
                   !.tk.claimed = OnDisk(w.cn.url) /\ w.claims[KeyOf(w.cn.url)] = None,
                   !.tk.engine = [NoEngine EXCEPT !.url = w.cn.url],
                   !.cn.slot = EmptySlot,
                   !.claims = Claim(w.claims, w.cn.url, w.tk.conn)]

(* _held_embedded_client()                                                 *)
Held(w) ==
  LET s == w.cn.slot
      v == [w EXCEPT !.tk.generation = w.cn.generation] IN
  IF w.cn.url = None THEN Ends(w) ELSE
  CASE s.engine.url = w.cn.url /\ s.selected = w.cn.database -> Serves(v)
    [] s.engine.url = w.cn.url /\ s.selected # w.cn.database ->
         Reset(IF s.selected = None THEN v ELSE [v EXCEPT !.cn.token = NoOne], "resetting")
    [] s.engine.url \notin {None, w.cn.url}               -> Forget(v, "replacing")
    [] s.engine = NoEngine                                -> Open(v)

-----------------------------------------------------------------------------
(***************************************************************************)
(* The blocks of embedded_database()                                       *)
(***************************************************************************)
(* set_connection()                                                        *)
SetConnection(w) ==
  Ends([w EXCEPT !.cn.url = w.tk.target.url, !.cn.database = w.tk.target.database, !.cn.token = NoOne])

SameStore(a, b) == OnDisk(a) /\ KeyOf(a) = KeyOf(b)

(* _enter_embedded_block()                                                 *)
EntersBlock(w) ==
  LET v == [w EXCEPT !.cn.block = [by |-> w.me, closed |-> FALSE, url |-> w.cn.url, database |-> w.cn.database,
                                   token |-> w.cn.token, slot |-> w.cn.slot],
                     !.cn.slot = EmptySlot] IN
  IF SameStore(w.cn.slot.engine.url, w.tk.target.url) THEN At(v, "detaching") ELSE SetConnection(v)

(* _exit_embedded_block(): the settings are back, then the engine.         *)
PutBack(w, engine) ==
  LET b     == w.cn.block
      ours  == w.cn.slot.engine
      url   == engine.url
      held  == Claim(w.claims, url, w.tk.conn)
      freed == IF engine = NoEngine THEN Unclaimed(held, b.slot.engine.url, w.tk.conn) ELSE held
      v     == [w EXCEPT !.claims = freed, !.cn.block = Outside,
                         !.cn.slot = [b.slot EXCEPT !.engine = engine]] IN
  IF b.closed \/ ours = NoEngine
    THEN Ends(v)
    ELSE [v EXCEPT !.tk.engine = [Down(ours) EXCEPT !.up = ours.up], !.tk.pc = "ending", !.tk.claimed = KeyOf(ours.url) # KeyOf(url)]

LeavesBlock(w) ==
  LET b == w.cn.block
      v == [w EXCEPT !.cn.url = b.url, !.cn.database = b.database, !.cn.token = b.token] IN
  IF ~b.closed THEN PutBack(v, b.slot.engine)
  ELSE At(v, IF w.cn.slot.engine = NoEngine THEN "reattaching" ELSE "discarding")

-----------------------------------------------------------------------------
(***************************************************************************)
(* Calls                                                                   *)
(***************************************************************************)
(* signin() tells the database it signs in to before it waits for the      *)
(* guard and keeps the token after the exchange: the program changes the   *)
(* settings while no sign-in is under way.                                 *)
Settled(c) == \A t \in Tasks : ~(task[t].conn = c /\ task[t].op \in {"signin", "bind"})

(* Inside a block on the connection's own store the program neither closes *)
(* it nor registers it again: the claim is the outer engine's too.         *)
Whole(c) == ~conn[c].block.closed
NoClose(c) == \A t \in Tasks : ~(task[t].conn = c /\ task[t].op = "close")

Calls(t, c, call) ==
  /\ task[t].pc = "idle"
  /\ conn[c].url # None /\ call.op \in Does[c]
  /\ task' = [task EXCEPT ![t] = [call EXCEPT !.pc = "waiting", !.conn = c]]

(* The fast path of _acquire_embedded_client() hands the client out and    *)
(* changes nothing; without it the call waits for the guard.               *)
FastPath(c) ==
  LET s == conn[c].slot IN
  s.engine # NoEngine /\ s.engine.url = conn[c].url /\ s.selected = conn[c].database

GetClient(t, c) ==
  /\ ~FastPath(c)
  /\ Calls(t, c, [Idle EXCEPT !.op = "get"])
  /\ UNCHANGED <<conn, claims>>

(* signin(), signup(), authenticate(); a model's with bind=True.           *)
Signin(t, c) ==
  /\ \A u \in Tasks : ~(task[u].conn = c /\ task[u].pc = "detaching")
  /\ \E op \in {"signin", "bind"}, u \in Users :
       Calls(t, c, [Idle EXCEPT !.op = op, !.who = [user |-> u, of |-> conn[c].database]])
  /\ UNCHANGED <<conn, claims>>

Invalidate(t, c) == Calls(t, c, [Idle EXCEPT !.op = "invalidate"]) /\ UNCHANGED <<conn, claims>>

Close(t, c) ==
  /\ conn[c].slot.engine # NoEngine /\ Whole(c)
  /\ Calls(t, c, [Idle EXCEPT !.op = "close"])
  /\ UNCHANGED <<conn, claims>>

Bump(c) == conn[c].generation < MaxGeneration /\ Settled(c)

(* add_connection() with other settings; remove_connection(), outside any  *)
(* block: the settings go, then the engine.                                *)
Register(c) ==
  /\ conn[c].url # None /\ "register" \in Does[c] /\ Whole(c) /\ Bump(c)
  /\ \E s \in Registered :
       /\ s # [url |-> conn[c].url, database |-> conn[c].database]
       /\ conn' = [conn EXCEPT ![c].url = s.url, ![c].database = s.database, ![c].token = NoOne,
                               ![c].generation = @ + 1]
  /\ UNCHANGED <<claims, task>>

Remove(t, c) ==
  /\ conn[c].block = Outside /\ Bump(c)
  /\ \A u \in Tasks : ~(task[u].conn = c /\ task[u].op = "enter")
  /\ IF conn[c].slot.engine # NoEngine
       THEN Calls(t, c, [Idle EXCEPT !.op = "remove"])
       ELSE conn[c].url # None /\ "remove" \in Does[c] /\ task[t].pc = "idle" /\ UNCHANGED task
  /\ conn' = [conn EXCEPT ![c].url = None, ![c].database = None, ![c].token = NoOne, ![c].generation = @ + 1]
  /\ UNCHANGED claims

(* set_namespace(), set_database(); clear_session().                       *)
SetDatabase(c) ==
  /\ conn[c].url # None /\ "select" \in Does[c] /\ Settled(c)
  /\ \E s \in Registered :
       /\ s.database # conn[c].database
       /\ conn' = [conn EXCEPT ![c].database = s.database, ![c].token = NoOne]
  /\ task' = [t \in Tasks |-> [task[t] EXCEPT !.moved = task[t].moved \/ conn[c].guard = t]]
  /\ UNCHANGED claims

ClearSession(c) ==
  /\ conn[c].token # NoOne /\ "clear" \in Does[c]
  /\ conn' = [conn EXCEPT ![c].token = NoOne]
  /\ UNCHANGED <<claims, task>>

(* Blocks neither nest nor overlap on a connection.                        *)
EnterBlock(t, c) ==
  /\ conn[c].block = Outside
  /\ \A u \in Tasks : ~(task[u].conn = c /\ task[u].op \in {"enter", "remove"})
  /\ \E s \in Blocks : Calls(t, c, [Idle EXCEPT !.op = "enter", !.target = s])
  /\ UNCHANGED <<conn, claims>>

LeaveBlock(t, c) ==
  /\ conn[c].block.by = t
  /\ task[t].pc = "idle"
  /\ task' = [task EXCEPT ![t] = [Idle EXCEPT !.pc = "waiting", !.op = "leave", !.conn = c]]
  /\ UNCHANGED <<conn, claims>>

-----------------------------------------------------------------------------
(***************************************************************************)
(* Between two awaits                                                      *)
(***************************************************************************)
World(t) == [me |-> t, tk |-> task[t], cn |-> conn[task[t].conn], claims |-> claims]

Becomes(t, w) ==
  /\ conn' = [conn EXCEPT ![task[t].conn] = w.cn]
  /\ task' = [task EXCEPT ![t] = w.tk]
  /\ claims' = w.claims

May(fault) == fault \in Faults

(* _embedded_guard(), then what the call does while it holds it.           *)
Acquire(t) ==
  LET w == [World(t) EXCEPT !.cn.guard = t] IN
  /\ task[t].pc = "waiting"
  /\ conn[task[t].conn].guard = None
  /\ \/ task[t].op \in {"get", "signin", "bind", "invalidate"} /\ Becomes(t, Held(w))
     \/ /\ task[t].op \in {"close", "remove"}
        /\ Becomes(t, IF w.cn.slot.engine = NoEngine THEN Ends(w) ELSE Forget(w, "forgetting"))
     \/ task[t].op = "enter" /\ Settled(task[t].conn) /\ NoClose(task[t].conn) /\ Becomes(t, EntersBlock(w))
     \/ task[t].op = "leave" /\ Settled(task[t].conn) /\ Becomes(t, LeavesBlock(w))

(* The end of _forget_embedded(), then the call's.                         *)
Forgotten(t) ==
  LET w == [World(t) EXCEPT !.tk.engine = NoEngine, !.claims = Unclaimed(claims, task[t].engine.url, task[t].conn)] IN
  \/ task[t].pc = "forgetting" /\ Becomes(t, Ends(w))
  \/ task[t].pc = "replacing" /\ Becomes(t, Open(w))

(* The client being opened, or the slot's.                                 *)
Session(w)    == IF w.tk.phase = "opening" THEN w.tk.engine ELSE w.cn.slot.engine
WithSession(w, e) ==
  IF w.tk.phase = "opening" THEN [w EXCEPT !.tk.engine = e] ELSE [w EXCEPT !.cn.slot.engine = e]

Runs(w, who, selects) == WithSession(w, [Session(w) EXCEPT !.who = who, !.selects = selects])
Defines(w, is) == [WithSession(w, [Session(w) EXCEPT !.user = is]) EXCEPT !.cn.slot.user = is]

(* Mutant of NotOpened: the claim of an engine that did not open stays.    *)
NotOpened_Holds(w) == Ends(w)

(* _open_embedded(): the engine's answer.                                  *)
NotOpened(w) == Ends(IF w.tk.claimed THEN [w EXCEPT !.claims = Unclaimed(w.claims, w.tk.engine.url, w.tk.conn)] ELSE w)

Opened(t) ==
  LET w == World(t) IN
  /\ task[t].pc = "opening" /\ ~Locked(task[t].engine.url)
  /\ Becomes(t, Replay([w EXCEPT !.tk.engine = [Fresh(@.url) EXCEPT !.selects = w.tk.database]]))

OpenFails(t) ==
  /\ task[t].pc = "opening" /\ (May("open") \/ Locked(task[t].engine.url))
  /\ Becomes(t, NotOpened(World(t)))

(* A step of a reset failed, or of invalidate() itself.                    *)
Fails(w) == IF w.tk.phase = "resetting" THEN Raises(w) ELSE Ends(w)

(* An owner user that an earlier return left is removed, quietly: the      *)
(* engine lets the owner remove it, and define it.                         *)
Removed(t) ==
  LET w == World(t) IN
  /\ task[t].pc = "removing"
  /\ \/ w.cn.slot.engine.who = Owner /\ Becomes(t, Select(Defines(w, FALSE)))
     \/ (May("user") \/ w.cn.slot.engine.who # Owner) /\ Becomes(t, Select(w))

(* A store on disk: its engine is closed and connected again.              *)
Ended(w) == IF w.tk.phase = "own" THEN [w EXCEPT !.cn.token = NoOne] ELSE w

Closed(t) ==
  LET w == World(t) IN
  /\ task[t].pc = "closing"
  /\ Becomes(t, At(Ended([w EXCEPT !.cn.slot.engine = Down(@)]), "connecting"))

Connected(t) ==
  LET w == World(t) IN
  /\ task[t].pc = "connecting"
  /\ \/ /\ ~Locked(w.cn.slot.engine.url)
        /\ Becomes(t, Select([w EXCEPT !.cn.slot.engine = Fresh(@.url), !.cn.slot.owner = TRUE, !.cn.slot.bound = FALSE]))
     \/ (May("reopen") \/ Locked(w.cn.slot.engine.url)) /\ Becomes(t, Fails(w))

(* An engine in memory: its session is ended, then the owner user's.       *)
Invalidated(t) ==
  LET w == World(t)
      v == Ended(Runs(w, Anonymous, w.cn.slot.engine.selects)) IN
  /\ task[t].pc = "invalidating"
  /\ \/ Becomes(t, IF w.cn.slot.user THEN At(v, "owning") ELSE Fails(v))
     \/ May("invalidate") /\ Becomes(t, Fails(w))

OwnerSignedIn(t) ==
  LET w == World(t) IN
  /\ task[t].pc = "owning"
  /\ \/ /\ w.cn.slot.engine.user
        /\ Becomes(t, At([Runs(w, Owner, w.cn.slot.engine.selects) EXCEPT !.cn.slot.owner = TRUE, !.cn.slot.bound = FALSE], "dropping"))
     \/ (May("owner") \/ ~w.cn.slot.engine.user) /\ Becomes(t, Fails(w))

Dropped(t) ==
  /\ task[t].pc = "dropping"
  /\ \/ Becomes(t, Select(Defines(World(t), FALSE)))
     \/ May("user") /\ Becomes(t, Fails(World(t)))

(* use(): the reset goes on with the replay, invalidate() is over.         *)
Used(t) ==
  LET w == World(t)
      v == Runs(w, w.cn.slot.engine.who, w.tk.database) IN
  /\ task[t].pc = "using"
  /\ \/ Becomes(t, IF w.tk.phase = "own" THEN Ends(Published(v)) ELSE Replay(v))
     \/ May("use") /\ Becomes(t, Fails(w))

(* _define_embedded_owner_user(), before the exchange.                     *)
Undefined(w) ==
  CASE w.tk.phase = "opening" -> NotOpened(w)
    [] w.tk.op = "bind" /\ w.tk.phase = "own" -> Reset(w, "restoring")
    [] OTHER -> Fails(w)

Defined(t) ==
  LET w == World(t)
      v == Defines(w, TRUE) IN
  /\ task[t].pc = "defining"
  /\ \/ /\ Session(w).who = Owner
        /\ Becomes(t, IF w.tk.phase = "own" THEN At(v, "exchanging") ELSE ReplaySends(v))
     \/ (May("user") \/ Session(w).who # Owner) /\ Becomes(t, Undefined(w))

(* The exchange's answer; a model reads its record before it adopts.       *)
Adopts(w, kept) ==
  Ends([w EXCEPT !.cn.token = IF kept THEN w.tk.who ELSE @, !.cn.slot.bound = FALSE])

Exchanged(t) ==
  LET w == World(t)
      who == IF w.tk.phase = "own" THEN w.tk.who ELSE w.tk.replays
      v == [Runs(w, who, who.of) EXCEPT !.cn.slot.owner = FALSE] IN
  \/ task[t].pc = "replaying" /\ Becomes(t, Replayed(v))
  \/ task[t].pc = "exchanging" /\ w.tk.op = "bind" /\ Becomes(t, At([v EXCEPT !.cn.slot.bound = TRUE], "reading"))
  \/ /\ task[t].pc = "exchanging" /\ w.tk.op = "signin"
     /\ \E kept \in BOOLEAN : Becomes(t, Adopts(v, kept))

(* Mutant of Read: a model that cannot be read leaves its user's session.  *)
Read_Left(t) ==
  /\ task[t].pc = "reading"
  /\ \/ Becomes(t, Adopts(World(t), TRUE))
     \/ May("read") /\ Becomes(t, Ends(World(t)))

Read(t) ==
  /\ task[t].pc = "reading"
  /\ \/ Becomes(t, Adopts(World(t), TRUE))
     \/ May("read") /\ Becomes(t, Reset(World(t), "restoring"))

(* Refused: the session is unchanged; a stored token is forgotten.         *)
Refused(w) ==
  CASE w.tk.phase \in {"opening", "resetting"} -> Raises(Published(w))
    [] w.tk.phase = "restoring" -> Ends(Published(w))
    [] w.tk.phase = "own" /\ w.tk.op = "bind" -> Reset(w, "restoring")
    [] w.tk.phase = "own" /\ w.tk.op = "signin" -> Ends(w)

ExchangeRefused(t) ==
  LET w == World(t)
      v == IF w.tk.phase = "own" THEN w ELSE [w EXCEPT !.cn.token = NoOne] IN
  /\ task[t].pc \in {"exchanging", "replaying"} /\ May("exchange")
  /\ Becomes(t, IF w.tk.was /\ w.cn.slot.user THEN At(v, "undoing") ELSE Refused(v))

Undone(t) ==
  /\ task[t].pc = "undoing"
  /\ \/ Becomes(t, Refused(Defines(World(t), FALSE)))
     \/ May("user") /\ Becomes(t, Refused(World(t)))

(* The task is cancelled: the engine may have done what it was asked.      *)
Cancel(t) ==
  LET w == World(t) IN
  /\ task[t].pc \in CancelledAt
  /\ \/ /\ task[t].pc = "waiting" /\ task[t].op \notin {"remove", "leave"}
        /\ task' = [task EXCEPT ![t] = Idle] /\ UNCHANGED <<conn, claims>>
     \/ /\ task[t].pc \in {"opening", "replaying"} /\ task[t].phase = "opening"
        /\ Becomes(t, NotOpened(w))
     \/ /\ task[t].pc = "closing"
        /\ \E e \in {w.cn.slot.engine, Down(w.cn.slot.engine)} : Becomes(t, Ends([w EXCEPT !.cn.slot.engine = e]))
     \/ /\ task[t].pc = "connecting"
        /\ \E e \in {w.cn.slot.engine} \cup {x \in {Fresh(w.cn.slot.engine.url)} : ~Locked(x.url)} :
             Becomes(t, Ends([w EXCEPT !.cn.slot.engine = e]))
     \/ /\ task[t].pc = "using"
        /\ \E selects \in {w.cn.slot.engine.selects, w.tk.database} :
             Becomes(t, Ends(Runs(w, w.cn.slot.engine.who, selects)))
     \/ task[t].pc = "reading" /\ Becomes(t, Reset(w, "restoring"))

(* An exchange of an open engine is cancelled.  _embedded_exchange() takes *)
(* the session to be what it was: the owner's, whose user goes with it in  *)
(* the step, or another's, which may be the new one by now.                *)
Replaced(w) ==
  LET who == IF w.tk.phase = "own" THEN w.tk.who ELSE w.tk.replays IN
  [Runs(w, who, who.of) EXCEPT !.cn.slot.bound = (w.tk.phase = "own" /\ w.tk.op = "bind")]

GivesUp(w) == IF w.tk.phase = "own" THEN Refused(w) ELSE Ends(w)

CutShort(t) ==
  LET w == World(t) IN
  /\ task[t].pc \in {"exchanging", "replaying"} \cap CancelledAt /\ task[t].phase # "opening"
  /\ \/ (w.tk.was /\ w.cn.slot.user => May("user")) /\ Becomes(t, GivesUp(w))
     \/ w.tk.was /\ w.cn.slot.user /\ Becomes(t, GivesUp(Defines(w, FALSE)))
     \/ (~w.tk.was \/ "answered" \in CancelledAt) /\ Becomes(t, GivesUp(Replaced(w)))

-----------------------------------------------------------------------------
(* The block: its own store is let go by the outer engine, then taken      *)
(* back; its client is closed.                                             *)
Detached(t) ==
  /\ task[t].pc = "detaching"
  /\ Becomes(t, SetConnection([World(t) EXCEPT !.cn.block.slot = [EmptySlot EXCEPT !.engine = Down(conn[task[t].conn].block.slot.engine)],
                                           !.cn.block.closed = TRUE]))

Discarded(t) ==
  /\ task[t].pc = "discarding"
  /\ Becomes(t, At([World(t) EXCEPT !.cn.slot.engine = Down(@)], "reattaching"))

Reattached(t) ==
  LET w == World(t)
      e == w.cn.block.slot.engine IN
  /\ task[t].pc = "reattaching"
  /\ \/ ~Locked(e.url) /\ Becomes(t, PutBack(w, Fresh(e.url)))
     \/ (May("reopen") \/ Locked(e.url)) /\ Becomes(t, PutBack(w, NoEngine))

(* Mutant of BlockEnds: the store of the block's own engine stays claimed. *)
BlockEnds_Keeps(t) ==
  /\ task[t].pc = "ending"
  /\ Becomes(t, Ends(World(t)))

BlockEnds(t) ==
  LET w == World(t) IN
  /\ task[t].pc = "ending"
  /\ Becomes(t, Ends(IF w.tk.claimed THEN [w EXCEPT !.claims = Unclaimed(claims, w.tk.engine.url, w.tk.conn)] ELSE w))

-----------------------------------------------------------------------------
Program ==
  \/ \E t \in Tasks, c \in Connections :
       \/ GetClient(t, c) \/ Signin(t, c) \/ Invalidate(t, c) \/ Close(t, c) \/ Remove(t, c)
       \/ EnterBlock(t, c) \/ LeaveBlock(t, c)
  \/ \E c \in Connections : Register(c) \/ SetDatabase(c) \/ ClearSession(c)

Proceeds(t) ==
  \/ Acquire(t) \/ Forgotten(t) \/ Opened(t) \/ OpenFails(t) \/ Removed(t) \/ Closed(t) \/ Connected(t)
  \/ Invalidated(t) \/ OwnerSignedIn(t) \/ Dropped(t) \/ Used(t) \/ Defined(t) \/ Exchanged(t) \/ Read(t)
  \/ ExchangeRefused(t) \/ Undone(t) \/ Detached(t) \/ Discarded(t) \/ Reattached(t) \/ BlockEnds(t)

Next == Program \/ \E t \in Tasks : Proceeds(t) \/ Cancel(t) \/ CutShort(t)

Spec == Init /\ [][Next]_vars

-----------------------------------------------------------------------------
(***************************************************************************)
(* Properties                                                              *)
(***************************************************************************)
(* While a block on the connection's own store ends, the block's client    *)
(* is closed before it leaves the slot.                                    *)
TakenBack(c) == \E t \in Tasks : task[t].conn = c /\ task[t].pc \in {"discarding", "reattaching"}

(* What the slot says of the shared session is so, between any two awaits  *)
(* of whoever holds the guard: a selection in the slot is that of an open  *)
(* engine, which runs as its owner or as a user of that very database,     *)
(* never as nobody, nor, once the guard is free, as a user whose bind=True *)
(* failed before it was adopted; a session the slot takes for the owner's  *)
(* is; and an engine in memory always has a way back to its owner, whose   *)
(* user the slot never forgets (_reset_embedded_session(),                 *)
(* _embedded_exchange(), _back_to_embedded_owner(),                        *)
(* _restore_shared_session()).                                             *)
SessionKnown ==
  \A c \in Connections :
    LET s == conn[c].slot
        e == s.engine IN
    e # NoEngine /\ ~TakenBack(c) =>
      /\ s.selected # None => /\ e.up /\ e.selects = s.selected
                             /\ (e.who = Owner \/ e.who.of = s.selected)
      /\ s.owner => e.who = Owner
      /\ ~s.owner /\ KeyOf(e.url) = Memory => e.user
      /\ e.user => s.user
      /\ FastPath(c) /\ conn[c].guard = None => ~s.bound

(* A get_client() that opened the engine or selected its session lets the  *)
(* guard go with a slot that is empty, stale or on the settings the        *)
(* connection has then: no client on a retired URL, and on no database but *)
(* one set_database() left meanwhile (_refuse_retired_embedded()).         *)
ServesCurrent ==
  [][\A t \in Tasks :
       LET c == task[t].conn IN
       task[t].op = "get" /\ task'[t] = Idle /\ conn[c].guard = t =>
         LET cn == conn'[c] IN
         \/ cn.slot.engine = NoEngine
         \/ cn.slot.selected = None
         \/ cn.slot.engine.url = cn.url /\ (cn.slot.selected = cn.database \/ task[t].moved)]_vars

(* A store is claimed for as long as the connection has an engine on it,   *)
(* opening, open, put aside by a block or being closed, and no longer: no  *)
(* two connections have one open, none is refused a store nobody has       *)
(* (_claim_store(), _release_store(), _reclaim_store()).                   *)
ClaimsExact ==
  \A s \in Stores, c \in Connections :
    LET on == {e \in Engines(c) : KeyOf(e.url) = s} IN
    /\ on \ {e \in {conn[c].block.slot.engine} : ~e.up} # {} => claims[s] = c
    /\ claims[s] = c => on # {}
=============================================================================
