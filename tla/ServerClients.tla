--------------------------- MODULE ServerClients ---------------------------
(***************************************************************************)
(* The clients of one registered connection (connection_manager.py): one   *)
(* WebSocket client per event loop, opened behind a lock, replaced when it *)
(* drops, retired when the settings change; the identity each session runs *)
(* as, the token a reconnect replays, and the loops that lost an identity  *)
(* no reconnect restores.                                                  *)
(*                                                                         *)
(* An action is what a task does between two awaits, with the answer that  *)
(* ends the first: an answer is read before anybody notices a later drop.  *)
(* Event loops run in threads of their own; no thread is preempted between *)
(* two awaits.  The program changes one identity at a time, and the stored *)
(* session while no client opens (Quiet).                                  *)
(***************************************************************************)
EXTENDS Naturals, Sequences

CONSTANTS
  Loops,          \* event loops
  Tasks,          \* tasks of the program, which may call the manager
  LoopOf,         \* the loop each runs on
  Settings,       \* what the name is registered with, one after the other
  Signins,        \* what the program signs in as: [to, kept (store)]
  Faults,         \* what may go wrong, of the names below
  CancelledAt,    \* the awaits a task may be cancelled at
  MaxGeneration   \* bound: how often the name is registered again or removed

FaultNames ==
  {"drop", "unreachable", "rejected",   \* a socket, an open, a stored token
   "refused"}                           \* the credentials the program gives

Configured == "configured"   \* the user of the settings
Anonymous  == "anonymous"    \* after the SDK's invalidate()
None       == "none"

ASSUME ClientsAssumption ==
  /\ LoopOf \in [Tasks -> Loops]
  /\ None \notin Settings
  /\ \A s \in Signins : /\ s.to \in STRING \ {Configured, Anonymous, None}
                        /\ s.kept \in BOOLEAN
  /\ Faults \subseteq FaultNames
  /\ CancelledAt \subseteq {"waiting", "discarding", "opening", "replaying"}
  /\ MaxGeneration \in Nat

VARIABLES
  settings,   \* the name's settings, and how often they changed
  token,      \* __session_token
  cached,     \* __clients
  lost,       \* __lost_identity
  queue,      \* who waits for __open_locks, its holder first
  task,       \* the call each task is in
  chosen      \* history: the identity the program last set on a loop with store=False

vars == <<settings, token, cached, lost, queue, task, chosen>>

(* A client: what it was opened on, whom its session runs as, its stamp    *)
(* (_stamp_identity()) and whether its socket is up.                       *)
NoClient == [on |-> None, who |-> None, stamp |-> None, replayable |-> TRUE, up |-> FALSE]

Idle == [pc |-> "idle", op |-> None, to |-> None, kept |-> TRUE,
         built |-> NoClient, generation |-> 0, sent |-> None, doomed |-> FALSE, holds |-> FALSE]

Init ==
  /\ settings \in [on : Settings, generation : {0}]
  /\ token = None
  /\ cached = [l \in Loops |-> NoClient]
  /\ lost = {}
  /\ queue = [l \in Loops |-> <<>>]
  /\ task = [t \in Tasks |-> Idle]
  /\ chosen = [l \in Loops |-> None]

-----------------------------------------------------------------------------
(* is_dead(): a client whose socket dropped.                               *)
Alive(c) == c # NoClient /\ c.up

(* The identity a new connection would come back as (_replay_identity()).  *)
ReplayIdentity == IF token = None THEN Configured ELSE token

Restores(t)   == task[t].op # "get"
Opening(t)    == task[t].pc \in {"opening", "replaying"}
Identifies(t) == task[t].op \in {"signin", "invalidate"}

(* The program changes the stored session while no client opens, and one   *)
(* identity at a time: it is that of every model (signin()).               *)
Quiet      == \A t \in Tasks : ~Opening(t)
OneAtATime == \A t \in Tasks : ~Identifies(t)

(* A client the manager takes out of its cache refuses every request.      *)
Retired(l, tasks) == [t \in Tasks |-> IF LoopOf[t] = l THEN [tasks[t] EXCEPT !.holds = FALSE] ELSE tasks[t]]
AllRetired(tasks) == [t \in Tasks |-> [tasks[t] EXCEPT !.holds = FALSE]]

Mine(t)    == cached[LoopOf[t]]
Release(t) == queue' = [queue EXCEPT ![LoopOf[t]] = Tail(@)]

Ends(t) == task' = [task EXCEPT ![t] = Idle]

(* What a call was asked; with its client, it returns it or goes on to set *)
(* its identity.                                                           *)
Asked(call) == [Idle EXCEPT !.op = call.op, !.to = call.to, !.kept = call.kept]
Hands(t, call) ==
  task' = [task EXCEPT ![t] = [Asked(call) EXCEPT !.pc = IF call.op = "get" THEN "has" ELSE "exchanging",
                                                  !.holds = TRUE]]

-----------------------------------------------------------------------------
(***************************************************************************)
(* _acquire_client()                                                       *)
(***************************************************************************)
Enter(t, call) ==
  LET l == LoopOf[t] IN
  /\ task[t].pc = "idle"
  /\ settings.on # None
  /\ \/ call.op = "get" /\ l \in lost /\ UNCHANGED <<task, queue>>
     \/ /\ call.op # "get" \/ l \notin lost
        /\ IF Alive(cached[l])
             THEN Hands(t, call) /\ UNCHANGED queue
             ELSE /\ task' = [task EXCEPT ![t] = call]
                  /\ queue' = [queue EXCEPT ![l] = Append(@, t)]
  /\ UNCHANGED <<settings, token, cached, lost, chosen>>

GetClient(t) == Enter(t, [Idle EXCEPT !.pc = "waiting", !.op = "get"])

(* signin(), signup() and authenticate() with a token; invalidate().       *)
Signin(t) ==
  /\ OneAtATime
  /\ \E s \in Signins :
       Enter(t, [Idle EXCEPT !.pc = "waiting", !.op = "signin", !.to = s.to, !.kept = s.kept])

Invalidate(t) ==
  /\ OneAtATime
  /\ Enter(t, [Idle EXCEPT !.pc = "waiting", !.op = "invalidate"])

(* The settings, the token and the generation are read at once: the stamp  *)
(* tells what the client is built from.                                    *)
Connect(t, losses) ==
  IF (~Restores(t) /\ LoopOf[t] \in losses) \/ settings.on = None
    THEN Release(t) /\ Ends(t)
    ELSE /\ task' = [task EXCEPT ![t] =
              [Asked(@) EXCEPT !.pc = "opening", !.generation = settings.generation,
                               !.built = [on |-> settings.on, who |-> Configured, stamp |-> ReplayIdentity,
                                          replayable |-> TRUE, up |-> TRUE]]]
         /\ UNCHANGED queue

Holder(t) == queue[LoopOf[t]] # <<>> /\ Head(queue[LoopOf[t]]) = t

(* Mutant of Reuse: the holder of the lock does not look again.             *)
Reuse_Never(t) == FALSE

(* Whoever held the lock before may have opened the client already.        *)
Reuse(t) == Alive(Mine(t))

(* The lock is held: the client another opened, a dead one given up, or a  *)
(* new one.                                                                *)
Locked(t) ==
  /\ task[t].pc = "waiting" /\ Holder(t)
  /\ \/ Reuse(t) /\ Release(t) /\ Hands(t, task[t]) /\ UNCHANGED cached
     \/ /\ Mine(t) # NoClient /\ ~Mine(t).up
        /\ cached' = [cached EXCEPT ![LoopOf[t]] = NoClient]
        /\ task' = [Retired(LoopOf[t], task) EXCEPT ![t].pc = "discarding",
                                                    ![t].doomed = ~Mine(t).replayable]
        /\ UNCHANGED queue
     \/ /\ ~Reuse(t) /\ ~(Mine(t) # NoClient /\ ~Mine(t).up)
        /\ Connect(t, lost) /\ UNCHANGED cached
  /\ UNCHANGED <<settings, token, lost, chosen>>

(* Mutant of Losses: a lost identity is noted nowhere.                      *)
Losses_None(t) == lost

Losses(t) == IF task[t].doomed THEN lost \cup {LoopOf[t]} ELSE lost

(* The dead client is closed: what it ran as may be lost.                  *)
Discarded(t) ==
  /\ task[t].pc = "discarding"
  /\ lost' = Losses(t)
  /\ Connect(t, Losses(t))
  /\ UNCHANGED <<settings, token, cached, chosen>>

-----------------------------------------------------------------------------
(***************************************************************************)
(* _connect_for_loop(), _replay_then_publish(), _publish()                 *)
(***************************************************************************)
(* Mutant of Serves: the generation is not compared.                        *)
Serves_Any(t) == TRUE

Serves(t) == task[t].generation = settings.generation

(* Cached, unless the settings changed while it opened: then closed.       *)
Publish(t, client, handed) ==
  /\ Release(t)
  /\ cached' = IF Serves(t) THEN [cached EXCEPT ![LoopOf[t]] = client] ELSE cached
  /\ IF Serves(t) /\ handed THEN Hands(t, task[t]) ELSE Ends(t)

(* Mutant of OpenFails: the lock stays taken.                               *)
OpenFails_Locked(t) ==
  /\ "unreachable" \in Faults
  /\ task[t].pc = "opening"
  /\ cached' = [cached EXCEPT ![LoopOf[t]] = NoClient]
  /\ Ends(t)
  /\ UNCHANGED <<settings, token, lost, queue, chosen>>

OpenFails(t) ==
  /\ "unreachable" \in Faults
  /\ task[t].pc = "opening"
  /\ cached' = [cached EXCEPT ![LoopOf[t]] = NoClient]
  /\ Release(t) /\ Ends(t)
  /\ UNCHANGED <<settings, token, lost, chosen>>

Opened(t) ==
  /\ task[t].pc = "opening"
  /\ IF token = None
       THEN Publish(t, task[t].built, TRUE)
       ELSE /\ task' = [task EXCEPT ![t].pc = "replaying", ![t].sent = token]
            /\ UNCHANGED <<queue, cached>>
  /\ UNCHANGED <<settings, token, lost, chosen>>

(* Mutant of Replayed: the token is sent, its answer not awaited.           *)
Replayed_Early(t) == task[t].built

Replayed(t) == [task[t].built EXCEPT !.who = task[t].sent]

Replay(t) ==
  /\ task[t].pc = "replaying"
  /\ Publish(t, Replayed(t), TRUE)
  /\ UNCHANGED <<settings, token, lost, chosen>>

(* The server rejects the token: it is forgotten, and the client stays at  *)
(* the configured identity; the call raises.                               *)
ReplayRejected(t) ==
  /\ "rejected" \in Faults
  /\ task[t].pc = "replaying"
  /\ token' = None
  /\ Publish(t, [task[t].built EXCEPT !.stamp = Configured], FALSE)
  /\ UNCHANGED <<settings, lost, chosen>>

(* The connection fails instead: the client is closed, the token kept.     *)
ReplayLost(t) ==
  /\ "drop" \in Faults
  /\ task[t].pc = "replaying"
  /\ Release(t) /\ Ends(t)
  /\ UNCHANGED <<settings, token, cached, lost, chosen>>

Without(q, i) == [j \in 1 .. Len(q) - 1 |-> IF j < i THEN q[j] ELSE q[j + 1]]

(* CancelledError at an await of the acquisition: a client half-opened is  *)
(* closed, the lock let go.                                                *)
Cancel(t) ==
  /\ task[t].pc \in CancelledAt
  /\ \E i \in DOMAIN queue[LoopOf[t]] :
       /\ queue[LoopOf[t]][i] = t
       /\ queue' = [queue EXCEPT ![LoopOf[t]] = Without(@, i)]
  /\ Ends(t)
  /\ UNCHANGED <<settings, token, cached, lost, chosen>>

-----------------------------------------------------------------------------
(***************************************************************************)
(* The identity of the session.                                            *)
(***************************************************************************)
Reaches(t) == task[t].holds /\ Mine(t).up

SetsIdentity(t, who, stamp, replayable) ==
  cached' = [cached EXCEPT ![LoopOf[t]].who = who, ![LoopOf[t]].stamp = stamp,
                           ![LoopOf[t]].replayable = replayable]

(* A token is new: no stamp is of it.                                      *)
Fresh(to) ==
  /\ \A l \in Loops : cached[l].stamp # to
  /\ \A t \in Tasks : task[t].built.stamp # to

(* The server signs the session in, and the manager adopts the tokens      *)
(* (_adopt_tokens()).                                                      *)
SignedIn(t) ==
  LET to == task[t].to
      replay == IF task[t].kept THEN to ELSE ReplayIdentity
  IN
  /\ task[t].pc = "exchanging" /\ task[t].op = "signin" /\ Reaches(t)
  /\ ~task[t].kept \/ (Quiet /\ Fresh(to))
  /\ SetsIdentity(t, to, replay, task[t].kept)
  /\ token' = IF task[t].kept THEN to ELSE token
  /\ lost' = lost \ {LoopOf[t]}
  /\ chosen' = [chosen EXCEPT ![LoopOf[t]] = IF task[t].kept THEN None ELSE to]
  /\ Ends(t)
  /\ UNCHANGED <<settings, queue>>

(* invalidate(): the session is anonymous, the stored one forgotten ...    *)
Invalidated(t) ==
  /\ task[t].pc = "exchanging" /\ task[t].op = "invalidate" /\ Reaches(t)
  /\ Quiet
  /\ cached' = [cached EXCEPT ![LoopOf[t]].who = Anonymous]
  /\ token' = None
  /\ chosen' = [chosen EXCEPT ![LoopOf[t]] = None]
  /\ task' = [task EXCEPT ![t].pc = "restoring"]
  /\ UNCHANGED <<settings, lost, queue>>

(* The request of an identity call is refused, or cannot be sent.          *)
ExchangeFails(t) ==
  /\ task[t].pc = "exchanging"
  /\ "refused" \in Faults \/ ~Reaches(t)
  /\ Ends(t)
  /\ UNCHANGED <<settings, token, cached, lost, queue, chosen>>

(* ... then the configured user signs in again.                            *)
Restored(t) ==
  /\ task[t].pc = "restoring" /\ Reaches(t)
  /\ SetsIdentity(t, Configured, ReplayIdentity, TRUE)
  /\ lost' = lost \ {LoopOf[t]}
  /\ Ends(t)
  /\ UNCHANGED <<settings, token, queue, chosen>>

(* close_connection() of a loop, also after a failed restoration.          *)
Closes(l, tasks) ==
  /\ lost' = lost \ {l}
  /\ cached' = [cached EXCEPT ![l] = NoClient]
  /\ chosen' = [chosen EXCEPT ![l] = None]
  /\ task' = Retired(l, tasks)

RestoreFails(t) ==
  /\ task[t].pc = "restoring"
  /\ "refused" \in Faults \/ ~Reaches(t)
  /\ Closes(LoopOf[t], [task EXCEPT ![t] = Idle])
  /\ UNCHANGED <<settings, token, queue>>

-----------------------------------------------------------------------------
(***************************************************************************)
(* The program, and the network.                                           *)
(***************************************************************************)
(* It is done with the client it got.                                      *)
Return(t) ==
  /\ task[t].pc = "has"
  /\ Ends(t)
  /\ UNCHANGED <<settings, token, cached, lost, queue, chosen>>

(* close_connection(); reconnect() goes on with get_client().              *)
CloseConnection(l) ==
  /\ settings.on # None
  /\ Closes(l, task)
  /\ UNCHANGED <<settings, token, queue>>

(* close_all_connections(): the client of the running loop, then the rest, *)
(* whatever opened meanwhile.                                              *)
CloseAll(t) ==
  /\ task[t].pc = "idle" /\ settings.on # None
  /\ lost' = {}
  /\ chosen' = [l \in Loops |-> None]
  /\ cached' = [cached EXCEPT ![LoopOf[t]] = NoClient]
  /\ task' = [Retired(LoopOf[t], task) EXCEPT ![t].pc = "closing"]
  /\ UNCHANGED <<settings, token, queue>>

CloseRest(t) ==
  /\ task[t].pc = "closing"
  /\ cached' = [l \in Loops |-> NoClient]
  /\ chosen' = [l \in Loops |-> None]
  /\ task' = [AllRetired(task) EXCEPT ![t] = Idle]
  /\ UNCHANGED <<settings, token, lost, queue>>

ClearSession ==
  /\ token # None
  /\ Quiet
  /\ token' = None
  /\ UNCHANGED <<settings, cached, lost, queue, task, chosen>>

(* Mutant of Kept: only the clients of loops nobody waits on are retired.   *)
Kept_Busy == [l \in Loops |-> IF queue[l] = <<>> /\ \A t \in Tasks : LoopOf[t] = l => task[t].pc = "idle"
                                THEN NoClient ELSE cached[l]]

Kept == [l \in Loops |-> NoClient]

(* add_connection() with other settings, remove_connection(): the settings *)
(* change, then every server client is retired (_retire_server_clients()). *)
ChangeSettings ==
  /\ settings.generation < MaxGeneration /\ settings.on # None
  /\ \E on \in (Settings \cup {None}) \ {settings.on} :
       settings' = [on |-> on, generation |-> settings.generation + 1]
  /\ token' = None /\ lost' = {}
  /\ chosen' = [l \in Loops |-> None]
  /\ cached' = Kept
  /\ task' = AllRetired(task)
  /\ UNCHANGED queue

Drop(l) ==
  /\ "drop" \in Faults
  /\ Alive(cached[l])
  /\ cached' = [cached EXCEPT ![l].up = FALSE]
  /\ UNCHANGED <<settings, token, lost, queue, task, chosen>>

-----------------------------------------------------------------------------
(* What a call under way does next.                                        *)
Progress(t) ==
  \/ Locked(t) \/ Discarded(t)
  \/ OpenFails(t) \/ Opened(t) \/ Replay(t) \/ ReplayRejected(t) \/ ReplayLost(t)
  \/ SignedIn(t) \/ Invalidated(t) \/ ExchangeFails(t) \/ Restored(t) \/ RestoreFails(t)
  \/ CloseRest(t) \/ Return(t)

Next ==
  \/ \E t \in Tasks : \/ GetClient(t) \/ Signin(t) \/ Invalidate(t) \/ CloseAll(t)
                      \/ Progress(t) \/ Cancel(t)
  \/ \E l \in Loops : CloseConnection(l) \/ Drop(l)
  \/ ClearSession \/ ChangeSettings

Spec == Init /\ [][Next]_vars

-----------------------------------------------------------------------------
(***************************************************************************)
(* Properties.                                                             *)
(***************************************************************************)
Holding  == {"discarding", "opening", "replaying"}
Identity == {Configured} \cup {s.to : s \in Signins}
Client   == [on : Settings, who : Identity \cup {Anonymous}, stamp : Identity,
             replayable : BOOLEAN, up : BOOLEAN]
Call     == [pc : Holding \cup {"idle", "waiting", "exchanging", "restoring", "has", "closing"},
             op : {None, "get", "signin", "invalidate"}, to : Identity \cup {None}, kept : BOOLEAN,
             built : Client \cup {NoClient}, generation : 0 .. MaxGeneration,
             sent : Identity \cup {None}, doomed : BOOLEAN, holds : BOOLEAN]

(* Types; what a call sets, opens and sends is there when it does.         *)
TypeOK ==
  /\ settings \in [on : Settings \cup {None}, generation : 0 .. MaxGeneration]
  /\ token \in Identity \cup {None}
  /\ cached \in [Loops -> Client \cup {NoClient}]
  /\ lost \subseteq Loops
  /\ queue \in [Loops -> Seq(Tasks)]
  /\ task \in [Tasks -> Call]
  /\ \A t \in Tasks : /\ task[t].op = "signin" <=> task[t].to # None
                      /\ Opening(t) <=> task[t].built # NoClient
                      /\ task[t].pc = "replaying" <=> task[t].sent # None
  /\ chosen \in [Loops -> Identity \cup {None}]

(* Whoever waits for the lock of a loop waits for calls under way, which   *)
(* let it go: it is held by one call of the loop that opens a client, or   *)
(* is about to, and by nobody who returned, failed or was cancelled        *)
(* (_acquire_client()).  While a client opens on a loop none is cached:    *)
(* publishing replaces no open client, whose socket nobody would close.    *)
LocksLetGo ==
  /\ \A l \in Loops : \A i, j \in DOMAIN queue[l] :
       /\ LoopOf[queue[l][i]] = l
       /\ task[queue[l][i]].pc \in (IF i = 1 THEN Holding \cup {"waiting"} ELSE {"waiting"})
       /\ queue[l][i] = queue[l][j] => i = j
  /\ \A t \in Tasks : task[t].pc \in Holding => Holder(t) /\ Mine(t) = NoClient

(* A client in the cache was opened on the settings the name has now, also *)
(* when it was opening while they changed (_publish()).                    *)
ServesCurrent == \A l \in Loops : cached[l] # NoClient => cached[l].on = settings.on

(* A client stamped with the identity a reconnect restores runs as it      *)
(* (_stamp_identity()), except between the two steps of invalidate().      *)
StampTells ==
  \A l \in Loops :
    LET c == cached[l] IN
    c.replayable /\ c.who # Anonymous /\ c.stamp = ReplayIdentity => c.who = ReplayIdentity

Got(t) == task[t].pc # "has" /\ task'[t].pc = "has"

(* Whoever gets a client of a loop whose identity the program set with     *)
(* store=False gets that identity: a drop never puts the configured user   *)
(* in its place (get_client()).  Except for a call that already waited for *)
(* the lock when the identity was lost: it takes, unasked, what a call     *)
(* that sets an identity has opened.                                       *)
AsChosen ==
  [][\A t \in Tasks : Got(t) => \/ chosen[LoopOf[t]] = None
                                \/ cached'[LoopOf[t]].who = chosen[LoopOf[t]]
                                \/ (task[t].pc = "waiting" /\ LoopOf[t] \in lost)]_vars
=============================================================================
