----------------------------- MODULE LiveStream -----------------------------
(***************************************************************************)
(* A live query: LiveStream and LiveIterator (live.py) over the clients of *)
(* one connection on one event loop, with SurrealDBConnectionManager.kill. *)
(*                                                                         *)
(* An action is what a task does between two awaits, what the server does  *)
(* with one request, or what the network does.  Tasks: the reader, the     *)
(* program's start(), stop(), kill(), signin(), close_connection(), and    *)
(* the resubscription the stream runs after a drop (auto_resubscribe).     *)
(***************************************************************************)
EXTENDS Integers, Sequences

CONSTANTS
  Signins,       \* what the program signs in as: [to, kept (store)]
  MaxAttempts,   \* reconnect_max_attempts
  Faults,        \* what may go wrong, of the names below
  MaxClients,    \* bound: WebSocket connections opened
  MaxEvents,     \* bound: notifications of one run of the stream
  MaxCalls       \* bound: how often the program starts the stream or signs in; it kills before the last of these

(* The connection drops, cannot be opened, the stored token is rejected;   *)
(* a LIVE SELECT is refused, or a kill: the program's, one of the stream's. *)
FaultNames == {"drop", "unreachable", "rejected", "removed", "unkillable", "unstoppable"}
Configured == "configured"   \* the identity of set_connection()

ASSUME LiveAssumption ==
  /\ \A s \in Signins : s.to \in STRING /\ s.kept \in BOOLEAN
  /\ MaxAttempts \in Nat \ {0}
  /\ Faults \subseteq FaultNames
  /\ MaxClients \in Nat /\ MaxEvents \in Nat /\ MaxCalls \in Nat

None == 0   \* no client, no live query
End  == -1  \* _STREAM_END, or the server's KILLED envelope, in a reader's queue
Loss == -2  \* _Lost

VARIABLES
  clients,   \* the SDK clients opened, with the session the server gives each
  queries,   \* the live queries the server ever started, by uuid
  manager,   \* the cached client, the identity a reconnect replays, __lost_identity
  stream,    \* the fields of the LiveStream
  reader,    \* its LiveIterator, and the queue registered in _SUBSCRIBERS
  resub,     \* the resubscription, _resubscribe()
  start,     \* the program's call of start()
  stop,      \* the program's call of stop()
  kills,     \* calls of kill() that await the server
  orphans,   \* LIVE SELECTs that outlived their resubscription
  auth,      \* the program's call of signin()
  named      \* live queries it could not kill by their uuid, and still may

vars == <<clients, queries, manager, stream, reader, resub, start, stop, kills, orphans, auth, named>>
server  == <<clients, queries, manager>>
calls   == <<start, stop, kills, orphans, auth, named>>

Idle     == [pc |-> "off", old |-> None, attempt |-> 0, as |-> Configured,
             client |-> None, id |-> None, raced |-> FALSE, cancelled |-> FALSE]
NoAuth   == [pc |-> "off", client |-> None, to |-> Configured, kept |-> TRUE, count |-> 0]
NoReader == [open |-> FALSE, id |-> None, client |-> None, registered |-> FALSE,
             watching |-> FALSE, parked |-> FALSE, queue |-> <<>>, pushed |-> 0, got |-> 0]

Init ==
  /\ clients = <<>> /\ queries = <<>>
  /\ manager = [cached |-> None, replay |-> Configured, lost |-> FALSE]
  /\ stream = [live_id |-> None, stopping |-> FALSE, starts |-> 0,
               identity |-> [as |-> Configured, kept |-> TRUE]]
  /\ reader = NoReader
  /\ resub = Idle /\ start = Idle /\ stop = "off"
  /\ kills = {} /\ orphans = {} /\ auth = NoAuth /\ named = {}

(* Of a live query that is over only its uuid matters.                     *)
Gone == [client |-> None, alive |-> FALSE, runs |-> Configured, raced |-> FALSE]

-----------------------------------------------------------------------------
(* is_dead(): dropped, or retired and about to close.                      *)
Dead(c) == clients[c].net # "up"
Down(c) == clients[c].net = "down"

(* Mutant of Released: the reader is forgotten, and not woken.              *)
Released_Asleep(r, id) ==
  IF r.registered /\ r.id = id THEN [r EXCEPT !.registered = FALSE] ELSE r

(* release_subscribers(): the reader of uuid id wakes with the end.        *)
Released(r, id) ==
  IF r.registered /\ r.id = id
    THEN [r EXCEPT !.registered = FALSE, !.queue = Append(@, End)] ELSE r

(* _detach(), aclose(): a read already parked keeps its queue.             *)
Detached(r) ==
  [NoReader EXCEPT !.parked = r.parked, !.queue = IF r.parked THEN r.queue ELSE <<>>]

(* fail()                                                                  *)
Failed(r) == IF r.open THEN [r EXCEPT !.queue = Append(@, Loss)] ELSE r

(* Mutant of Rebound: the reader goes on with an empty buffer.              *)
Rebound_Emptied(r, c, id) ==
  [r EXCEPT !.client = c, !.id = id, !.registered = TRUE, !.watching = TRUE, !.queue = <<>>]

(* rebind(): the same queue, under the new uuid of the new client.         *)
Rebound(r, c, id) ==
  [r EXCEPT !.client = c, !.id = id, !.registered = TRUE, !.watching = TRUE]

Served == manager.cached # None /\ ~Dead(manager.cached)
When(condition, outcome) == IF condition THEN {outcome} ELSE {}

(* The cached client dropped as an identity nobody stored, now or earlier. *)
Lost ==
  \/ manager.lost
  \/ manager.cached # None /\ Dead(manager.cached) /\ ~clients[manager.cached].stamp.kept

(* A call of kill() that is answered, or caught by a drop, goes on before  *)
(* any later exchange with the server completes: the loop only has to run  *)
(* it (kill() releases its readers before it awaits anything else).        *)
Settled == \A k \in kills : k.answer = "none" /\ ~Down(k.client)

(* _acquire_client(), entered when a reconnect replayed `as': the outcomes *)
(* it may have by the time it returns.  A fresh client is stamped with     *)
(* what it was built from; one nobody wants by then is never published.    *)
Acquisitions(as, wanted, restoring) ==
  LET Is(cs, m, c, error) == [clients |-> cs, manager |-> m, client |-> c, error |-> error]
      Fresh(id) == Append(clients, [net |-> "up", runs |-> id, stamp |-> [as |-> id, kept |-> TRUE]])
      n    == Len(clients) + 1
      room == n <= MaxClients /\ Settled
      lost == [manager EXCEPT !.lost = Lost, !.cached = IF Served THEN @ ELSE None]
  IN  IF Lost /\ ~restoring THEN {Is(clients, lost, None, "final")}
      ELSE IF Served THEN {Is(clients, manager, manager.cached, "none")}
      ELSE When(room /\ wanted, Is(Fresh(as), [lost EXCEPT !.cached = n], n, "none"))
           \cup When(~wanted, Is(clients, lost, None, "final"))
           \cup When("rejected" \in Faults /\ as # Configured /\ room /\ wanted,
                     Is(Fresh(Configured), [lost EXCEPT !.cached = n, !.replay = Configured], None, "final"))
           \cup When("unreachable" \in Faults \/ n > MaxClients, Is(clients, lost, None, "transient"))

-----------------------------------------------------------------------------
(***************************************************************************)
(* The server and the network.                                             *)
(***************************************************************************)
(* A LIVE SELECT in flight is answered: the query runs as whoever the      *)
(* session is by then.  What a drop catches is never answered.             *)
Starts(request) ==
  /\ request.id = None /\ ~Down(request.client) /\ Settled
  /\ queries' = Append(queries, [client |-> request.client, alive |-> TRUE,
                                 runs |-> clients[request.client].runs, raced |-> request.raced])

ServerStarts ==
  /\ \/ /\ resub.pc = "selecting" /\ Starts(resub)
        /\ resub' = [resub EXCEPT !.id = Len(queries) + 1] /\ UNCHANGED <<start, orphans>>
     \/ /\ start.pc = "selecting" /\ Starts(start)
        /\ start' = [start EXCEPT !.id = Len(queries) + 1] /\ UNCHANGED <<resub, orphans>>
     \/ \E o \in orphans :
          /\ Starts(o)
          /\ orphans' = (orphans \ {o}) \cup {[o EXCEPT !.id = Len(queries) + 1]}
          /\ UNCHANGED <<resub, start>>
  /\ UNCHANGED <<clients, manager, stream, reader, stop, kills, auth, named>>

(* A kill in flight: 3.x sends the reader a last envelope, KILLED, 2.x     *)
(* nothing; or the server refuses it.                                      *)
ServerKills(by) ==
  \E k \in kills :
    /\ k.by = by /\ k.answer = "none" /\ ~Down(k.client)
    /\ \/ /\ queries' = [queries EXCEPT ![k.id] = Gone]
          /\ kills' = (kills \ {k}) \cup {[k EXCEPT !.answer = "done"]}
          /\ \/ UNCHANGED reader
             \/ /\ queries[k.id].alive /\ reader.registered /\ reader.id = k.id
                /\ reader' = [reader EXCEPT !.queue = Append(@, End)]
       \/ /\ (IF by = "program" THEN "unkillable" ELSE "unstoppable") \in Faults /\ queries[k.id].alive
          /\ kills' = (kills \ {k}) \cup {[k EXCEPT !.answer = "refused"]}
          /\ UNCHANGED <<queries, reader>>
    /\ UNCHANGED <<clients, manager, stream, resub, start, stop, orphans, auth, named>>

ServerSigns ==
  /\ auth.pc = "sent" /\ ~Down(auth.client)
  /\ clients' = [clients EXCEPT ![auth.client].runs = auth.to]
  /\ auth' = [auth EXCEPT !.pc = "signed"]
  /\ UNCHANGED <<queries, manager, stream, reader, resub, start, stop, kills, orphans, named>>

(* A record changes: the feed in the client's registry puts the envelope,  *)
(* numbered here, in the reader's queue.                                   *)
Notify ==
  /\ reader.registered /\ queries[reader.id].alive
  /\ reader.pushed < MaxEvents
  /\ reader' = [reader EXCEPT !.pushed = @ + 1, !.queue = Append(@, reader.pushed + 1)]
  /\ UNCHANGED <<server, stream, resub, calls>>

(* The socket goes, and with it the server's live queries.                 *)
Drop ==
  \E c \in DOMAIN clients :
    /\ \/ "drop" \in Faults /\ clients[c].net = "up"
       \/ clients[c].net = "closing"
    /\ clients' = [clients EXCEPT ![c].net = "down", ![c].runs = Configured]
    /\ queries' = [q \in DOMAIN queries |-> IF queries[q].client = c THEN Gone ELSE queries[q]]
    /\ UNCHANGED <<manager, stream, reader, resub, calls>>

-----------------------------------------------------------------------------
(***************************************************************************)
(* The reader.                                                             *)
(***************************************************************************)
(* _schedule_resubscribe(): unless already on it, or stopping.             *)
Schedules == ~stream.stopping /\ resub.pc = "off" /\ stream.live_id # None

(* _connection_lost(): the receive task of the reader's client ended.  A   *)
(* reader released on purpose is left alone.                               *)
ConnectionLost ==
  /\ reader.watching /\ Down(reader.client)
  /\ reader' = [reader EXCEPT !.watching = FALSE]
  /\ resub' = IF reader.registered /\ Schedules
                THEN [Idle EXCEPT !.pc = "begin", !.old = stream.live_id] ELSE resub
  /\ UNCHANGED <<server, stream, calls>>

Read ==
  /\ reader.open /\ ~reader.parked
  /\ reader' = [reader EXCEPT !.parked = TRUE]
  /\ UNCHANGED <<server, stream, resub, calls>>

(* A read is cancelled: the queue loses nothing.                           *)
CancelRead ==
  /\ reader.parked
  /\ reader' = [reader EXCEPT !.parked = FALSE]
  /\ UNCHANGED <<server, stream, resub, calls>>

(* __anext__() wakes.  The end and an error leave it alike: the stream     *)
(* forgets its live query and its iterator.                                *)
Receive ==
  /\ reader.parked /\ reader.queue # <<>>
  /\ LET taken == [reader EXCEPT !.queue = Tail(@), !.parked = FALSE] IN
     IF Head(reader.queue) \in {End, Loss}
       THEN /\ reader' = Detached(taken)
            /\ stream' = [stream EXCEPT !.live_id = None]
       ELSE reader' = [taken EXCEPT !.got = Head(reader.queue)] /\ UNCHANGED stream
  /\ UNCHANGED <<server, resub, calls>>

-----------------------------------------------------------------------------
(***************************************************************************)
(* _resubscribe_once().                                                    *)
(***************************************************************************)
(* _still_wanted(): the reader still waits for uuid old.                   *)
StillWanted(old) ==
  /\ ~stream.stopping
  /\ reader.open /\ reader.registered /\ reader.id = old

(* Mutant of CheckIdentity: the new client's stamp is not compared.         *)
CheckIdentity_Unstamped(m, cs, c) ==
  stream.identity.kept /\ stream.identity.as = m.replay

(* _check_identity(manager, client)                                        *)
CheckIdentity(m, cs, c) ==
  /\ stream.identity.kept /\ stream.identity.as = m.replay
  /\ c # None => cs[c].stamp = stream.identity

Abandon == resub' = Idle /\ UNCHANGED <<stream, reader>>

GiveUp ==
  /\ stream' = [stream EXCEPT !.live_id = None]
  /\ reader' = Failed(reader)
  /\ resub' = Idle

GivesUp(attempt) == attempt >= MaxAttempts

(* Mutant of Counted: attempts are not counted.                             *)
Counted_Not(attempt) == attempt

Counted(attempt) == attempt + 1

(* An attempt failed: nobody waits any more, or the stream ends with the   *)
(* error, or the next attempt follows a pause.                             *)
Fails(error) ==
  IF ~StillWanted(resub.old) THEN Abandon
  ELSE IF error = "final" \/ GivesUp(resub.attempt) THEN GiveUp
  ELSE /\ resub' = [resub EXCEPT !.pc = "backoff", !.client = None, !.id = None, !.raced = FALSE]
       /\ UNCHANGED <<stream, reader>>

(* The top of the loop, when the task starts and after each pause.         *)
Attempt ==
  /\ resub.pc \in {"begin", "backoff"} /\ ~resub.cancelled
  /\ IF ~StillWanted(resub.old) THEN Abandon
     ELSE IF ~CheckIdentity(manager, clients, None) THEN GiveUp
     ELSE /\ resub' = [resub EXCEPT !.pc = "acquiring", !.attempt = Counted(@), !.as = manager.replay]
          /\ UNCHANGED <<stream, reader>>
  /\ UNCHANGED <<server, calls>>

(* A client, or none: the LIVE SELECT leaves in the same step.             *)
Acquired ==
  /\ resub.pc = "acquiring" /\ ~resub.cancelled
  /\ \E a \in Acquisitions(resub.as, StillWanted(resub.old), FALSE) :
       /\ clients' = a.clients /\ manager' = a.manager
       /\ IF a.error # "none" THEN Fails(a.error)
          ELSE IF ~StillWanted(resub.old) THEN Abandon
          ELSE IF ~CheckIdentity(a.manager, a.clients, a.client) THEN GiveUp
          ELSE /\ resub' = [resub EXCEPT !.pc = "selecting", !.client = a.client, !.raced = auth.pc # "off"]
               /\ UNCHANGED <<stream, reader>>
  /\ UNCHANGED <<queries, calls>>

(* manager.kill(id), for whoever calls it: without a connection there is   *)
(* nothing left to kill.                                                   *)
Kill(by, id) ==
  kills' = IF Served THEN kills \cup {[by |-> by, id |-> id, client |-> manager.cached, answer |-> "none"]}
                     ELSE kills

(* The LIVE SELECT is answered: the reader moves over, or the subscription *)
(* is nobody's.                                                            *)
Selected ==
  /\ resub.pc = "selecting" /\ resub.id # None /\ ~resub.cancelled
  /\ resub' = Idle
  /\ IF StillWanted(resub.old)
       THEN /\ stream' = [stream EXCEPT !.live_id = resub.id]
            /\ reader' = Rebound(reader, resub.client, resub.id)
            /\ UNCHANGED kills
       ELSE Kill("resubscription", resub.id) /\ UNCHANGED <<stream, reader>>
  /\ UNCHANGED <<server, start, stop, orphans, auth, named>>

SelectFails ==
  /\ resub.pc = "selecting" /\ ~resub.cancelled
  /\ \/ Down(resub.client) /\ Fails("transient")
     \/ "removed" \in Faults /\ resub.id = None /\ Fails("final")
  /\ UNCHANGED <<server, calls>>

(* Mutant of Shielded: the LIVE SELECT is forgotten with its task.          *)
Shielded_Not == {}

(* _start_on(): cancelled mid-request, its answer is awaited elsewhere.    *)
Shielded ==
  IF resub.pc = "selecting"
    THEN {[client |-> resub.client, id |-> resub.id, raced |-> resub.raced, run |-> stream.starts]} ELSE {}

Cancelled ==
  /\ resub.pc # "off" /\ resub.cancelled
  /\ orphans' = orphans \cup Shielded
  /\ resub' = Idle
  /\ UNCHANGED <<server, stream, reader, start, stop, kills, auth, named>>

(* _kill_when_started()                                                    *)
KillOrphan ==
  \E o \in orphans :
    /\ orphans' = orphans \ {o}
    /\ \/ o.id # None /\ Kill("orphan", o.id)
       \/ o.id = None /\ Down(o.client) /\ UNCHANGED kills
    /\ UNCHANGED <<server, stream, reader, resub, start, stop, auth, named>>

-----------------------------------------------------------------------------
(***************************************************************************)
(* The program: start(), stop(), kill(), signin(), close_connection().     *)
(***************************************************************************)
CancelTasks == resub' = IF resub.pc = "off" THEN resub ELSE [resub EXCEPT !.cancelled = TRUE]

Start ==
  /\ start.pc = "off" /\ stop = "off" /\ auth.pc = "off" /\ stream.live_id = None /\ ~reader.parked
  /\ stream.starts + auth.count < MaxCalls
  /\ start' = [Idle EXCEPT !.pc = "waiting"]
  /\ stream' = [stream EXCEPT !.starts = @ + 1]
  /\ CancelTasks
  /\ UNCHANGED <<server, reader, stop, kills, orphans, auth, named>>

StartAcquires ==
  /\ start.pc = "waiting" /\ resub.pc = "off"
  /\ stream' = [stream EXCEPT !.stopping = FALSE]
  /\ start' = [start EXCEPT !.pc = "acquiring", !.as = manager.replay]
  /\ UNCHANGED <<server, reader, resub, stop, kills, orphans, auth, named>>

StartSelects ==
  /\ start.pc = "acquiring"
  /\ \E a \in Acquisitions(start.as, TRUE, FALSE) :
       /\ clients' = a.clients /\ manager' = a.manager
       /\ IF a.error # "none" THEN start' = Idle /\ UNCHANGED stream
          ELSE /\ start' = [start EXCEPT !.pc = "selecting", !.client = a.client]
               /\ stream' = [stream EXCEPT !.identity = a.clients[a.client].stamp]
  /\ UNCHANGED <<queries, reader, resub, stop, kills, orphans, auth, named>>

(* open_stream(): the new reader is registered with the answer in hand.    *)
StartReturns ==
  /\ start.pc = "selecting"
  /\ start' = Idle
  /\ \/ /\ start.id # None
        /\ stream' = [stream EXCEPT !.live_id = start.id]
        /\ reader' = Rebound([NoReader EXCEPT !.open = TRUE], start.client, start.id)
     \/ start.id = None /\ Down(start.client) /\ UNCHANGED <<stream, reader>>
  /\ UNCHANGED <<server, resub, stop, kills, orphans, auth, named>>

Stop ==
  /\ stop = "off" /\ start.pc = "off" /\ stream.starts > 0
  /\ stop' = "cancelling"
  /\ stream' = [stream EXCEPT !.stopping = TRUE]
  /\ CancelTasks
  /\ UNCHANGED <<server, reader, start, kills, orphans, auth, named>>

Stopped == stream' = [stream EXCEPT !.live_id = None] /\ stop' = "off"

StopKills ==
  /\ stop = "cancelling" /\ resub.pc = "off"
  /\ IF stream.live_id = None THEN Stopped /\ reader' = Detached(reader) /\ UNCHANGED kills
     ELSE IF ~Served THEN Stopped /\ reader' = Detached(Released(reader, stream.live_id)) /\ UNCHANGED kills
     ELSE stop' = "killing" /\ Kill("stop", stream.live_id) /\ UNCHANGED <<stream, reader>>
  /\ UNCHANGED <<server, resub, start, orphans, auth, named>>

(* kill(), by a task that knows the uuid.                                  *)
KillLive ==
  /\ stream.live_id # None /\ \A k \in kills : k.by # "program"
  /\ stream.starts + auth.count < MaxCalls
  /\ Kill("program", stream.live_id)
  /\ reader' = IF Served THEN reader ELSE Released(reader, stream.live_id)
  /\ UNCHANGED <<server, stream, resub, start, stop, orphans, auth, named>>

(* kill() returns: whatever the answer, its readers are awake.             *)
KillReturns(by) ==
  \E k \in kills :
    /\ k.by = by
    /\ k.answer # "none" \/ Down(k.client)
    /\ kills' = kills \ {k}
    /\ IF by # "stop" THEN reader' = Released(reader, k.id) /\ UNCHANGED <<stream, stop>>
       ELSE IF k.answer = "refused" THEN reader' = Released(reader, k.id) /\ stop' = "off" /\ UNCHANGED stream
       ELSE Stopped /\ reader' = Detached(Released(reader, k.id))
    /\ named' = IF by = "program" /\ k.answer = "refused" THEN named \cup {k.id} ELSE named
    /\ UNCHANGED <<server, resub, start, orphans, auth>>

(* signin(), not while the program starts the stream: its exchange changes *)
(* the session, its return the stamp.                                      *)
Signin ==
  /\ auth.pc = "off" /\ start.pc = "off" /\ stream.starts + auth.count < MaxCalls
  /\ \E s \in Signins, a \in Acquisitions(manager.replay, TRUE, TRUE) :
       /\ clients' = a.clients /\ manager' = a.manager
       /\ auth' = IF a.error # "none" THEN auth
                  ELSE [pc |-> "sent", client |-> a.client, to |-> s.to, kept |-> s.kept, count |-> auth.count + 1]
  /\ resub' = [resub EXCEPT !.raced = @ \/ (resub.pc = "selecting" /\ resub.id = None)]
  /\ UNCHANGED <<queries, stream, reader, start, stop, kills, orphans, named>>

(* _stamp_identity()                                                       *)
Stamp(to, kept) == [as |-> IF kept THEN to ELSE manager.replay, kept |-> kept]

SigninReturns ==
  /\ \/ auth.pc = "sent" /\ Down(auth.client) /\ UNCHANGED <<clients, manager>>
     \/ /\ auth.pc = "signed"
        /\ clients' = [clients EXCEPT ![auth.client].stamp = Stamp(auth.to, auth.kept)]
        /\ manager' = [manager EXCEPT !.lost = FALSE, !.replay = IF auth.kept THEN auth.to ELSE @]
  /\ auth' = [NoAuth EXCEPT !.count = auth.count]
  /\ UNCHANGED <<queries, stream, reader, resub, start, stop, kills, orphans, named>>

(* clear_session(): the clients keep the session they have.                *)
ClearSession ==
  /\ manager.replay # Configured
  /\ manager' = [manager EXCEPT !.replay = Configured]
  /\ UNCHANGED <<clients, queries, stream, reader, resub, calls>>

(* close_connection(): the readers first, then the socket.                 *)
Close ==
  /\ manager.cached # None
  /\ reader' = Released(reader, reader.id)
  /\ manager' = [manager EXCEPT !.cached = None, !.lost = FALSE]
  /\ clients' = [clients EXCEPT ![manager.cached].net = IF @ = "up" THEN "closing" ELSE @]
  /\ UNCHANGED <<queries, stream, resub, calls>>

(* Any other task of the loop asks for the client.                         *)
GetClient ==
  /\ ~Served
  /\ \E a \in Acquisitions(manager.replay, TRUE, FALSE) :
       clients' = a.clients /\ manager' = a.manager
  /\ UNCHANGED <<queries, stream, reader, resub, calls>>

-----------------------------------------------------------------------------
Resubscription == Attempt \/ Acquired \/ Selected \/ SelectFails \/ Cancelled
Callers == {"stop", "program", "resubscription", "orphan"}   \* of kill()
Calls ==
  \/ StartAcquires \/ StartSelects \/ StartReturns \/ StopKills \/ KillOrphan \/ SigninReturns
  \/ \E by \in Callers : KillReturns(by)
Server == ServerStarts \/ ServerSigns \/ \E by \in Callers : ServerKills(by)

Next ==
  \/ Resubscription \/ Calls \/ Server
  \/ Notify \/ Drop \/ ConnectionLost \/ Read \/ CancelRead \/ Receive
  \/ Start \/ Stop \/ KillLive \/ Signin \/ ClearSession \/ Close \/ GetClient

Spec == Init /\ [][Next]_vars
(* The event loop runs every task that can go on; the server answers.      *)
FairSpec ==
  /\ Spec
  /\ WF_vars(Resubscription)
  /\ WF_vars(ConnectionLost) /\ WF_vars(Receive)
  /\ WF_vars(ServerStarts) /\ WF_vars(StopKills)
  /\ \A by \in Callers : WF_vars(ServerKills(by)) /\ WF_vars(KillReturns(by))

-----------------------------------------------------------------------------
(***************************************************************************)
(* Properties.                                                             *)
(***************************************************************************)
(* A live query the server runs is one somebody can still kill: the stream *)
(* knows its uuid, or a call in progress does (stop(), _start_on(),        *)
(* _resubscribe_once(), kill()).                                           *)
Held(q) ==
  \/ q \in {stream.live_id, start.id, resub.id} \cup named
  \/ \E o \in orphans : o.id = q
  \/ \E k \in kills : k.id = q

NoOrphan == \A q \in DOMAIN queries : queries[q].alive /\ ~Dead(queries[q].client) => Held(q)

(* A reader that waits has something to wait for: its live query, or       *)
(* somebody who is about to wake it or to move it to another               *)
(* (_connection_lost(), _resubscribe_once(), kill(), close_connection()).  *)
Awaited ==
  \/ reader.registered /\ queries[reader.id].alive
  \/ reader.watching /\ Dead(reader.client)
  \/ resub.pc # "off" \/ stop # "off"
  \/ \E k \in kills : k.id = reader.id

NeverParkedForGood == reader.parked /\ reader.queue = <<>> => Awaited

(* A resubscription never changes whose permissions the reader sees        *)
(* (_check_identity()): unless a signin was under way on the connection    *)
(* while it asked.                                                         *)
Resubscribed(q) == q = stream.live_id /\ stream.identity.kept /\ queries[q].alive
SameIdentity ==
  \A q \in DOMAIN queries :
    Resubscribed(q) /\ ~queries[q].raced => queries[q].runs = stream.identity.as

(* What was pushed to the reader is handed out once, in order, through     *)
(* drops, resubscriptions and cancelled reads (rebind(), __anext__()); an  *)
(* end comes after it.                                                     *)
InOrder ==
  reader.open =>
    \A i \in DOMAIN reader.queue :
      IF i <= reader.pushed - reader.got THEN reader.queue[i] = reader.got + i
                                         ELSE reader.queue[i] \in {End, Loss}

(* Every resubscription and every stop() comes to an end, whatever drops   *)
(* (stop(), _cancel_tasks(), _resubscribe()).                              *)
Busy == resub.pc # "off" \/ stop # "off"
Ends == Busy ~> ~Busy
=============================================================================
