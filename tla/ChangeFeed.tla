----------------------------- MODULE ChangeFeed -----------------------------
(***************************************************************************)
(* A reader of a change feed: ChangeModelStream (changefeed.py) with the   *)
(* program that iterates it, processes its events, saves its cursor and    *)
(* resumes from there after a crash.                                       *)
(*                                                                         *)
(* An action is what the reading task does between two awaits; writers     *)
(* append to the feed, the server answers, the connection drops, the       *)
(* program stops, cancels or abandons the reader in between.  An entry of  *)
(* the feed is one transaction: its stamp and how many record changes.     *)
(***************************************************************************)
EXTENDS Integers, Sequences

CONSTANTS
  Majors,          \* the lines of server: 2, 3 (version())
  Unit,            \* 2^16: stamps in a millisecond (3.x), per counter (2.x)
  MaxCounter,      \* _MAX_COUNTER
  BatchSize,       \* batch_size
  MaxAttempts,     \* reconnect_max_attempts
  Sinces,          \* what the program may pass to changes(since=...)
  Faults,          \* what may go wrong, of the names below
  MaxEntries,      \* bound: entries of the feed
  MaxChanges,      \* bound: record changes of one entry
  MaxClock,        \* bound: the clock of the server, its counter on 2.x; it starts at 1
  MaxGeneration,   \* bound: how often the settings change
  MaxStreams       \* bound: streams the program makes

FaultNames == {"drop", "error", "cancelled", "settings"}

Since == [kind : {"now", "moment", "cursor"}, at : Nat]

ASSUME FeedAssumption ==
  /\ Majors \subseteq Nat
  /\ Unit \in Nat \ {0} /\ MaxCounter \in Nat \ {0}
  /\ BatchSize \in Nat \ {0} /\ MaxAttempts \in Nat \ {0}
  /\ Sinces \subseteq Since
  /\ Faults \subseteq FaultNames
  /\ MaxEntries \in Nat /\ MaxChanges \in Nat /\ MaxClock \in Nat \ {0}
  /\ MaxGeneration \in Nat /\ MaxStreams \in Nat

None == -1   \* no cursor, no binding

VARIABLES
  major,       \* the line of the server the program talks to
  log,         \* the feed of the database the program reads
  clock,       \* the server's clock in milliseconds, its counter on 2.x
  generation,  \* _settings_generation() of the connection
  stream,      \* the fields of the ChangeModelStream
  read,        \* its coroutine: where it waits, and what for
  seen,        \* the stream's history, for the properties
  program      \* what the program has processed and saved

vars == <<major, log, clock, generation, stream, read, seen, program>>

-----------------------------------------------------------------------------
(***************************************************************************)
(* Positions: versionstamps of entries, values of SINCE.                   *)
(***************************************************************************)
(* Mutant of NextCursor: the stamp as the server returned it, on any line.  *)
NextCursor_Stamp(stamp) == stamp + 1

(* next_cursor()                                                           *)
NextCursor(stamp) == IF major < 3 THEN stamp \div Unit + 1 ELSE stamp + 1

(* versionstamp_at()                                                       *)
VersionstampAt(ms) == ms * Unit

(* Where the server finds an entry: SINCE takes the counter on 2.x.        *)
Position(entry) == IF major < 3 THEN entry.stamp \div Unit ELSE entry.stamp

(* SHOW CHANGES ... SINCE at LIMIT limit: the indexes of the entries.  A   *)
(* datetime on 2.x (None) returns earlier entries too: the whole feed.     *)
Show(feed, at, limit) ==
  LET first == CHOOSE i \in 1 .. Len(feed) + 1 :
                 /\ \A j \in 1 .. i - 1 : Position(feed[j]) < at
                 /\ \A j \in i .. Len(feed) : Position(feed[j]) >= at
      last  == IF first + limit - 1 < Len(feed) THEN first + limit - 1 ELSE Len(feed)
  IN  [k \in 1 .. last - first + 1 |-> first + k - 1]

-----------------------------------------------------------------------------
NoStream(since) ==
  [bound |-> None, started |-> FALSE, stopped |-> FALSE,
   since |-> since, cursor |-> None, pending |-> <<>>]

Idle == [pc |-> "outside", mode |-> "read", phase |-> "poll", attempt |-> 0,
         client |-> None, at |-> 0, low |-> 0, high |-> 0,
         answered |-> FALSE, page |-> <<>>, now |-> 0]

NothingSeen == [last |-> <<0, 0>>, from |-> None, called |-> 0, fixed |-> 0]

Init ==
  /\ major \in Majors
  /\ log = <<>>
  /\ clock = 1 /\ generation = 0
  /\ \E since \in Sinces :
       /\ stream = NoStream(since)
       /\ program = [since |-> since, hand |-> FALSE, saved |-> None, origin |-> None,
                     processed |-> {}, streams |-> 1]
  /\ read = Idle /\ seen = NothingSeen

(* The connection was removed or registered again since the stream bound   *)
(* it (_check_generation()).                                               *)
Changed(s) == s.bound # None /\ s.bound # generation

(* Mutant of Stopped: a stop is noticed by nobody.                          *)
Stopped_Never(s) == FALSE

Stopped(s) == s.stopped

-----------------------------------------------------------------------------
(***************************************************************************)
(* _with_retry(): one attempt of one request, and its outcomes.  A stretch *)
(* takes the stream s and the coroutine r as the code has changed them by  *)
(* then, and says where the task waits next.                               *)
(***************************************************************************)
Wait(s, r)    == stream' = s /\ read' = r /\ UNCHANGED <<major, log, clock, generation>>
Leave(s, pc)  == Wait(s, [Idle EXCEPT !.pc = pc])

Attempt(s, r) ==
  \/ Stopped(s) /\ Leave(s, IF r.mode = "start" THEN "outside" ELSE "ended")
  \/ ~Stopped(s) /\ Changed(s) /\ Leave(s, "failed")
  \/ /\ ~Stopped(s) /\ ~Changed(s)
     /\ Wait(s, [r EXCEPT !.pc = "opening", !.attempt = @ + 1, !.client = None,
                          !.answered = FALSE, !.page = <<>>, !.now = 0])

Ask(s, r, phase, at) ==
  Attempt(s, [r EXCEPT !.phase = phase, !.at = at, !.attempt = 0])

(* Mutant of Ready: the generation is not looked at with the client in hand. *)
Ready_Unchecked(s) == TRUE

Ready(s) == ~Changed(s)

(* get_client() returned a client of the settings in force, and the        *)
(* request leaves: nothing is awaited in between.                          *)
Opened ==
  /\ read.pc = "opening"
  /\ IF Ready(stream)
       THEN Wait(stream, [read EXCEPT !.pc = "sent", !.client = generation])
       ELSE Leave(stream, "failed")
  /\ UNCHANGED <<seen, program>>

(* The server answers: a page of the feed, or its clock.                   *)
Answer ==
  /\ read.pc = "sent" /\ ~read.answered
  /\ read' = [read EXCEPT
       !.answered = TRUE,
       !.page = IF read.phase \in {"scan", "first", "double", "bisect", "poll"}
                  THEN Show(log, read.at, IF read.phase \in {"scan", "poll"} THEN BatchSize ELSE 1)
                  ELSE <<>>,
       !.now = IF read.phase = "clock" THEN clock ELSE 0]
  /\ UNCHANGED <<major, log, clock, generation, stream, seen, program>>

GivesUp(r) == r.attempt >= MaxAttempts

(* A connection failure: the attempt is repeated after a pause, or the     *)
(* last one raises.                                                        *)
Drop ==
  /\ "drop" \in Faults
  /\ read.pc \in {"opening", "sent"}
  /\ IF GivesUp(read) THEN Leave(stream, "outside")
                      ELSE Wait(stream, [read EXCEPT !.pc = "backoff", !.answered = FALSE,
                                                     !.page = <<>>, !.now = 0])
  /\ UNCHANGED <<seen, program>>

Backoff ==
  /\ read.pc = "backoff"
  /\ Attempt(stream, read)
  /\ UNCHANGED <<seen, program>>

(* The server refuses the request (_info() goes on, see ReceiveCheck), or  *)
(* the task is cancelled, whatever the SDK makes of it.                    *)
Raise ==
  /\ \/ "error" \in Faults /\ read.pc \in {"opening", "sent"} /\ read.phase # "check"
     \/ "cancelled" \in Faults /\ read.pc \in {"opening", "sent", "backoff", "pausing"}
  /\ Leave(stream, "outside")
  /\ UNCHANGED <<seen, program>>

-----------------------------------------------------------------------------
(***************************************************************************)
(* __anext__(): the top of its loop, and the page it reads.                *)
(***************************************************************************)
(* Mutant of Adopt: the cursor stays behind the events handed out.          *)
Adopt_Never(cursor, after) == cursor

Adopt(cursor, after) == IF after # None THEN after ELSE cursor

Yield(s) ==
  LET e == Head(s.pending) IN
  /\ Leave([s EXCEPT !.pending = Tail(@), !.cursor = Adopt(@, e.after)], "outside")
  /\ seen' = [seen EXCEPT !.last = <<e.entry, e.change>>]
  /\ program' = [program EXCEPT !.hand = TRUE]

(* _start(): it binds the connection once, in one step.                    *)
BeginStart(s, mode) ==
  LET b == [s EXCEPT !.bound = IF @ = None THEN generation ELSE @] IN
  /\ Ask(b, [Idle EXCEPT !.mode = mode], "version", 0)
  /\ seen' = [seen EXCEPT !.called = Len(log)]
  /\ UNCHANGED program

Poll(s) ==
  Ask(s, [Idle EXCEPT !.mode = "read"], "poll", IF s.cursor # None THEN s.cursor ELSE 0)

Loop(s) ==
  \/ Stopped(s) /\ Leave(s, "ended") /\ UNCHANGED <<seen, program>>
  \/ ~Stopped(s) /\ Changed(s) /\ Leave(s, "failed") /\ UNCHANGED <<seen, program>>
  \/ /\ ~Stopped(s) /\ ~Changed(s)
     /\ \/ s.pending # <<>> /\ Yield(s)
        \/ s.pending = <<>> /\ ~s.started /\ BeginStart(s, "read")
        \/ s.pending = <<>> /\ s.started /\ Poll(s) /\ UNCHANGED <<seen, program>>

(* Mutant of Accept: the cursor moves with an entry's first change.         *)
Accept_Early(s, i) ==
  LET n     == log[i].changes
      after == NextCursor(log[i].stamp)
      new   == [k \in 1 .. n |-> [entry |-> i, change |-> k, after |-> IF k = 1 THEN after ELSE None]]
  IN  IF n > 0 THEN [s EXCEPT !.pending = @ \o new]
      ELSE IF s.pending # <<>> THEN [s EXCEPT !.pending[Len(s.pending)].after = after]
      ELSE [s EXCEPT !.cursor = after]

(* Mutant of Accept: an entry without record changes moves the cursor at once. *)
Accept_Skips(s, i) ==
  LET n     == log[i].changes
      after == NextCursor(log[i].stamp)
      new   == [k \in 1 .. n |-> [entry |-> i, change |-> k, after |-> IF k = n THEN after ELSE None]]
  IN  IF n > 0 THEN [s EXCEPT !.pending = @ \o new] ELSE [s EXCEPT !.cursor = after]

(* _accept(): the changes of entry i wait, the last with the cursor past   *)
(* it; a definition only moves a cursor, the last pending one if any.      *)
Accept(s, i) ==
  LET n     == log[i].changes
      after == NextCursor(log[i].stamp)
      new   == [k \in 1 .. n |-> [entry |-> i, change |-> k, after |-> IF k = n THEN after ELSE None]]
  IN  IF n > 0 THEN [s EXCEPT !.pending = @ \o new]
      ELSE IF s.pending # <<>> THEN [s EXCEPT !.pending[Len(s.pending)].after = after]
      ELSE [s EXCEPT !.cursor = after]

(* The stream after the first k entries of the page.                       *)
Accepted(s, page) ==
  LET f[k \in 0 .. Len(page)] == IF k = 0 THEN s ELSE Accept(f[k - 1], page[k])
  IN  f[Len(page)]

(* _poll() returns: read on, hand out, or pause before the next page.      *)
ReceivePage ==
  /\ read.pc = "sent" /\ read.answered /\ read.phase = "poll"
  /\ LET s == Accepted(stream, read.page) IN
     IF s.pending = <<>> /\ Len(read.page) < BatchSize
       THEN Wait(s, [Idle EXCEPT !.pc = "pausing"]) /\ UNCHANGED <<seen, program>>
       ELSE Loop(s)

EndPause ==
  /\ read.pc = "pausing"
  /\ Loop(stream)

-----------------------------------------------------------------------------
(***************************************************************************)
(* _start(): where the stream begins.                                      *)
(***************************************************************************)
(* It has its position.  start() returns to the program, a read goes on.   *)
Begin(cursor) ==
  LET s == [stream EXCEPT !.started = TRUE, !.cursor = cursor]
      p == IF cursor = None THEN 0 ELSE cursor
  IN  /\ IF read.mode = "start" THEN Leave(s, "outside") ELSE Poll(s)
      /\ seen' = [seen EXCEPT !.from = p, !.fixed = Len(log)]
      /\ program' = IF program.saved = None THEN [program EXCEPT !.origin = p] ELSE program

Received(phase) == read.pc = "sent" /\ read.answered /\ read.phase = phase
Then(phase, at, low, high) ==
  /\ Ask(stream, [read EXCEPT !.low = low, !.high = high], phase, at)
  /\ UNCHANGED <<seen, program>>

ReceiveVersion ==
  /\ Received("version")
  /\ Then("check", 0, 0, 0)

(* _check_changefeed(): the table's definition, then the database's; they  *)
(* have no feed, or they have one, or may not be read.                     *)
ReceiveCheck ==
  /\ Received("check")
  /\ \/ read.low = 0 /\ Then("check", 0, 1, 0)
     \/ "error" \in Faults /\ Leave(stream, "outside") /\ UNCHANGED <<seen, program>>
     \/ /\ stream.since.kind = "cursor"
        /\ Begin(stream.since.at)
     \/ /\ stream.since.kind = "moment"
        /\ Begin(IF major >= 3 THEN VersionstampAt(stream.since.at) ELSE None)
     \/ /\ stream.since.kind = "now"
        /\ IF major >= 3 THEN Then("clock", 0, 0, 0) ELSE Then("first", 0, 0, 0)

(* _end_of_feed_3x(): from the clock's millisecond, past its entries.      *)
ReceiveClock ==
  /\ Received("clock")
  /\ LET at == VersionstampAt(read.now) IN Then("scan", at, 0, at + Unit)

Stamps == {log[read.page[k]].stamp : k \in DOMAIN read.page}
Inside == {p \in Stamps : read.at <= p /\ p < read.high}
Newest(S) == CHOOSE p \in S : \A q \in S : q <= p

(* Mutant of Past: the clock's millisecond, with its entries.               *)
Past_Clock == read.at

Past == IF Inside = {} THEN read.at ELSE NextCursor(Newest(Inside))

ReceiveScan ==
  /\ Received("scan")
  /\ IF \/ Len(read.page) < BatchSize
        \/ \E p \in Stamps : p >= read.high
        \/ Inside = {}
       THEN Begin(Past)
       ELSE Then("scan", Past, 0, read.high)

(* _end_of_feed_2x(): doubling, then bisecting the counter.                *)
Double(n) == IF n * 2 < MaxCounter THEN n * 2 ELSE MaxCounter

(* Mutant of Bisected: the last counter known to have entries after it.     *)
Bisected_Low(low, high) ==
  IF high - low > 1 THEN Then("bisect", (low + high) \div 2, low, high) ELSE Begin(low)

Bisected(low, high) ==
  IF high - low > 1 THEN Then("bisect", (low + high) \div 2, low, high) ELSE Begin(high)

ReceiveFirst ==
  /\ Received("first")
  /\ IF read.page = <<>> THEN Begin(0) ELSE Then("double", 1, 0, 1)

ReceiveDouble ==
  /\ Received("double")
  /\ IF read.page = <<>> THEN Bisected(read.low, read.high)
     ELSE IF read.high >= MaxCounter THEN Begin(read.high)
     ELSE Then("double", Double(read.high), read.high, Double(read.high))

ReceiveBisect ==
  /\ Received("bisect")
  /\ IF read.page = <<>> THEN Bisected(read.low, read.at) ELSE Bisected(read.at, read.high)

-----------------------------------------------------------------------------
(***************************************************************************)
(* The program.                                                            *)
(***************************************************************************)
Read ==
  /\ read.pc = "outside" /\ ~program.hand
  /\ Loop(stream)

Start ==
  /\ read.pc = "outside" /\ ~program.hand
  /\ ~stream.started
  /\ BeginStart(stream, "start")

(* It processes the event, then may save the cursor.                       *)
Process ==
  /\ program.hand
  /\ program' = [program EXCEPT !.hand = FALSE, !.processed = @ \cup {seen.last}]
  /\ UNCHANGED <<major, log, clock, generation, stream, read, seen>>

Save ==
  /\ ~program.hand /\ stream.started /\ stream.cursor # None
  /\ program' = [program EXCEPT !.saved = stream.cursor]
  /\ UNCHANGED <<major, log, clock, generation, stream, read, seen>>

(* stop(), from any task.                                                  *)
Stop ==
  /\ ~stream.stopped
  /\ stream' = [stream EXCEPT !.stopped = TRUE]
  /\ UNCHANGED <<major, log, clock, generation, read, seen, program>>

(* The process dies, or abandons the stream; another resumes from the      *)
(* saved cursor.  After other settings the story begins anew: see Init.    *)
Resume ==
  /\ program.streams < MaxStreams /\ ~Changed(stream)
  /\ program' = [program EXCEPT !.hand = FALSE, !.streams = @ + 1]
  /\ stream' = NoStream(IF program.saved = None THEN program.since
                        ELSE [kind |-> "cursor", at |-> program.saved])
  /\ read' = Idle /\ seen' = NothingSeen
  /\ UNCHANGED <<major, log, clock, generation>>

-----------------------------------------------------------------------------
(***************************************************************************)
(* The world: the server's writers and clock, the connection's settings.   *)
(* Once the settings changed nobody reads this feed: it moves no more.     *)
(***************************************************************************)
Tick ==
  /\ clock < MaxClock /\ ~Changed(stream)
  /\ clock' = clock + 1
  /\ UNCHANGED <<major, log, generation, stream, read, seen, program>>

(* A transaction commits: on 3.x in the clock's millisecond, on 2.x at the *)
(* next counter, or a later one when other tables were written.            *)
Commit ==
  \E n \in 0 .. MaxChanges :
    /\ Len(log) < MaxEntries /\ ~Changed(stream)
    /\ LET newest == IF log = <<>> THEN -1 ELSE log[Len(log)].stamp
           first  == VersionstampAt(clock)
           stamp  == IF major < 3 THEN first ELSE IF newest < first THEN first ELSE newest + 1
       IN  /\ stamp > newest /\ stamp < first + Unit
           /\ log' = Append(log, [stamp |-> stamp, changes |-> n])
    /\ UNCHANGED <<major, clock, generation, stream, read, seen, program>>

ChangeSettings ==
  /\ "settings" \in Faults
  /\ generation < MaxGeneration /\ stream.bound # None
  /\ generation' = generation + 1
  /\ UNCHANGED <<major, log, clock, stream, read, seen, program>>

-----------------------------------------------------------------------------
Reader ==
  \/ Opened \/ Drop \/ Backoff \/ Raise \/ ReceivePage \/ EndPause
  \/ ReceiveVersion \/ ReceiveCheck \/ ReceiveClock \/ ReceiveScan
  \/ ReceiveFirst \/ ReceiveDouble \/ ReceiveBisect

Next ==
  \/ Reader \/ Answer
  \/ Read \/ Start \/ Process \/ Save \/ Stop \/ Resume
  \/ Tick \/ Commit \/ ChangeSettings

Spec == Init /\ [][Next]_vars
(* The event loop runs the reading task, the server answers it.            *)
FairSpec == Spec /\ WF_vars(Reader) /\ WF_vars(Answer)

-----------------------------------------------------------------------------
(***************************************************************************)
(* Properties.                                                             *)
(***************************************************************************)
(* A change below the saved cursor was processed, through crashes, stops,  *)
(* drops and cancelled reads (_accept(), __anext__(), next_cursor()).      *)
NothingLost ==
  program.saved # None =>
    \A i \in DOMAIN log :
      program.origin <= Position(log[i]) /\ Position(log[i]) < program.saved =>
        {i} \X (1 .. log[i].changes) \subseteq program.processed

(* The cursor is past exactly the transactions all of whose changes were   *)
(* handed out: a resume repeats at most one of them (_accept()).           *)
ResumesExactly ==
  stream.started /\ stream.cursor # None =>
    \A i \in DOMAIN log :
      LET entry == log[i] IN
      entry.changes > 0 /\ Position(entry) >= seen.from =>
        (Position(entry) < stream.cursor <=>
           i < seen.last[1] \/ seen.last = <<i, entry.changes>>)

(* "Now" is between the call and the return of start(): no older change is *)
(* replayed, no later one missed (_end_of_feed_3x(), _end_of_feed_2x()).   *)
FromNow ==
  stream.started /\ stream.since.kind = "now" =>
    \A i \in DOMAIN log :
      /\ i <= seen.called => Position(log[i]) < seen.from
      /\ i > seen.fixed => Position(log[i]) >= seen.from

(* No request goes to another database than the one the stream was bound   *)
(* to (_with_retry(), _check_generation()).                                *)
RequestsWhereBound == read.pc = "sent" => read.client = stream.bound

(* The feed as OrderedFeed sees it: where each transaction is found, and   *)
(* how many changes it has.                                                *)
Entries == [i \in DOMAIN log |-> [at |-> Position(log[i]), changes |-> log[i].changes]]

Ordered == INSTANCE OrderedFeed WITH
  feed <- Entries, from <- seen.from, last <- seen.last, holds <- program.hand,
  processed <- program.processed, origin <- program.origin, saved <- program.saved

(* The program, its reader and the readers that resume keep the promise of *)
(* OrderedFeed: one change after the other, a cursor past exactly what was *)
(* handed out, a reader that begins at the cursor that was saved           *)
(* (ChangeModelStream, ._start(), .__anext__(), .cursor).                  *)
ImplementsOrderedFeed == Ordered!Spec

(* stop() ends a read, wherever it waits (stop(), _pause()).               *)
Resting  == read.pc \in {"outside", "ended", "failed"}
StopEnds == (stream.stopped /\ ~Resting) ~> Resting
=============================================================================
