------------------------------ MODULE EventBus ------------------------------
(***************************************************************************)
(* The process-local event bus of the knowledge base                       *)
(* (apps/api/src/events.py), its SQLite copy (save_event / load_events of  *)
(* runtime_persistence.py, wired in engine.py), the two routes that read   *)
(* it (/events and /events/replay of main.py) and the EventSource clients  *)
(* at the other end.                                                       *)
(*                                                                         *)
(* publish() and replay() run under one lock, so each is one step.  The    *)
(* generator behind /events gives the lock back between its replay and its *)
(* wait, and between its wait and its next replay: each of those is a step *)
(* of its own, and a publish, a dropped connection or a restart of the     *)
(* process may fall between any two of them.                               *)
(***************************************************************************)
EXTENDS Integers, Sequences, FiniteSets, Functions, Ascending

CONSTANTS
  Vaults,         \* vault ids events are published for
  Clients,        \* EventSource connections / pollers
  Follows,        \* Follows[c]: the vault named by client c's URL
  UrlCursor,      \* UrlCursor[c]: last_event_id in c's URL, or NoCursor
  NoCursor,       \* the URL has no last_event_id
  MaxEvents,      \* EventBus(max_events = 256)
  Persistent,     \* a sqlite:/// DATABASE_URL is configured
  SaveCanFail,    \* save_event may raise (locked or unwritable database)
  MaxPublish,     \* bound: publish() calls in a behaviour
  MaxRestarts     \* bound: restarts of the API process in a behaviour

ASSUME ConstantsAssumption ==
  /\ Follows \in [Clients -> Vaults]
  /\ UrlCursor \in [Clients -> Nat \cup {NoCursor}]
  /\ NoCursor \notin Nat
  /\ MaxEvents \in Nat \ {0}
  /\ Persistent \in BOOLEAN
  /\ SaveCanFail \in BOOLEAN
  /\ MaxPublish \in Nat
  /\ MaxRestarts \in Nat

VARIABLES
  events,    \* EventBus._events: the deque, oldest first
  nextId,    \* EventBus._next_id
  disk,      \* rows of the events table, in insertion order
  phase,     \* phase[c]: where the generator of c's stream stands
  cursor,    \* cursor[c]: `cursor` of that generator
  pending,   \* pending[c]: what is left of its `pending` list
  wire,      \* wire[c]: events yielded and not yet read by the browser
  lastId,    \* lastId[c]: the browser's last event id
  seen,      \* seen[c]: every event the browser was handed
  unsaved,   \* the highest id of an event that has no row, 0 when there is none
  forgotten, \* the highest id of an event a restart has forgotten, 0 when there is none
  calls,     \* publish() calls so far (MaxPublish bounds it)
  restarts   \* restarts so far (MaxRestarts bounds it)

busVars == <<events, nextId, disk, unsaved, forgotten, calls>>
streamVars == <<phase, cursor, pending, wire>>
browserVars == <<lastId, seen>>
vars == <<events, nextId, disk, phase, cursor, pending, wire, lastId, seen,
          unsaved, forgotten, calls, restarts>>

\* `data` stands for type and payload: it numbers the publish() call, so two
\* events are equal only if they are the same event.
Event == [id : Nat, vault : Vaults, data : Nat]

Phases == {"closed", "scan", "yield", "idle", "asleep", "awake"}

-----------------------------------------------------------------------------
\* The bus.

\* (Mutant of Keep: the deque is built without maxlen.)
KeepAll(s) == s

\* (Mutant of Keep: the oldest MaxEvents entries are kept.)
KeepOldest(s) ==
  IF Len(s) > MaxEvents THEN SubSeq(s, 1, MaxEvents) ELSE s

\* deque(list, maxlen = max_events): the newest MaxEvents entries are kept.
Keep(s) ==
  IF Len(s) > MaxEvents THEN SubSeq(s, Len(s) - MaxEvents + 1, Len(s)) ELSE s

\* save_event: a row is written unless (vault, event id) is there already.
SaveRow(rows, e) ==
  IF \E r \in Range(rows) : r.vault = e.vault /\ r.id = e.id
    THEN rows
    ELSE Append(rows, e)

\* load_events: all rows, sorted by id as an integer.
LoadRows(rows) ==
  LET ids == {r.id : r \in Range(rows)}
  IN  [k \in 1..Cardinality(ids) |->
         CHOOSE r \in Range(rows) : r.id = InOrder(ids)[k]]

\* (Mutant of NextIdAfter: number of rows + 1.)
NextIdByCount(rows) == Len(rows) + 1

\* max(ids, default = 0) + 1 over the restored events.
NextIdAfter(rows) ==
  IF rows = <<>>
    THEN 1
    ELSE (CHOOSE n \in {r.id : r \in Range(rows)} :
            \A r \in Range(rows) : r.id <= n) + 1

\* (Mutant of Replay: the boundary is handed out again.)
ReplayFrom(v, boundary) ==
  LET hits == {i \in DOMAIN events : events[i].vault = v /\ events[i].id >= boundary}
  IN  [k \in 1..Cardinality(hits) |-> events[InOrder(hits)[k]]]

\* replay(vault_id, after_id): the retained events of the vault past the
\* boundary, in the deque's order.
Replay(v, boundary) ==
  LET hits == {i \in DOMAIN events : events[i].vault = v /\ events[i].id > boundary}
  IN  [k \in 1..Cardinality(hits) |-> events[InOrder(hits)[k]]]

\* (Mutant of ResumeAt: a reconnecting client starts at the newest event.)
ResumeFromNow(c) == nextId - 1

\* cursor = last_event_id or last_event_header
ResumeAt(c) == IF UrlCursor[c] = NoCursor THEN lastId[c] ELSE UrlCursor[c]

\* notify_all(): every stream asleep in wait() is woken.
Notified == [c \in Clients |-> IF phase[c] = "asleep" THEN "awake" ELSE phase[c]]

\* The event the next publish() for v builds.
NewEvent(v) == [id |-> nextId, vault |-> v, data |-> calls + 1]

\* publish() up to the persistence callback.
Announce(v) ==
  /\ calls < MaxPublish
  /\ calls' = calls + 1
  /\ nextId' = nextId + 1
  /\ events' = Keep(Append(events, NewEvent(v)))
  /\ phase' = Notified
  /\ UNCHANGED <<cursor, pending, wire, lastId, seen, forgotten, restarts>>

\* The next event has no row.
Unsaved == IF nextId > unsaved THEN nextId ELSE unsaved

\* publish() returns: the row is written when a database is configured.
Publish(v) ==
  /\ Announce(v)
  /\ IF Persistent
       THEN disk' = SaveRow(disk, NewEvent(v)) /\ UNCHANGED unsaved
       ELSE unsaved' = Unsaved /\ UNCHANGED disk

\* publish() raises: save_event failed after the event was appended.
PublishRaises(v) ==
  /\ Persistent /\ SaveCanFail
  /\ Announce(v)
  /\ unsaved' = Unsaved
  /\ UNCHANGED disk

\* The process dies and a new KnowledgeBase builds its EventBus from the
\* rows.  Every connection and everything in memory is gone.
Restart ==
  /\ restarts < MaxRestarts
  /\ restarts' = restarts + 1
  /\ events' = Keep(LoadRows(disk))
  /\ nextId' = NextIdAfter(disk)
  /\ phase' = [c \in Clients |-> "closed"]
  /\ cursor' = [c \in Clients |-> 0]
  /\ pending' = [c \in Clients |-> <<>>]
  /\ wire' = [c \in Clients |-> <<>>]
  /\ forgotten' = unsaved
  /\ UNCHANGED <<disk, lastId, seen, unsaved, calls>>

-----------------------------------------------------------------------------
\* The generator behind GET /events, one stream per client.

Goto(c, p) == phase' = [phase EXCEPT ![c] = p]

\* The browser connects, or reconnects by itself after an error.
Open(c) ==
  /\ phase[c] = "closed"
  /\ Goto(c, "scan")
  /\ cursor' = [cursor EXCEPT ![c] = ResumeAt(c)]
  /\ UNCHANGED <<busVars, pending, wire, browserVars, restarts>>

\* pending = self.replay(...), then `if pending`.
Scan(c) ==
  /\ phase[c] = "scan"
  /\ pending' = [pending EXCEPT ![c] = Replay(Follows[c], cursor[c])]
  /\ Goto(c, IF pending'[c] = <<>> THEN "idle" ELSE "yield")
  /\ UNCHANGED <<busVars, cursor, wire, browserVars, restarts>>

\* cursor = int(event["id"]); yield; after the last one, `continue`.
Yield(c) ==
  /\ phase[c] = "yield"
  /\ cursor' = [cursor EXCEPT ![c] = Head(pending[c]).id]
  /\ wire' = [wire EXCEPT ![c] = Append(@, Head(pending[c]))]
  /\ pending' = [pending EXCEPT ![c] = Tail(@)]
  /\ Goto(c, IF Len(pending[c]) = 1 THEN "scan" ELSE "yield")
  /\ UNCHANGED <<busVars, browserVars, restarts>>

\* with self._condition: self._condition.wait(...)
Sleep(c) ==
  /\ phase[c] = "idle"
  /\ Goto(c, "asleep")
  /\ UNCHANGED <<busVars, cursor, pending, wire, browserVars, restarts>>

\* (Mutant of WaitTimesOut: wait() is called without a timeout.)
WaitForever(c) ==
  /\ FALSE
  /\ UNCHANGED vars

\* wait(timeout = heartbeat_seconds) gives up.
WaitTimesOut(c) ==
  /\ phase[c] = "asleep"
  /\ Goto(c, "awake")
  /\ UNCHANGED <<busVars, cursor, pending, wire, browserVars, restarts>>

\* A heartbeat comment when there is still nothing; round the loop either way.
LoopAgain(c) ==
  /\ phase[c] = "awake"
  /\ Goto(c, "scan")
  /\ UNCHANGED <<busVars, cursor, pending, wire, browserVars, restarts>>

\* The connection breaks; what was on the wire is lost.
Drop(c) ==
  /\ phase[c] # "closed"
  /\ Goto(c, "closed")
  /\ cursor' = [cursor EXCEPT ![c] = 0]
  /\ pending' = [pending EXCEPT ![c] = <<>>]
  /\ wire' = [wire EXCEPT ![c] = <<>>]
  /\ UNCHANGED <<busVars, browserVars, restarts>>

-----------------------------------------------------------------------------
\* The browser.

\* EventSource dispatches the next event and remembers its id.
Receive(c) ==
  /\ wire[c] # <<>>
  /\ lastId' = [lastId EXCEPT ![c] = Head(wire[c]).id]
  /\ seen' = [seen EXCEPT ![c] = @ \cup {Head(wire[c])}]
  /\ wire' = [wire EXCEPT ![c] = Tail(@)]
  /\ UNCHANGED <<busVars, phase, cursor, pending, restarts>>

\* GET /events/replay: everything retained past the client's last id, and
\* the id to ask from next time.
Poll(c) ==
  LET answer == Replay(Follows[c], lastId[c])
  IN  /\ phase[c] = "closed"
      /\ answer # <<>>
      /\ lastId' = [lastId EXCEPT ![c] = answer[Len(answer)].id]
      /\ seen' = [seen EXCEPT ![c] = @ \cup Range(answer)]
      /\ UNCHANGED <<busVars, streamVars, restarts>>

-----------------------------------------------------------------------------
Init ==
  /\ events = <<>>
  /\ nextId = 1
  /\ disk = <<>>
  /\ phase = [c \in Clients |-> "closed"]
  /\ cursor = [c \in Clients |-> 0]
  /\ pending = [c \in Clients |-> <<>>]
  /\ wire = [c \in Clients |-> <<>>]
  /\ lastId = [c \in Clients |-> 0]
  /\ seen = [c \in Clients |-> {}]
  /\ unsaved = 0
  /\ forgotten = 0
  /\ calls = 0
  /\ restarts = 0

Bus == \/ \E v \in Vaults : Publish(v) \/ PublishRaises(v)
       \/ Restart

Stream(c) ==
  Scan(c) \/ Yield(c) \/ Sleep(c) \/ WaitTimesOut(c) \/ LoopAgain(c)

Browser(c) == Open(c) \/ Drop(c) \/ Receive(c) \/ Poll(c)

Next == Bus \/ \E c \in Clients : Stream(c) \/ Browser(c)

Spec == Init /\ [][Next]_vars

\* A generator thread runs on, a wait has a timeout, and bytes in a live
\* connection arrive.  Nothing says a client connects or anyone publishes.
Fairness == \A c \in Clients : WF_vars(Stream(c)) /\ WF_vars(Receive(c))

FairSpec == Spec /\ Fairness

-----------------------------------------------------------------------------
\* Properties.

Increasing(s) == \A i, j \in DOMAIN s : i < j => s[i].id < s[j].id

\* The shape of the state.  The deque never holds more than MaxEvents, and a
\* stream has a pending list exactly while it is yielding one.
TypeOK ==
  /\ events \in Seq(Event) /\ Len(events) <= MaxEvents
  /\ nextId \in Nat \ {0}
  /\ disk \in Seq(Event)
  /\ phase \in [Clients -> Phases]
  /\ cursor \in [Clients -> Nat]
  /\ pending \in [Clients -> Seq(Event)]
  /\ \A c \in Clients : phase[c] = "yield" <=> pending[c] # <<>>
  /\ wire \in [Clients -> Seq(Event)]
  /\ lastId \in [Clients -> Nat]
  /\ seen \in [Clients -> SUBSET Event]
  /\ unsaved \in Nat /\ forgotten \in Nat /\ forgotten <= unsaved
  /\ calls \in Nat
  /\ restarts \in Nat

\* Event ids grow along the deque and along the stored rows, and the next id
\* is above all of them: whatever mix of failed saves and restarts came
\* before, a cursor taken from a retained event splits the deque in two.
IdsIncreasing ==
  /\ Increasing(events)
  /\ Increasing(disk)
  /\ \A e \in Range(events) \cup Range(disk) : e.id < nextId

\* Where client c starts when it has heard nothing.
FirstCursor(c) == IF UrlCursor[c] = NoCursor THEN 0 ELSE UrlCursor[c]

\* A client whose last event id is n has heard every event of its vault up to
\* n that the bus still retains: no drop, reconnect, poll, eviction or restart
\* makes it jump over one it could still have been given.  A save that fails
\* costs a client events only after a restart, and none past the ids of the
\* events that restart forgot.
NoRetainedEventSkipped ==
  \A c \in Clients : \A e \in Range(events) :
    (e.id > forgotten /\ e.vault = Follows[c] /\ FirstCursor(c) < e.id /\ e.id <= lastId[c])
      => e \in seen[c]

\* What carries NoRetainedEventSkipped from step to step: the ids in flight are
\* below the next id, each list of a stream is in order, and nothing retained
\* lies between what a client heard, what its wire holds, what the generator
\* has sent and what its pending list still holds.
GivenOut(n) == n < nextId \/ n <= forgotten

InFlightBelowNextId ==
  \A c \in Clients :
    /\ GivenOut(lastId[c])
    /\ GivenOut(cursor[c]) \/ cursor[c] = FirstCursor(c)
    /\ \A e \in Range(pending[c]) \cup Range(wire[c]) : e.id < nextId

StreamsInOrder ==
  \A c \in Clients :
    /\ phase[c] = "closed" => wire[c] = <<>>
    /\ Increasing(wire[c]) /\ \A e \in Range(wire[c]) : e.id <= cursor[c]
    /\ Increasing(pending[c]) /\ \A e \in Range(pending[c]) : e.id > cursor[c]

SentIsHeardOrOnWire ==
  \A c \in Clients : phase[c] # "closed" =>
    \A e \in Range(events) :
      (e.id > forgotten /\ e.vault = Follows[c] /\ FirstCursor(c) < e.id /\ e.id <= cursor[c])
        => e \in seen[c] \cup Range(wire[c])

PendingIsComplete ==
  \A c \in Clients : \A p \in Range(pending[c]) : \A e \in Range(events) :
    (e.vault = Follows[c] /\ cursor[c] < e.id /\ e.id <= p.id)
      => e \in Range(pending[c])

\* The newest rows are the newest events of the deque, as far back as every
\* event has a row; and the rows tell the next id unless an id has no row.
RowsAreNewest ==
  /\ nextId = NextIdAfter(disk) \/ nextId <= unsaved + 1
  /\ \A k \in 0..(MaxEvents - 1) :
       (k < Len(disk) /\ disk[Len(disk) - k].id > unsaved)
         => k < Len(events) /\ events[Len(events) - k] = disk[Len(disk) - k]

\* With a database that never fails, the deque is the tail of the rows.
DequeMirrorsRows ==
  (Persistent /\ ~SaveCanFail) =>
    events = Keep(disk) /\ nextId = NextIdAfter(disk) /\ unsaved = 0

\* Nothing retained is lost between the deque, a generator, the wire and the
\* browser, nor by a restart, but for the events a restart forgot and those of
\* smaller ids.
NothingLost ==
  /\ InFlightBelowNextId
  /\ StreamsInOrder
  /\ SentIsHeardOrOnWire
  /\ PendingIsComplete
  /\ RowsAreNewest
  /\ DequeMirrorsRows
  /\ NoRetainedEventSkipped

\* A client that resumes by the Last-Event-ID header is handed no event twice
\* and none that is older than one it has heard, across any number of streams
\* and polls.  One whose URL names a cursor starts from that again on every
\* connection, and so hears events again, but none up to its cursor.
Unheard(c, e) == e.id > lastId[c] /\ e \notin seen[c]

HeardOnce ==
  [][\A c \in Clients :
       /\ Receive(c) => Head(wire[c]).id > FirstCursor(c)
       /\ UrlCursor[c] = NoCursor =>
            /\ Receive(c) => Unheard(c, Head(wire[c]))
            /\ Poll(c) => \A e \in Range(Replay(Follows[c], lastId[c])) : Unheard(c, e)]_vars

\* An event retained for the vault of a connected client, and past the cursor of
\* its URL, reaches that client, unless the connection breaks or newer events
\* push it out first.  A publish that falls between a stream's replay and its
\* wait is not lost for ever.
Delivered ==
  \A c \in Clients : \A n \in 1..MaxPublish :
    (/\ phase[c] # "closed"
     /\ \E e \in Range(events) :
          e.data = n /\ e.vault = Follows[c] /\ e.id > FirstCursor(c))
      ~> \/ \E e \in seen[c] : e.data = n
         \/ phase[c] = "closed"
         \/ ~\E e \in Range(events) : e.data = n

\* With a database that never fails, the bus is the feed of EventFeed: the
\* deque is the window on the rows, and a restart changes nothing a client
\* could tell.
Feed == INSTANCE EventFeed WITH
          log <- disk, at <- lastId, heard <- seen,
          Event <- [id : 1..MaxPublish, vault : Vaults, data : 1..MaxPublish]

FeedSpec == Feed!Spec

=============================================================================
