--------------------------- MODULE PollingWatcher ---------------------------
(***************************************************************************)
(* The polling watcher of one vault: PollingVaultWatcher                   *)
(* (apps/api/src/watcher.py) and KnowledgeBase.start_watcher /             *)
(* stop_watcher (apps/api/src/engine.py), which create, start and stop it  *)
(* from request threads while its own thread polls the vault.              *)
(*                                                                         *)
(* Nothing is locked, so every statement that reads or writes a field two  *)
(* threads share is a step, and one that reads it twice reads it once.     *)
(* The vault is a version number that every edit increments; a scan        *)
(* returns the version it saw.                                             *)
(***************************************************************************)
EXTENDS Integers, Sequences, FiniteSets

CONSTANTS
  Clients,        \* threads that serve POST /watchers/{id}/start and /stop
  Vaults,         \* what the polls of a vault may be like, see Polls
  MaxStarts,      \* bound: calls of start_watcher, and so watchers and loops
  MaxStops,       \* bound: calls of stop_watcher
  MaxEdits,       \* bound: changes of the vault
  MaxOthers       \* bound: index failures of other requests

\* slow: a poll may outlast the timeout of stop()'s join.  failing: scanning or
\* indexing may raise.  lossy: the database may refuse an event, so that publish
\* raises once the event is in the deque, or the row of the watcher.
Polls == [slow : BOOLEAN, failing : BOOLEAN, lossy : BOOLEAN]

ASSUME WatcherAssumption ==
  /\ Vaults \subseteq Polls
  /\ {MaxStarts, MaxStops, MaxEdits, MaxOthers} \subseteq Nat

Watchers == 1..MaxStarts
Loops == 1..MaxStarts
None == 0

VARIABLES
  polls,      \* what the polls of this vault are like; it never changes
  version,    \* the vault's Markdown files
  indexed,    \* the version last indexed by on_change
  current,    \* KnowledgeBase._watchers[vault_id], or None
  created,    \* watchers created so far
  running,    \* running[w]
  stop,       \* stop[w]: the Event _stop is set
  snapshot,   \* snapshot[w]
  thread,     \* thread[w]: the loop _thread refers to, or None
  loop,       \* loop[l]: a thread running _run, see Loop
  pc,         \* pc[c]: where client c stands
  mine,       \* mine[c]: the watcher c's call works on
  row,        \* running, as the watcher_state table has it
  announced,  \* the last of watcher_started and watcher_stopped
  failures,   \* index_failed events: the loop each was for, None for others'
  raised,     \* something has raised since a stop last left no loop behind
  starts, stops, others   \* counters for the bounds

vaultVars == <<polls, version, indexed>>
fieldVars == <<running, stop, snapshot, thread>>
registryVars == <<current, created, row>>
clientVars == <<pc, mine, starts, stops>>
eventVars == <<announced, failures, raised, others>>
vars == <<polls, version, indexed, running, stop, snapshot, thread, current, created, row,
          pc, mine, starts, stops, announced, failures, raised, others, loop>>

\* born: a Thread object that nobody has started; same, differ: what the
\* comparison of poll_once has found.
LoopSteps == {"unborn", "born", "wait", "scan", "compare", "same", "differ", "read", "index",
              "report", "down", "halt", "announce", "dead"}

Loop == [at : LoopSteps,
         of : Nat,                     \* the watcher whose _run it is, or None
         cursor : Nat,                 \* failures published before this poll
         seen : Nat,                   \* what it scanned, then what it read
         tag : Nat]                    \* its engine's index_failed event, or None

Unborn == {l \in Loops : loop[l].at = "unborn"}
Live == {l \in Loops : loop[l].at \notin {"unborn", "born", "dead"}}

GotoC(c, label) == pc' = [pc EXCEPT ![c] = label]
GotoL(l, label) == loop' = [loop EXCEPT ![l].at = label]

-----------------------------------------------------------------------------
\* start_watcher: the vault's watcher is looked up ...
StartLooksUp(c) ==
  /\ pc[c] = "idle" /\ starts < MaxStarts
  /\ starts' = starts + 1
  /\ mine' = [mine EXCEPT ![c] = current]
  /\ GotoC(c, IF current = None THEN "create" ELSE "check")
  /\ UNCHANGED <<vaultVars, fieldVars, registryVars, eventVars, loop, stops>>

\* ... and created and registered when there was none.
StartCreates(c) ==
  /\ pc[c] = "create"
  /\ created' = created + 1
  /\ current' = created'
  /\ mine' = [mine EXCEPT ![c] = created']
  /\ GotoC(c, "check")
  /\ UNCHANGED <<vaultVars, fieldVars, eventVars, loop, starts, stops, row>>

\* start(): if self.running: return.
StartChecks(c) ==
  /\ pc[c] = "check"
  /\ GotoC(c, IF running[mine[c]] THEN "save" ELSE "snapshot")
  /\ UNCHANGED <<vaultVars, fieldVars, registryVars, eventVars, loop, mine, starts, stops>>

StartScans(c) ==
  /\ pc[c] = "snapshot"
  /\ snapshot' = [snapshot EXCEPT ![mine[c]] = version]
  /\ GotoC(c, "run")
  /\ UNCHANGED <<vaultVars, running, stop, thread, registryVars, eventVars, loop,
                 mine, starts, stops>>

\* A file vanishes in that scan, and the request fails.
StartScanRaises(c) ==
  /\ polls.failing
  /\ pc[c] = "snapshot"
  /\ raised' = TRUE
  /\ mine' = [mine EXCEPT ![c] = None]
  /\ GotoC(c, "idle")
  /\ UNCHANGED <<vaultVars, fieldVars, registryVars, announced, failures, others, loop,
                 starts, stops>>

StartRuns(c) ==
  /\ pc[c] = "run"
  /\ running' = [running EXCEPT ![mine[c]] = TRUE]
  /\ GotoC(c, "clear")
  /\ UNCHANGED <<vaultVars, stop, snapshot, thread, registryVars, eventVars, loop,
                 mine, starts, stops>>

\* (Mutant of StartClears: _stop stays set after a stop.)
StartClearsNothing(c) ==
  /\ pc[c] = "clear"
  /\ GotoC(c, "announce")
  /\ UNCHANGED <<vaultVars, fieldVars, registryVars, eventVars, loop, mine, starts, stops>>

StartClears(c) ==
  /\ pc[c] = "clear"
  /\ stop' = [stop EXCEPT ![mine[c]] = FALSE]
  /\ GotoC(c, "announce")
  /\ UNCHANGED <<vaultVars, running, snapshot, thread, registryVars, eventVars, loop,
                 mine, starts, stops>>

StartAnnounces(c) ==
  /\ pc[c] = "announce"
  /\ announced' = "started"
  /\ GotoC(c, "spawn")
  /\ UNCHANGED <<vaultVars, fieldVars, registryVars, failures, raised, others, loop,
                 mine, starts, stops>>

\* self._thread = Thread(target=self._run)
StartSpawns(c) ==
  /\ pc[c] = "spawn"
  /\ \E l \in Unborn :
       /\ \A m \in Unborn : l <= m
       /\ loop' = [loop EXCEPT ![l].at = "born", ![l].of = mine[c]]
       /\ thread' = [thread EXCEPT ![mine[c]] = l]
  /\ GotoC(c, "launch")
  /\ UNCHANGED <<vaultVars, running, stop, snapshot, registryVars, eventVars,
                 mine, starts, stops>>

\* The thread of a watcher that nobody has started yet, if that is so.
Startable(w) == {l \in Loops : l = thread[w] /\ loop[l].at = "born"}

\* self._thread.start()
StartLaunches(c) ==
  /\ pc[c] = "launch"
  /\ \E l \in Startable(mine[c]) : GotoL(l, "wait")
  /\ GotoC(c, "save")
  /\ UNCHANGED <<vaultVars, fieldVars, registryVars, eventVars, mine, starts, stops>>

\* Another call has forgotten the thread meanwhile, or has started it.
StartLaunchRaises(c) ==
  /\ pc[c] = "launch" /\ Startable(mine[c]) = {}
  /\ raised' = TRUE
  /\ mine' = [mine EXCEPT ![c] = None]
  /\ GotoC(c, "idle")
  /\ UNCHANGED <<vaultVars, fieldVars, registryVars, announced, failures, others, loop,
                 starts, stops>>

\* save_watcher(vault_id, running=True); watcher_status is returned.
StartSaves(c) ==
  /\ pc[c] = "save"
  /\ row' = TRUE
  /\ mine' = [mine EXCEPT ![c] = None]
  /\ GotoC(c, "idle")
  /\ UNCHANGED <<vaultVars, fieldVars, current, created, eventVars, loop, starts, stops>>

-----------------------------------------------------------------------------
\* stop_watcher: without a watcher only the row is saved.
StopLooksUp(c) ==
  /\ pc[c] = "idle" /\ stops < MaxStops
  /\ stops' = stops + 1
  /\ mine' = [mine EXCEPT ![c] = current]
  /\ GotoC(c, IF current = None THEN "unsave" ELSE "checkStop")
  /\ UNCHANGED <<vaultVars, fieldVars, registryVars, eventVars, loop, starts>>

\* stop(): if not self.running: return.
StopChecks(c) ==
  /\ pc[c] = "checkStop"
  /\ GotoC(c, IF running[mine[c]] THEN "unrun" ELSE "unsave")
  /\ UNCHANGED <<vaultVars, fieldVars, registryVars, eventVars, loop, mine, starts, stops>>

StopUnruns(c) ==
  /\ pc[c] = "unrun"
  /\ running' = [running EXCEPT ![mine[c]] = FALSE]
  /\ GotoC(c, "set")
  /\ UNCHANGED <<vaultVars, stop, snapshot, thread, registryVars, eventVars, loop,
                 mine, starts, stops>>

\* (Mutant of StopSets: only `running` tells the loop to stop.)
StopSetsNothing(c) ==
  /\ pc[c] = "set"
  /\ GotoC(c, "forget")
  /\ UNCHANGED <<vaultVars, fieldVars, registryVars, eventVars, loop, mine, starts, stops>>

StopSets(c) ==
  /\ pc[c] = "set"
  /\ stop' = [stop EXCEPT ![mine[c]] = TRUE]
  /\ GotoC(c, "join")
  /\ UNCHANGED <<vaultVars, running, snapshot, thread, registryVars, eventVars, loop,
                 mine, starts, stops>>

\* (Mutant of StopJoins: the loop is not waited for.)
StopWaitsForNobody(c) ==
  /\ pc[c] = "join"
  /\ GotoC(c, "forget")
  /\ UNCHANGED <<vaultVars, fieldVars, registryVars, eventVars, loop, mine, starts, stops>>

\* self._thread.join(timeout): it ends, or the timeout passes.
StopJoins(c) ==
  /\ pc[c] = "join" /\ Startable(mine[c]) = {}
  /\ polls.slow \/ thread[mine[c]] \notin Live
  /\ GotoC(c, "forget")
  /\ UNCHANGED <<vaultVars, fieldVars, registryVars, eventVars, loop, mine, starts, stops>>

\* A thread that another call is about to start cannot be joined.
StopJoinRaises(c) ==
  /\ pc[c] = "join" /\ Startable(mine[c]) # {}
  /\ raised' = TRUE
  /\ mine' = [mine EXCEPT ![c] = None]
  /\ GotoC(c, "idle")
  /\ UNCHANGED <<vaultVars, fieldVars, registryVars, announced, failures, others, loop,
                 starts, stops>>

StopForgets(c) ==
  /\ pc[c] = "forget"
  /\ thread' = [thread EXCEPT ![mine[c]] = None]
  /\ GotoC(c, "announceStop")
  /\ UNCHANGED <<vaultVars, running, stop, snapshot, registryVars, eventVars, loop,
                 mine, starts, stops>>

StopAnnounces(c) ==
  /\ pc[c] = "announceStop"
  /\ announced' = "stopped"
  /\ raised' = (raised /\ Live # {})
  /\ GotoC(c, "unsave")
  /\ UNCHANGED <<vaultVars, fieldVars, registryVars, failures, others, loop,
                 mine, starts, stops>>

\* save_watcher(vault_id, running=False)
StopSaves(c) ==
  /\ pc[c] = "unsave"
  /\ row' = FALSE
  /\ mine' = [mine EXCEPT ![c] = None]
  /\ GotoC(c, "idle")
  /\ UNCHANGED <<vaultVars, fieldVars, current, created, eventVars, loop, starts, stops>>

\* The publish of a call raises: the deque has its event, a start makes no
\* thread although `running` is set, and no row is saved.
AnnounceRaises(c) ==
  /\ polls.lossy
  /\ \/ pc[c] = "announce" /\ announced' = "started"
     \/ pc[c] = "announceStop" /\ announced' = "stopped"
  /\ raised' = TRUE
  /\ mine' = [mine EXCEPT ![c] = None]
  /\ GotoC(c, "idle")
  /\ UNCHANGED <<vaultVars, fieldVars, registryVars, failures, others, loop, starts, stops>>

\* save_watcher raises.
SaveRaises(c) ==
  /\ polls.lossy
  /\ pc[c] \in {"save", "unsave"}
  /\ raised' = TRUE
  /\ mine' = [mine EXCEPT ![c] = None]
  /\ GotoC(c, "idle")
  /\ UNCHANGED <<vaultVars, fieldVars, registryVars, announced, failures, others, loop,
                 starts, stops>>

-----------------------------------------------------------------------------
\* _run: while not self._stop.wait(interval).
LoopEnds(l) ==
  /\ loop[l].at = "wait" /\ stop[loop[l].of]
  /\ GotoL(l, "dead")
  /\ UNCHANGED <<vaultVars, fieldVars, registryVars, clientVars, eventVars>>

\* The interval has passed: a cursor is taken, so that the handler below can
\* tell this poll's events from earlier ones.
LoopWakes(l) ==
  /\ loop[l].at = "wait" /\ ~stop[loop[l].of]
  /\ loop' = [loop EXCEPT ![l].at = "scan", ![l].cursor = Len(failures), ![l].tag = None]
  /\ UNCHANGED <<vaultVars, fieldVars, registryVars, clientVars, eventVars>>

\* poll_once: current = self._scan()
PollScans(l) ==
  /\ loop[l].at = "scan"
  /\ loop' = [loop EXCEPT ![l].at = "compare", ![l].seen = version]
  /\ UNCHANGED <<vaultVars, fieldVars, registryVars, clientVars, eventVars>>

\* A file vanishes between is_file() and stat().
ScanRaises(l) ==
  /\ polls.failing
  /\ loop[l].at = "scan"
  /\ raised' = TRUE
  /\ GotoL(l, "report")
  /\ UNCHANGED <<vaultVars, fieldVars, registryVars, clientVars, announced, failures, others>>

\* changed: the paths that the scan and self._snapshot disagree on.
PollCompares(l) ==
  /\ loop[l].at = "compare"
  /\ GotoL(l, IF loop[l].seen # snapshot[loop[l].of] THEN "differ" ELSE "same")
  /\ UNCHANGED <<vaultVars, fieldVars, registryVars, clientVars, eventVars>>

\* (Mutant of PollTakes: the vault is scanned again for the snapshot.)
PollTakesAnew(l) ==
  /\ loop[l].at \in {"same", "differ"}
  /\ snapshot' = [snapshot EXCEPT ![loop[l].of] = version]
  /\ GotoL(l, IF loop[l].at = "differ" THEN "read" ELSE "wait")
  /\ UNCHANGED <<vaultVars, running, stop, thread, registryVars, clientVars, eventVars>>

\* self._snapshot = current; if changed: note_changed, then on_change().
PollTakes(l) ==
  /\ loop[l].at \in {"same", "differ"}
  /\ snapshot' = [snapshot EXCEPT ![loop[l].of] = loop[l].seen]
  /\ GotoL(l, IF loop[l].at = "differ" THEN "read" ELSE "wait")
  /\ UNCHANGED <<vaultVars, running, stop, thread, registryVars, clientVars, eventVars>>

\* With the snapshot replaced, publish("note_changed") raises, or, on_change,
\* publish("index_started"), which is outside of index_vault's try.
NoticeRaises(l) ==
  /\ polls.lossy
  /\ loop[l].at = "read"
  /\ raised' = TRUE
  /\ GotoL(l, "report")
  /\ UNCHANGED <<vaultVars, fieldVars, registryVars, clientVars, announced, failures, others>>

\* on_change: index_vault(incremental=True) reads the files ...
IndexReads(l) ==
  /\ loop[l].at = "read"
  /\ loop' = [loop EXCEPT ![l].at = "index", ![l].seen = version]
  /\ UNCHANGED <<vaultVars, fieldVars, registryVars, clientVars, eventVars>>

\* ... and replaces the index by what it read.
IndexEnds(l) ==
  /\ loop[l].at = "index"
  /\ indexed' = loop[l].seen
  /\ GotoL(l, "wait")
  /\ UNCHANGED <<polls, version, fieldVars, registryVars, clientVars, eventVars>>

\* index_vault fails, before it replaces the index or at publish("index_completed"),
\* and publishes index_failed.
IndexFails(l) ==
  /\ loop[l].at = "index"
  /\ \/ polls.failing /\ indexed' = indexed
     \/ polls.lossy /\ indexed' = loop[l].seen
  /\ failures' = Append(failures, l)
  /\ raised' = TRUE
  /\ UNCHANGED <<polls, version, fieldVars, registryVars, clientVars, announced, others>>

\* The exception is tagged with that event's id and raised again.
IndexRaises(l) ==
  /\ IndexFails(l)
  /\ loop' = [loop EXCEPT ![l].at = "report", ![l].tag = Len(failures')]

\* publish("index_failed") raises another one, which is not tagged.
FailureRaises(l) ==
  /\ polls.lossy
  /\ IndexFails(l)
  /\ GotoL(l, "report")

\* (Mutant of EngineEmitted: any index_failed since the cursor will do.)
SomeoneEmitted(l) == Len(failures) > loop[l].cursor

\* engine_emitted: the event the exception is tagged with is one of this poll's.
EngineEmitted(l) == loop[l].tag # None /\ loop[l].tag \in (loop[l].cursor + 1)..Len(failures)

\* except Exception: index_failed is published unless the engine has done so.
LoopReports(l) ==
  /\ loop[l].at = "report"
  /\ failures' = IF EngineEmitted(l) THEN failures ELSE Append(failures, l)
  /\ GotoL(l, "down")
  /\ UNCHANGED <<vaultVars, fieldVars, registryVars, clientVars, announced, raised, others>>

\* That publish raises: the thread ends in its handler, and `running` stays set.
ReportRaises(l) ==
  /\ polls.lossy
  /\ loop[l].at = "report" /\ ~EngineEmitted(l)
  /\ failures' = Append(failures, l)
  /\ raised' = TRUE
  /\ GotoL(l, "dead")
  /\ UNCHANGED <<vaultVars, fieldVars, registryVars, clientVars, announced, others>>

\* self.running = False
LoopUnruns(l) ==
  /\ loop[l].at = "down"
  /\ running' = [running EXCEPT ![loop[l].of] = FALSE]
  /\ GotoL(l, "halt")
  /\ UNCHANGED <<vaultVars, stop, snapshot, thread, registryVars, clientVars, eventVars>>

\* self._stop.set()
LoopSets(l) ==
  /\ loop[l].at = "halt"
  /\ stop' = [stop EXCEPT ![loop[l].of] = TRUE]
  /\ GotoL(l, "announce")
  /\ UNCHANGED <<vaultVars, running, snapshot, thread, registryVars, clientVars, eventVars>>

\* publish watcher_stopped; break.  The thread ends as well when publish raises.
LoopAnnounces(l) ==
  /\ loop[l].at = "announce"
  /\ announced' = "stopped"
  /\ GotoL(l, "dead")
  /\ UNCHANGED <<vaultVars, fieldVars, registryVars, clientVars, failures, raised, others>>

-----------------------------------------------------------------------------
\* A Markdown file is added, changed or removed.
EditVault ==
  /\ version < MaxEdits
  /\ version' = version + 1
  /\ UNCHANGED <<polls, indexed, fieldVars, registryVars, clientVars, eventVars, loop>>

\* Another request's indexing of the vault fails and publishes index_failed.
OtherIndexFails ==
  /\ polls.failing /\ others < MaxOthers
  /\ others' = others + 1
  /\ failures' = Append(failures, None)
  /\ UNCHANGED <<vaultVars, fieldVars, registryVars, clientVars, announced, raised, loop>>

Init ==
  /\ polls \in Vaults
  /\ version = 0 /\ indexed = 0
  /\ current = None /\ created = 0 /\ row = FALSE
  /\ running = [w \in Watchers |-> FALSE]
  /\ stop = [w \in Watchers |-> FALSE]
  /\ snapshot = [w \in Watchers |-> 0]
  /\ thread = [w \in Watchers |-> None]
  /\ loop = [l \in Loops |-> [at |-> "unborn", of |-> None, cursor |-> 0, seen |-> 0,
                              tag |-> None]]
  /\ pc = [c \in Clients |-> "idle"]
  /\ mine = [c \in Clients |-> None]
  /\ announced = "none" /\ failures = <<>> /\ raised = FALSE
  /\ starts = 0 /\ stops = 0 /\ others = 0

CallRaises(c) ==
  \/ StartScanRaises(c) \/ StartLaunchRaises(c) \/ StopJoinRaises(c)
  \/ AnnounceRaises(c) \/ SaveRaises(c)

Serve(c) ==
  \/ StartCreates(c) \/ StartChecks(c) \/ StartScans(c) \/ StartRuns(c) \/ StartClears(c)
  \/ StartAnnounces(c) \/ StartSpawns(c) \/ StartLaunches(c) \/ StartSaves(c)
  \/ StopChecks(c) \/ StopUnruns(c) \/ StopSets(c) \/ StopJoins(c) \/ StopForgets(c)
  \/ StopAnnounces(c) \/ StopSaves(c)
  \/ CallRaises(c)

Run(l) ==
  \/ LoopEnds(l) \/ LoopWakes(l) \/ PollScans(l) \/ ScanRaises(l) \/ PollCompares(l)
  \/ PollTakes(l) \/ NoticeRaises(l) \/ IndexReads(l) \/ IndexEnds(l)
  \/ IndexRaises(l) \/ FailureRaises(l)
  \/ LoopReports(l) \/ ReportRaises(l) \/ LoopUnruns(l) \/ LoopSets(l) \/ LoopAnnounces(l)

Next ==
  \/ EditVault \/ OtherIndexFails
  \/ \E c \in Clients : StartLooksUp(c) \/ StopLooksUp(c) \/ Serve(c)
  \/ \E l \in Loops : Run(l)

Spec == Init /\ [][Next]_vars

\* The operating system runs every thread; nobody has to call or to edit.
Fairness ==
  /\ \A c \in Clients : WF_vars(Serve(c))
  /\ \A l \in Loops : WF_vars(Run(l))

FairSpec == Spec /\ Fairness

-----------------------------------------------------------------------------
\* Properties.

\* The shape of the state; nobody works on a watcher that was not created.
TypeOK ==
  /\ polls \in Polls
  /\ version \in Nat /\ indexed \in Nat
  /\ created \in Nat /\ current \in 0..created
  /\ running \in [Watchers -> BOOLEAN] /\ stop \in [Watchers -> BOOLEAN]
  /\ snapshot \in [Watchers -> Nat]
  /\ thread \in [Watchers -> Loops \cup {None}]
  /\ loop \in [Loops -> Loop]
  /\ mine \in [Clients -> 0..created]
  /\ failures \in Seq(Loops \cup {None})
  /\ announced \in {"none", "started", "stopped"} /\ row \in BOOLEAN
  /\ raised \in BOOLEAN

Watching == current # None /\ running[current]

\* Nobody is in the middle of a call and no loop of a dying poll.
Quiet ==
  /\ \A c \in Clients : pc[c] = "idle"
  /\ \A l \in Loops : loop[l].at \notin {"report", "down", "halt", "announce"}

\* What the status says is so: a watcher that reports running has a loop that
\* goes on polling, and the last event and the row in the database say the
\* same.  It holds for one client, however long a loop goes on after stop() has
\* given up waiting for it.  A poll, an event or a save that fails may leave the
\* status untrue; a stop that announces itself and leaves no loop puts it right.
StatusIsTrue ==
  (Quiet /\ ~raised) =>
    /\ Watching => \E l \in Live : loop[l].of = current /\ ~stop[current]
    /\ Watching <=> announced = "started"
    /\ row = Watching

\* Every poll that fails is reported by exactly one index_failed, whether the
\* engine published it or not and whatever other requests published meanwhile,
\* when events can be saved.
OneReportPerFailure ==
  \A l \in Loops :
    (~polls.lossy /\ loop[l].at \in {"down", "halt", "announce"}) =>
      Cardinality({k \in DOMAIN failures : failures[k] = l}) = 1

\* A change that the running watcher has not scanned is indexed, unless the
\* watcher stops running, also while a loop that outlived its stop is still at it.
\* Such a loop may put an older scan back after start()'s: a change that is
\* missing in the snapshot for that reason only, as another loop has just found
\* it there, is not meant.
ChangesIndexed ==
  \A n \in 1..MaxEdits :
    (/\ ~polls.failing /\ ~polls.lossy /\ Watching
     /\ snapshot[current] < n /\ version >= n
     /\ \A l \in Loops : loop[l].at = "same" => loop[l].seen < n)
      ~> (indexed >= n \/ ~Watching)

\* An indexing run of a loop that was stopped or has failed does not end after
\* one of the loop started next and replace the index by what it read earlier,
\* when every poll ends before stop()'s join times out.
IndexNeverGoesBack == [][~polls.slow => indexed' >= indexed]_vars

\* Once stopped, the watcher falls silent: no loop goes on for ever while the
\* status says that nothing is running, unless polls are slow and may fail.
FallsSilent ==
  ~(polls.slow /\ (polls.failing \/ polls.lossy))
    => []<>(Watching \/ Live = {} \/ \E c \in Clients : pc[c] # "idle")

=============================================================================
