# Verification of Personal Knowledge Base OS

TLA+ models of the backend of this repository (`apps/api/src`), TLC runs that
check them on small instances, and TLAPS proofs for every value of the
constants. Paths below are relative to the repository root.

## The system

The backend is one FastAPI process. Its routes (`main.py`) are synchronous
functions, so the server runs each request on a thread of its pool, and all of
them call one global `KnowledgeBase` (`engine.py`) that has no lock. Watcher
threads call it too. Only the event bus has a lock of its own.

| Component | State it keeps | Operations | Talks to |
| --- | --- | --- | --- |
| Event bus (`events.py`) | bounded deque, next id, condition | publish, replay, stream | every component publishes; SSE clients read; `save_event` stores |
| Indexing engine (`engine.py`, `indexer.py`) | per vault: root, snapshots | index_vault, update_note, reindex_from_store | note store, vectors, graph, bus, SQLite |
| Note stores (`store.py`) | notes of each vault | replace_all, list_notes, get_note | engine |
| Vectors (`vectorstore.py`, `search.py`) | chunk id -> vector | clear, add, query | engine, retrieval |
| Backlinks graph (`graph.py`) | adjacency, dangling links, titles | build_graph, get_backlinks, get_graph | engine |
| Watcher (`watcher.py`) | running, _stop, _snapshot, _thread | start, stop, poll_once, _run | engine (on_change), bus |
| Flashcards (`flashcards.py`) | cards and review dicts | generate, review, list | note store, SQLite |
| Saved searches (`engine.py`) | searches by (vault, id) | save, delete, list | SQLite |
| Vault registry (`engine.py`) | vaults, selected vault | register, select, list | SQLite, everything |
| Runtime persistence (`runtime_persistence.py`) | SQLite tables | load_*, save_*, delete_search | all of the above, at start and after each change |
| Retrieval, chat (`search.py`, `chat.py`) | none | search, chat | stores, vectors, LLM |
| Celery worker (`worker.py`) | a second `KnowledgeBase` | index_vault, reindex | the same database |
| Redis lock and cache (`redis.py`) | keys in Redis | acquire, release | nothing in the application |
| Dashboard (`apps/web`) | React state | EventSource, polling, toggles | routes |

What is hard here, and what makes each component right:

* **Event bus.** A stream gives the lock back between its replay and its wait; a
  client drops and reconnects at any moment; the deque evicts; the row of an
  event may fail to be saved; the process restarts. Right means: ids grow along
  the deque, no retained event is jumped over, none is repeated to a client that
  resumes by header, and an event reaches a client that stays connected.
* **Indexing engine.** A run reads many files and replaces four structures in
  turn without a lock, while other runs, edits, failures and restarts fall in
  between. Right means: the index heals, an incremental run ends where a full
  one would, its report is exact, and a PATCH answers with the text it wrote.
* **Watcher.** Request threads and the loop share four fields. Right means: the
  status is true, a stopped watcher falls silent, changes are indexed, a failure
  is reported once.
* **Saved searches, vaults.** A dict is changed first and its rows afterwards, in
  several transactions of which one may fail. Right means: what a request
  answered stays true, in memory and in the database.
* **Retrieval.** A request iterates structures a run is replacing. Right means:
  an answer is well formed whatever it met, and the exact ranking or graph when
  it met nothing and the last run was alone and ended.
* **Processes.** The API and Celery workers index one database, each with a
  graph and snapshots of its own. Right means: the vectors follow the notes
  again after any run that is alone and rebuilds them, and the API is current until a worker
  replaces what it serves.
* **Migrations.** Tables are renamed, copied and dropped, a statement at a time,
  on databases that crash and that `create_all` has been at. Right means: no row
  is lost, and the schema is the one of its version.
* **Chunking.** Loops that step back by an overlap. Right means: they end and
  drop no character.
* **Flashcards.** Reviews change a dict field by field, copies are saved later.
  Right means: a success puts a card off for longer, generating again keeps
  reviews, and the database has every answered review.

`PROJECT.json` lists every hazard with its line and the property aimed at it.

## Modules

`Ascending` states one operator, the members of a finite set of naturals in
ascending order, by rank instead of recursion so that it can be proved about;
the bus uses it for list comprehensions and sorted rows.

### EventBus, EventFeed

`EventBus` has the deque (`events`), the counter (`nextId`), the rows (`disk`)
and, per client, the generator behind `/events` (`phase`, `cursor`, `pending`),
the bytes under way (`wire`) and the browser (`lastId`, `seen`).

* `Publish`, `PublishRaises`: one step each, because `publish` holds the lock to
  its end; the second is a `save_event` that raises.
* `Open`, `Scan`, `Yield`, `Sleep`, `WaitTimesOut`, `LoopAgain`: the stream
  route and the statements of `stream()` between which other threads run.
* `Drop`, `Receive`: the connection and the browser, external. A browser that
  reconnects sends its last event id. The dashboard of this repository closes
  its source at the first error and falls back to polling, which is the part of
  these behaviours with no second `Open`.
* `Poll`: `/events/replay`. `Restart`: `EventBus.__init__` from the rows.

The type and payload of an event are one number, the publish call it came from.
`EventFeed` says what the bus promises when its rows are durable: a log that
only grows, a window on its newest entries, and readers that hear the events of
their vault in order, missing only what left the window. `EventBus!Feed` maps
the rows to the log; run `EventBus_durable` checks the refinement.

Two histories bound what failed saves can cost: `unsaved` is the highest id of an
event that has no row, and `forgotten` the highest that a restart has forgotten.
Ids up to `forgotten` may have been given out twice, so NoRetainedEventSkipped
speaks of the ids past it.

### VaultIndex

One vault. `files` is the directory, `store` / `vectors` / `adj` / `dangling` /
`snapshots` the index in memory, `disk` the snapshot rows; per thread, `pc` and
the local variables of `index_vault` / `update_note`. A path is its position in
the order of the walk, a note id is the slug of the file name, and a content
stands for a file's raw text, and so for its hash, links and chunks.

* `Begin`, `BeginPatch`, `WriteFile`: the requests, and PATCH's write, which
  comes before anything is indexed.
* `ListFolder`, `ReadFile`, `WalkRaises`: `parse_directory`. A folder is listed
  once and its files are read one by one after that, so that a file may change,
  move or vanish between the two.
* `Compare`, `MergeNotes`: `_changes` and the incremental merge.
* `Replace`, `ReplaceRaises`, `ClearVectors`, `AddVectors`, `ResetGraph`,
  `RegisterNodes`, `ResolveLinks`, `ResolveRaises`, `TakeSnapshots`, `Save`,
  `SaveRaises`: `_load`, cut where another thread can see a difference. With
  SQLite two notes of one id are refused by the unique constraint; in memory the
  later one wins.
* `Answer`: the lookup PATCH answers with. `Restart`: snapshots loaded, then
  `reindex_from_store`.

`ghost` and `calm` are read by the properties only: they record which
runs were disturbed by another run or by an edit, or had two notes of one id.

The loops over chunks, notes and links are one step each (`AddVectors`,
`RegisterNodes`, `ResolveLinks`), so that another run's clear or reset falls before or
after a loop and not into it. Heals speaks of undisturbed runs, which rebuild all
of it from nothing; the loops item by item, under runs that clear and reset in
the middle of them, are in Retrieval, whose SettledIndex says the same of vectors and
graph. `write_text` (`engine.py:490`) is one step too: that others may find the
file truncated is what an `EditFile` just before it shows them.

### PollingWatcher

`PollingVaultWatcher` and `start_watcher` / `stop_watcher`. Every statement that
reads or writes a field two threads share is an action: `Start*` and `Stop*` are
the request threads, `Loop*`, `Poll*` and `Index*` the watcher's thread. The
creation of a thread and its start are two (between them another call's join of it
raises, `StopJoinRaises`, or forgets it, so that the start does,
`StartLaunchRaises`), and so are the comparison with `_snapshot` and its
replacement: a loop that outlived its stop may put an older scan back after
start()'s. ChangesIndexed therefore speaks of a change that no loop has just
found in the snapshot. A statement that reads a field more than once
(`watcher.py:73`, the comparison) reads it once in the model. Several
watchers may exist (two requests may each create one) and several loops per
watcher (`stop()` gives up waiting after a timeout). The vault is a version
number. `polls` says whether the polls of this vault may outlast the timeout of
the join, whether scanning and indexing may raise, and whether the database may
refuse an event or the watcher's row; it is chosen at the start. A publish that
raises has put its event into the deque already: the `*Raises` actions are what
the caller then leaves undone. `raised` is a history variable of the properties:
something has raised since a stop last announced itself and left no loop.

### Flashcards

`dict[k]` holds the review dicts made for card `k`, `card[k]` the one `_cards`
refers to: `generate` reuses the dict of an existing card, so two requests may
hold the same one. `ReviewBegins` / `ReviewSpaces` / `ReviewEases` /
`ReviewCopies` are the statements of `review`, `GenerateBegins` /
`GenerateLooks` / `GenerateStores` those of `generate`, `Save` / `SaveRaises`
the transaction of `save_cards`. Ease is in hundredths. `Rounded` allows either
neighbour of a product that lies half way, as the float product is not modelled.
A value that does not fit the column makes the save fail, and any save may fail
because the database cannot be written.

### LocalState

Saved searches and the vault registry: `searches`, `vaults` and `selected` are
the dicts of `KnowledgeBase`, `rows` and `vaultRows` their tables. `BeginSave`,
`Look`, `DropNext`, `DeleteRow`, `Put`, `SaveRow` are the statements and
transactions of `save_search`; `BeginDelete` with `DeleteRow` those of
`delete_saved_search`; `BeginRegister`, `MakeState`, `SetRoot`, `ReadMetadata`,
`SaveVault` those of `register_vault`, which holds on to a vault state that another
registration may have replaced. Indexing is the second writer of both sides:
`CheckRoot` gives the default vault its root in memory, `EnsureRow` inserts a row
without one (as revision 0002 does for the default vault, `Init`).
`TransactionFails` is any of the other transactions, `Restart` loads the tables.

A save looks for namesakes in the dict of all vaults' searches, in Python. `walk`
has what such a look may have met, and `OthersCross` is in every action that changes
the dict: `Look` raises where the size is another, and may miss a namesake where the
dict changed and has its size again.

`answered` remembers what the last request on a key answered; `disturbed` the keys
with a failed transaction, with overlapping requests or with a missed namesake since
the start.

### Retrieval

One request, and the indexing runs of `Runners`, each a thread of its own with its
step and what is left of its loop in `run[w]`; nothing orders them, as nothing in
`_load` does. A run's actions (`Replace`, `ClearVectors`, `AddVector`,
`ResetGraph`, `Register`, `AddLink`, `AddDangling`, `EndPass`) are
cut where an iteration of the request, or another run, can see a difference, and
`RunRaises` ends it where it may raise: in the table of vectors or in the provider,
or with KeyError when another run's reset took the key. The request's actions are
the iterations themselves (`Scan` over the dict of vectors, `QueryTable` over
pgvector, `Edges`, `Dests`, `Nodes`, `Backlinks` over the adjacency dict), each of
which raises when its dict changes size. `graphs` is every adjacency dict made
so far, since an iteration goes on over the one it began with. Ranking,
roll-up of chunks to notes and the hybrid merge are operators on sequences:
`KeywordSearch`, `Fetched`, `RollUp`, `Merged`. `read.met` is TRUE once a run was
under way during the request. The history `settled` is FALSE from the moment a run
stores its notes until a run that was alone from its start to its end has ended:
what runs that overlapped or raised leave behind is there in between, whether or
not one is still under way. SemanticIsRanking and GraphOfTheNotes speak of requests
that find `settled` TRUE, and SettledIndex says what makes that enough.

### Processes

The API process and Celery workers over one PostgreSQL database. `kb[p]` is p's
`KnowledgeBase`: whether its notes and vectors are in the database, and the
graph and snapshots it keeps for itself. `Start`, `Task` and `Request` launch a
run, `Probe` and `Setup` choose the stores, `ListNotes` is `reindex_from_store`,
`Parse` / `Merge` / `Replace` / `Commit` / `Clear` / `Add` / `BuildGraph` / `Report` a
run. `replace_all` is a transaction that is open from `Replace` to `Commit`: one that
others have overtaken (`late`) is refused, or leaves rows it has not seen beside its
own (`Beside`), as READ COMMITTED lets it; `VectorsFollowNotes` starts from there.
`ComesAndGoes` is the database, `Crash` a process, `Edit` the files. The history
`behind` says that what the API keeps for itself may not be what is stored.

### Migrations

A revision is a sequence of statements (`Upgrade1`, `Upgrade2`, `Downgrade1`,
`Downgrade2`, and `CreateAll` for the models), executed one at a time by
`Execute`. `Accepts` is what the database refuses (existing names, missing
tables, unique keys; foreign keys on PostgreSQL only) and `After` what a
statement does. A command is one transaction on PostgreSQL; on SQLite a schema
statement is kept at once until the first INSERT of a revision. `Refuse` and
`Crash` cut a command short; `StoreNotes` is the application at work in between.

### Chunking

`Split` and `CutOne` are the rounds of `_chunk_structural` and `_chunk_fixed`,
`PackOne` and `Finish` those of `_chunk_semantic`. A text is the lengths of the
pieces its separators split it into, and a chunk a range of pieces or of
characters of one piece.

## Runs

Each run is in `PROJECT.json` with its properties. Bounds are constants of the
modules. Behaviours stop when the bounds are used up in VaultIndex,
PollingWatcher, Flashcards, LocalState, Processes, Migrations and Chunking (whose
calls return), so their cfgs say `CHECK_DEADLOCK FALSE`. EventBus
clients can always drop and reconnect, and a request of Retrieval can always
be followed by another, so deadlock is checked there.

| Run | Shows | Bounds, and why they are enough |
| --- | --- | --- |
| EventBus_durable | nothing lost in flight or skipped, none repeated to a client that resumes by header and none up to its cursor to the other, refinement of EventFeed, delivery | two vaults, a client resuming by header and one by URL, deque of 2, 4 publishes, 1 restart: evictions while a list is being yielded, and a restart in the middle of it |
| EventBus_crash | ids increase, no retained event skipped past those a restart forgot | one client, 4 publishes, 2 restarts, saves that may fail: an id given out twice, then a restart on top |
| VaultIndex_sequential | healing, exact report, PATCH | three paths, two of one file name, in two folders; 3 edits, 3 runs, 1 restart: a note that moves while it is walked, a failure, and a run that heals |
| VaultIndex_concurrent | healing after overlapping runs | two threads, two notes that may link to each other, 3 runs: two overlap, the third heals |
| PollingWatcher_one_client | true status, changes indexed, never an older index over a newer, falls silent | 2 starts, 2 stops, 2 edits; vaults with slow polls, failing polls, events that cannot be saved, or none of it: two loops of one watcher, a start after a failure, a stop that puts the status right and a start after it; combinations are left to the proofs |
| PollingWatcher_clients | one report per failure | two clients, 2 starts, 1 stop, slow and failing polls, another request's failure: a stop between the creation of a thread and its start |
| Flashcards_schedule | schedule, reviews kept and saved | 2 cards, 5 reviews, 2 generations, a restart, column limit 8: intervals reach 3, 7 and past the limit |
| LocalState_requests | answers last, dicts are saved, only disturbed keys raise | 2 threads, 2 vaults, one name with 2 queries, 4 requests, 2 failures, 2 restarts: a save that replaces, overlaps another, is looked past, fails half way, is repeated, a vault that is indexed before and after it gets a root, and a restart after each |
| Retrieval_reads | one run alone mends what others left, well formed answers, exact ranking and graph, hybrid and chat | 3 notes, one of more chunks than a query fetches, 2 threads that run once each, or one of them twice, and edit, delete and add notes before and during one request, both vector stores: residue of an overlap or of a failure with no run under way, and a run that mends it |
| Processes_runs | vectors follow notes, the API is current, runs store what they parse | the API and a worker, 2 notes of 2 versions, 3 runs, 2 faults, 1 edit: two runs overlap and a third is alone, a crash or an outage in the middle of any, transactions that overtake each other |
| Migrations_upgrade | schema of its version, no row lost, rows in place, refusals | both databases, empty or of the first release, 3 commands, 1 crash, 2 writes: up, down and up again, a crash at every statement, `create_all` before a migration |
| Chunking_calls | no character dropped, chunks fit, the loop advances | texts of up to 3 pieces of 0..4 and one piece of 5..12, sizes 1..9, overlaps 0..10: overlap below, at and above the size, sizes whose quarter is 0 |

Symmetry is used where no operator tells the values apart and only invariants
are checked: the threads of VaultIndex_concurrent, the runners of the Retrieval
runs, the threads and queries of LocalState_requests.

**Fairness.** EventBus_durable assumes that a generator thread that can run
does, that a wait has a timeout, and that bytes in a live connection arrive; not
that anyone publishes or connects. PollingWatcher_one_client assumes that a
request in progress and a watcher's thread go on (the operating system runs
every thread); nobody has to call, stop or edit. The other runs check safety
only, and a loop that must end is checked by an action property that makes each
round advance (`Advances`).

## Where the code and its text part

Met while modelling. Earlier runs showed the counterexamples of five such places;
they were given up for runs of the components modelled since, so that nothing
here is re-checked: the properties above say what they leave out.

1. `events.py:42` appends an event and uses its id before `save_event` may
   raise; after a restart the id is given out again, although the bus has
   "monotonic reconnect-safe identifiers" (`events.py:12`, docs/failure-modes.md:21).
   A client may then jump over events, so NothingLost and NoRetainedEventSkipped
   speak of the ids past those a restart has forgotten (all of them while no save
   fails, or the process does not restart).
2. `engine.py:237` compares by path what the store keeps by stem: with two files
   of one stem every incremental run reports a change although nothing changed
   (docs/failure-modes.md:13 promises the ids of added, changed and deleted
   notes). ReportIsExact asks for distinct ids.
3. Overlapping runs of one vault leave vectors or a graph that name a note no
   store has (`engine.py:282`), where docs/architecture.md:46 rebuilds them "from the
   surviving notes", and so does a run that raises after its notes are committed.
   What is left stays when no run is under way any more. Heals and SettledIndex say
   that the next undisturbed run puts it right; SemanticIsRanking and
   GraphOfTheNotes speak of what is answered after it.
4. A failing watcher loop sets `running` and then `_stop` (`watcher.py:115`): a start
   between the two is stopped by it and still reports running, next to the
   comment "terminate truthfully on failure" (`watcher.py:100`). The same comes of
   an event that cannot be saved: `watcher_started` (`watcher.py:61`) raises after
   `running` is set and before there is a thread, `index_failed` (`watcher.py:110`)
   before it is unset; every later start then returns at once. StatusIsTrue says
   that the status is true until something raises, and again after a stop that
   announced itself and left no loop.
5. A generation of flashcards saves copies it made before a review was answered
   (`engine.py:565`); docs/architecture.md:14 lists review scheduling as persisted.
   ReviewsSaved and ReviewsKept are checked and proved with one thread.

Limits a reader of the code should know, seen while checking:

* Event bus: the deque is one for all vaults, which evict each other's events
  (`events.py:24`; docs/architecture.md:54 calls the buffer vault-scoped); a client
  that fell behind the window is not told so (`events.py:56`); an idle stream
  holds a thread of the pool for a heartbeat at a time (`events.py:81`).
* Watcher: with slow polls an older run may end after a newer one, so
  IndexNeverGoesBack is stated for prompt ones; with two clients, or slow
  polls that may fail, a loop may run on while the status says stopped, and a start
  and a stop at once may raise (`watcher.py:66`, `watcher.py:74`). A failure
  whose `index_failed` the full deque has already evicted is published again
  (`watcher.py:102`), and one whose `index_failed` the engine could not save is
  published twice: OneReportPerFailure asks for events that can be saved. The
  watchdog variant starts one Observer, a thread that cannot be started twice
  (`watcher.py:170`). A watcher keeps the root it was created with
  (`engine.py:589`).
* Saved searches: a delete whose transaction fails leaves a row that makes later
  saves of the name raise until a restart, which brings the search back;
  overlapping saves of one name can leave either, and overlapping registrations
  of one vault can lose a root. A save may raise, or miss a namesake, because a
  request on any other name changes the dict it looks through (`engine.py:526`); one
  that raises there has changed nothing.
* Vaults: a default vault that was only indexed has a root in memory and none in its
  row, which the next start reads as the configured one: MemoryIsSaved compares with
  `SavedRoot`, not with the column.
* Retrieval: note, graph and in-memory vector requests may raise while a run
  rebuilds what they iterate (`RaisedByRunsOnly` says which may and which never).
  Failures of the request's own query or provider are left out; the transaction of
  `replace_all` is one step, and so are the reset of `adj_list` and of `_dangling`
  (`graph.py:36-39`): what overlaps there is not settled either way.
* Processes: what a worker indexes reaches the API's database and not its graph
  and snapshots, which stay stale until the API restarts or runs a full index;
  until then an incremental run whose file was changed back keeps the worker's
  text. A worker task that finds no database works in memory, succeeds and
  stores nothing; an outage during `setup` leaves vectors in memory until the next
  start; an API started without its database stays in memory. A start or a reindex
  that finds no notes returns before it clears anything (`engine.py:335`), so that
  what a crashed run has left in `note_vectors` stays: VectorsFollowNotes says nothing
  of these rows after such a run (`ReturnedEarly`).
* Migrations: on SQLite a crash before the first INSERT of revision 0002
  (`0002_milestone_3_4_persistence.py:49`) leaves renamed tables, and every retry is
  refused at its first `drop_index`. `create_all` on an unversioned or 0001 SQLite
  database makes the next upgrade fail; on PostgreSQL a 0001 database refuses it
  and the application falls back to memory. A downgrade keeps the default vault
  only, as its comment says.
* Chunking: the default semantic strategy ignores the overlap and keeps a
  sentence longer than the size whole. A size of 0 or a negative overlap, which
  the settings do not exclude, would loop for ever or skip characters; the
  module assumes a size above 0 and an overlap of at least 0.
* Redis (`redis.py:148`): a lock that expires while it is held is taken by
  another; nothing in the application takes it.

## Proofs

TLAPS checks every step; nothing is assumed beyond the named assumptions on the
constants, which TLC evaluates on every run.

* `EventBusProofs`.
  * `InOrderLists`: `InOrder(S)` lists the members of S, once each, ascending.
    The lemma under it: the rank of a member is strictly monotone.
  * `TypeCorrect`, `IdsAlwaysIncrease`: `TypeOK /\ IdsIncreasing` is inductive.
    The two need each other: that ids increase after a restart needs the types
    of the rows, and sorting rows that are in order changes nothing
    (`LoadOrderedRows`).
  * `NothingIsLost` and, from it, `NoRetainedEventIsSkipped`, whatever saves fail
    and whenever the process restarts. NoRetainedEventSkipped alone is not
    inductive: it says nothing of what is on the wire or in a pending list.
    `NothingLost` adds that ids in flight have been given out, that each list is in
    order, that what the generator sent was heard or is on the wire, that a pending
    list is complete up to its last event, and that the newest rows are the newest
    events as far back as every event has a row (`RowsAreNewest`), which is what a
    restart keeps (`KeptFromTheEnd`). One lemma per action; a client's step
    disturbs that client's part only (`OtherClients`).
  * `NothingIsHeardTwice`, as widely: `Forward` says that pending lists and wires
    are in order, that what is under way lies past the last event the client heard,
    and that everything it has heard has no higher id (`OnlyNewerUnderWay`). It
    speaks of the generator's own cursor and not of the deque, which is why ids
    given out a second time do not disturb it.
  * `BusIsAFeed`, the refinement of EventFeed, for a database that never fails
    (`Persistent`, `~SaveCanFail`). The invariant `FeedInv` says that what is on
    the wire or pending are rows of the client's vault and that a stream goes on
    from a place its client may start from (`GoesOnFrom`): then a client that
    hears an event takes the feed's step `Hear`, a poll that answers its
    `CatchUp`, a publish that is saved its `Announce`, and everything else,
    restarts included, stutters. That the deque is the window of the rows is
    `DequeIsWindow`.
* `FlashcardsProofs`.
  * `TypeCorrect` for any threads: `TypeOK /\ JobsFit`, where `JobsFit` says that
    a thread that is reviewing holds a dict.
  * `SuccessAlwaysPutsOff` for one thread: a success on an interval that follows
    the schedule is longer than before because the ease is at least 1.3 and the
    interval at least 7 when the product is taken (`SpacingLengthens`). The
    invariant `ScheduleInv` says that every dict, row and copy follows the
    schedule (fewer repetitions, smaller intervals) and where the job stands
    between the two. `GeneratingKeepsReviews` follows from it as well.
  * `AnsweredReviewsSaved` for one thread: ReviewsSaved speaks of the moments
    without a request only. `SavedInv` says in between that a copy waiting to be
    saved is still what the service holds (`CopiesTrue`), that the review at work
    has the service's own dict (`JobsCurrent`), and that every card is saved, has
    a failed save, or has someone on the way to save it (`CardsAccounted`).
* `StorageProofs`, of Chunking: `NoCharacterDropped`, `ChunksAlwaysFit`,
  `LoopAdvances`, for every text, size above zero and overlap, and the types they
  rest on (`TypeCorrect`, which no run checks). The invariant says
  that every character before where the loops stand is covered, by what the chunks
  or the current one hold.
* `StorageProofs`, of Migrations: `NoRowLostAlways`, for any vaults and notes and any
  number of commands, crashes and writes, on either database. NoRowLost speaks of
  what is committed; the invariant `IInv` adds
  * what every database the program can leave has, torn ones included (`Sound`): a
    row's vault is the one its id was given in, an unscoped row is the default
    vault's, and at head nothing is left under an old name;
  * what of a script is done. The scripts are counted from their ends, where an
    upgrade from base and one from the first revision are the same: `UpFacts(d, n)`
    and `DownFacts(d, n)` say of a database with n statements to come which copies
    are made, and that what is put aside is in the copy before it is dropped. `UpEnd`
    and `DownEnd` say which statement is the n-th from the end;
  * when a transaction is open, and what the running command still has to keep
    (`Due`): all rows until a downgrade copies, then the default vault's, and none
    once it goes on to base.
  A lemma for each kind of statement says what it does to the rows (`CreateStage`,
  `RenameStage`, `CopyUp`, `CopyDown`, `DropStage`, ...), and statements that touch
  no table of notes or chunks are treated at once (`MinorCarries`). `create_all`
  makes its tables in any database, half migrated ones included, and for that needs
  only that what it makes is missing (`MakeStep`).
* `StorageProofs`, of Migrations: `RowsInPlaceAlways`, as widely. NoRowLost says that
  the rows to keep are there, RowsInPlace also that there is no other one, which holds
  as long as no command has stopped half way on SQLite and create_all has made nothing
  below head (`Calm`). `PlaceInv`, on top of `IInv`, says that what is committed is then
  `Settled` unless the running command is dirty: no row but those to keep, nothing
  under an old name, keys and references of its version, and at head a vault for every
  row. For the running script it says what the next statement finds: the tables still
  missing that it is to make, and the references it has given (`UpFinds`, `DownFinds`,
  `BaseFinds`). No statement brings a row with a new id (`Tame`); where a revision
  ends, `Settled` follows again (`FirstRevisionSettled`, `SecondRevisionSettled`,
  `DowngradeSettled`, `BasePlace`). With IInv that gives RowsInPlace: the rows are at
  least and at most those to keep.
* `LocalStateProofs`: `AnswersStayTrue`, `DictsAreSaved`, `NoHealthyRequestRaises`
  for any number of threads, vaults, searches, failures and restarts. They are
  one invariant, `KeyInv(k)` for every key: for each statement a request that is
  alone on its key may be at, what memory and rows have of that key. A step on
  one key leaves the others' alone, but for what it does to a look for namesakes
  under way: `Walks` says that the look has seen all namesakes there are unless the
  dict was changed.
* `ProcessesProofs`: `VectorsFollow`, `ServesCurrent`, `StoresFiles` for any number of
  workers, notes, faults and runs. The invariant says for a run that is alone
  what it has stored so far (`Own`), for every process how its step, stores and
  task fit together (`Shape`), and when the API's own graph and snapshots are
  those of the store, through its runs as well (`ApiInv`). The argument of
  `OthersKeep`: while one process is busy no other one runs alone, so that a step
  of one has nothing of another's to break, a commit that overtakes it included
  (`CommitKeeps`); `FailureKeeps` covers every error path at once.
* `VaultIndexProofs`: `IndexHeals`, `ReportsAreExact`, `PatchesAnswerNewText`, for any
  number of threads, runs, edits, failures and restarts, and for any vault as long as
  the notes of an undisturbed run have distinct ids (`calm`), which with SQLite they
  have whenever it ends well: of two files of one stem the table refuses the second. In
  memory the store keeps the one and vectors, graph and snapshots have both, and the
  properties say nothing of what such a run leaves. Heals alone is not inductive:
  between two runs it says that the
  index agrees, but not what a run half way through has done. The invariant adds,
  for each thread, what it has read (`Local`, `Still`), and for a run alone with
  the index how far it has built it (`Built`) and that its list is the files'
  (`Whole`). Three facts about lists carry it: what is built from a list depends
  on its notes by id only (`ListBuilds`), the report is the difference of two sets
  of notes (`ReportExact`), and a merge by such a report changes nothing
  (`MergeChangesNothing`), which is why an incremental run ends where a full one
  would. That a later note of one id wins needs a greatest position, which a
  well-founded order has.
* `PollingWatcherProofs`: `ReportedOnce` and `TypeCorrect`, for any number of
  clients, watchers, loops, edits and failures of other requests; a failure is
  counted when events can be saved. The invariant `Reported(l)` says, for every
  loop, that no event is its own until its poll fails, that in the handler there
  is none or the one the exception is tagged with, and afterwards exactly one. A
  loop appends events of its own only, so the others' counts stand
  (`OthersKeep`).
  For one client also
  * `StatusStaysTrue`, whatever fails: StatusIsTrue says nothing of the time
    between two calls, so that `Standing` says for each statement of start() and
    stop() what flag, stop event, thread, last event and row are by then, until
    something raises. Old loops that outlive stop()'s join may go on: they
    publish nothing and set no flag while no poll fails (`Calm`). What holds even
    after something has raised is `OnCurrent`: a stop on its way has unset the
    flag of the one watcher there is, and nobody sets it again; when it announces
    itself and no loop is left, `Standing` holds again.
  * `IndexOnlyAdvances`, of prompt polls, whatever fails: `OneLoopPolls` says that
    a loop that polls is the current watcher's own thread and never one next to
    which start() is making another, which is what the join in stop() is for,
    and `ReadsAreNewer` that what it has read is no older than the index.

* `RetrievalProofs`, for any notes, links, chunks, scores, limit and number of runs,
  and either vector store.
  * `RunsSettle` (SettledIndex): after a run that was alone from its start to its end,
    graph, dangling links and vectors are those of the notes, whatever was there
    before. The invariant `IndexInv` says of a run that is alone that the others are
    idle (`OthersIdle`), and of each of its loops what the dict has and what is still
    to come (`Built`): `Registering`, `Linking`, and `vectors \o run[w].todo` for the
    chunks; of the others it only says what their steps are made of (`Typed`).
    `OneRunner` reduces a step to the run that takes it.
  * `WellFormedAnswers`, `RefusesRightly`, `HybridKeeps`: these hold whatever the run
    does to the index meanwhile, so that they are about the operators: what sorting
    (`RankedSorts`), filtering (`SelectKeeps`), cutting (`TopRanked`) and flattening
    (`Flattened`) a list keep, and from those what `KeywordSearch`, `RollUp` and
    `Merged` answer. The two facts that need an induction over a list, the
    listing of a finite set and the flattening of a list of lists, have it from
    `Induct`, which is the library's theorem on well-founded orders.
  * `SemanticRanks`: `SemanticRanking` says that the roll-up of all chunks of some
    notes, cut at four times the limit, ranks the notes by their best chunks; the
    invariant adds that an undisturbed scan has seen a prefix of the vectors.
  * `GraphAnswers`: the invariant `Iterating` says of an undisturbed walk that what it
    has collected is what the dict has before its position.
  * `OnlyRunsRaise`: an undisturbed request finds its dict as long as it was, since
    no step of its own changes one.

Only model-checked:

* SchemaMatchesVersion, which compares databases with the values of folds over whole
  scripts: what a fold computes needs an induction over data, or a script unrolled
  into one formula, which the provers do not finish.
* RefusedOnlyIfDisturbed, which needs all tables and indexes of the database, with
  their keys and references, before each of some ninety statements; PlaceInv speaks of
  the tables of notes and chunks only.
* Liveness (Delivered, ChangesIndexed, FallsSilent), out of the prover's reach with
  ENABLED.

## Not modelled

* Embeddings: numbers computed from a text, and a cache whose hits and misses
  give the same vector. Similarities are numbers of the instance.
* The model provider, pricing, evaluation, health checks, logging and
  configuration: no protocol and no shared state of the application. Of chat,
  which notes it answers from and when it refuses is in Retrieval.
* The Redis lock and cache: no code of the application uses them.
* The dashboard: components whose order of effects is the framework's. What the
  bus depends on, an EventSource that drops and reconnects, is in EventBus.
* The watchdog backend.
* Symlink and containment checks, which guard the file system: an index request
  is one that passed them. Titles as aliases of note ids in the graph. Question
  and answer texts of flashcards. Validation and error envelopes of the routes.
* The demonstration script, which calls the operations one after the other.

## Plan

Done: every component that keeps state of its own, and proofs of every invariant
and action property the runs check, except two invariants of Migrations.

Left, in this order:

1. The composition of watcher and vault registry: a watcher whose vault gets a
   new root.
2. Proofs: `Migrations` — RefusedOnlyIfDisturbed.
3. Titles as aliases in the graph; the dashboard's live status.
