----------------------------- MODULE VaultIndex -----------------------------
(***************************************************************************)
(* Indexing one vault: KnowledgeBase.index_vault, update_note,             *)
(* reindex_from_store and the stores they rebuild (apps/api/src/engine.py, *)
(* indexer.py, store.py, search.py, graph.py).                             *)
(*                                                                         *)
(* An indexing run reads the vault's files one by one, compares them with  *)
(* the snapshots of the run before, and then replaces, one after another   *)
(* and with no lock around them, the note store, the vectors, the graph    *)
(* and the snapshots.  Requests and the watcher call it from several       *)
(* threads, files change under it, it may fail half way and the process    *)
(* may be restarted between any two of its steps.                          *)
(*                                                                         *)
(* A path is its position in the walk, 1..NumPaths, which takes the        *)
(* folders 1..NumFolders in turn; a note's id is the slug of its file      *)
(* name, Stem[path].  A content stands for a file's raw text, and so for   *)
(* its hash, its links and its chunks.                                     *)
(***************************************************************************)
EXTENDS Integers, FiniteSets, FiniteSetsExt

CONSTANTS
  Threads,         \* request threads and watcher threads
  NumPaths,        \* the paths a file may have, in walk order
  NumFolders,      \* the folders of the vault, in walk order
  Folder,          \* Folder[p]: the folder path p is in
  Stem,            \* Stem[p]: the note id of a file at path p
  Contents,        \* raw texts a readable file may have
  Links,           \* Links[c]: ids the wikilinks of content c name
  NumChunks,       \* NumChunks[c]: chunks content c is split into
  Absent,          \* no file at the path
  Unreadable,      \* a file parse_directory refuses (symlink, too big, not text)
  NoContent,       \* no PATCH is being answered
  Sqlite,          \* notes and snapshots are kept in a SQLite database
  WritesCanFail,   \* a database write may raise
  AllowDuplicates, \* users may keep two files of one stem in different folders
  MaxEdits,        \* bound: file changes made outside PATCH
  MaxRuns,         \* bound: indexing runs and PATCH requests
  MaxRestarts      \* bound: restarts of the process

Paths == 1..NumPaths
Ids == {Stem[p] : p \in Paths}

ASSUME IndexAssumption ==
  /\ NumPaths \in Nat \ {0} /\ NumFolders \in Nat \ {0}
  /\ Folder \in [Paths -> 1..NumFolders]
  /\ DOMAIN Stem = Paths /\ \A p \in Paths : Stem[p] \in Nat
  /\ Links \in [Contents -> SUBSET Nat]
  /\ NumChunks \in [Contents -> Nat \ {0}]
  /\ Absent \notin Contents /\ Unreadable \notin Contents /\ NoContent \notin Contents
  /\ Absent # Unreadable
  /\ {Sqlite, WritesCanFail, AllowDuplicates} \subseteq BOOLEAN
  /\ MaxEdits \in Nat /\ MaxRuns \in Nat /\ MaxRestarts \in Nat

VARIABLES
  files,      \* the vault's files: path -> content, Absent or Unreadable
  store,      \* NoteStore, this vault: id -> note
  vectors,    \* VectorStore: <<note id, chunk index>> -> content
  adj,        \* BacklinksGraph.adj_list: id -> ids linked to
  dangling,   \* BacklinksGraph._dangling: set of <<id, target>>
  snapshots,  \* _VaultState.snapshots: path -> content last indexed there
  disk,       \* the snapshot rows SQLite holds
  pc,         \* pc[t]: where thread t stands
  job,        \* job[t]: what it was asked: [kind, id, path, content]
  walk,       \* walk[t]: next folder os.walk comes to
  listed,     \* listed[t]: files of the folder before it, not read yet
  notes,      \* notes[t]: its list of notes: path -> note
  report,     \* report[t]: its `changes`
  answer,     \* answer[t]: content its last PATCH answered with
  ghost,      \* ghost[t]: what happened around its run, see below
  calm,       \* how far undisturbed runs have brought the index, see below
  edits, runs, restarts   \* counters for the bounds

fileVars == <<files, edits>>
indexVars == <<store, vectors, adj, dangling, snapshots, disk>>
threadVars == <<pc, job, walk, listed, notes, report, answer, runs>>
ghostVars == <<ghost, calm>>
vars == <<files, store, vectors, adj, dangling, snapshots, disk, pc, job, walk,
          listed, notes, report, answer, ghost, calm, edits, runs, restarts>>

-----------------------------------------------------------------------------
\* Lists of notes.  A list is a function from walk positions to notes.

Note == [path : Paths, content : Contents]
Nothing == [p \in {} |-> p]

IdOf(note) == Stem[note.path]
IdsIn(list) == {IdOf(list[p]) : p \in DOMAIN list}
WithId(list, i) == {p \in DOMAIN list : IdOf(list[p]) = i}
DistinctIds(list) == \A p, q \in DOMAIN list : IdOf(list[p]) = IdOf(list[q]) => p = q

\* The later of two notes with one id wins: lists are sorted by id, stably.
Last(positions) == Max(positions)

\* InMemoryNoteStore.replace_all: {note["id"]: note for note in notes}.
ById(list) == [i \in IdsIn(list) |-> list[Last(WithId(list, i))]]

\* list_notes: what the store holds, as a list.
Listed(st) == [p \in {st[i].path : i \in DOMAIN st} |-> st[Stem[p]]]

\* KnowledgeBase._snapshots: keyed by source path.
Snap(list) ==
  [q \in {list[p].path : p \in DOMAIN list} |->
     list[CHOOSE p \in DOMAIN list : list[p].path = q].content]

\* build_vector_store without its clear(): add() overwrites by chunk id.
ChunkIds(note) == {<<IdOf(note), k>> : k \in 0..(NumChunks[note.content] - 1)}

AddChunks(vec, list) ==
  LET having(x) == {p \in DOMAIN list : x \in ChunkIds(list[p])}
      new == UNION {ChunkIds(list[p]) : p \in DOMAIN list}
  IN  [x \in DOMAIN vec \cup new |->
         IF x \in new THEN list[Last(having(x))].content ELSE vec[x]]

\* build_graph's first pass registers every node, its second adds the links;
\* a link to an id that is not in the list dangles.
Register(graph, list) ==
  [i \in DOMAIN graph \cup IdsIn(list) |-> IF i \in DOMAIN graph THEN graph[i] ELSE {}]

LinksFrom(list, i) == UNION {Links[list[p].content] : p \in WithId(list, i)}

AddLinks(graph, list, ids) ==
  [i \in DOMAIN graph |->
     graph[i] \cup (IF i \in ids THEN LinksFrom(list, i) ELSE {})]

Dangling(list, ids) ==
  UNION {{<<i, l>> : l \in LinksFrom(list, i) \ IdsIn(list)} : i \in ids}

\* Index state built from a list by an undisturbed pass.
VectorsOf(list) == AddChunks(Nothing, list)
GraphOf(list) == AddLinks(Register(Nothing, list), list, IdsIn(list))

-----------------------------------------------------------------------------
\* KnowledgeBase._changes.

Report == [added : SUBSET Ids, changed : SUBSET Ids, deleted : SUBSET Ids]
NoReport == [added |-> {}, changed |-> {}, deleted |-> {}]

\* (Mutant of Changes: a note that moved counts as added and deleted.)
ChangesNoMoves(previous, current) ==
  LET now == DOMAIN current
      before == DOMAIN previous
  IN  [added |-> {Stem[p] : p \in now \ before},
       changed |-> {Stem[p] : p \in {q \in now \cap before : current[q] # previous[q]}},
       deleted |-> {Stem[p] : p \in before \ now}]

Changes(previous, current) ==
  LET now == DOMAIN current
      before == DOMAIN previous
      added == {Stem[p] : p \in now \ before}
      deleted == {Stem[p] : p \in before \ now}
      changed == {Stem[p] : p \in {q \in now \cap before : current[q] # previous[q]}}
      moved == added \cap deleted
  IN  [added |-> added \ moved, changed |-> changed \cup moved, deleted |-> deleted \ moved]

\* (Mutant of Merge: a changed note is taken from the store, too.)
MergeAllButAdded(list, changes, st) ==
  [p \in DOMAIN list |->
     IF IdOf(list[p]) \in DOMAIN st \ changes.added
       THEN st[IdOf(list[p])] ELSE list[p]]

\* index_vault, incremental: an unchanged note is taken from the store.
Merge(list, changes, st) ==
  [p \in DOMAIN list |->
     IF IdOf(list[p]) \in DOMAIN st \ (changes.added \cup changes.changed)
       THEN st[IdOf(list[p])] ELSE list[p]]

-----------------------------------------------------------------------------
\* Ghosts, read by the properties only.
\*
\* ghost[t] describes thread t's run: nobody else's run overlapped it (alone),
\* no file changed since it began, its own PATCH apart (still), and `calm` when
\* it began (base).
\*
\* calm = 1: the last run was undisturbed and no two of its notes had one id, so
\* store, vectors, graph and snapshots should agree.  calm = 2: they should also
\* agree with the files.  Of two notes of one id a database refuses the second;
\* in memory the store keeps one while vectors, graph and snapshots have both,
\* and calm is 0 after such a run.

Ghost == [alone : BOOLEAN, still : BOOLEAN, base : 0..2]

NoGhost == [alone |-> TRUE, still |-> TRUE, base |-> 0]

Active == {t \in Threads : pc[t] # "idle"}

\* A run begins on t: every other run in progress is no longer alone.
GhostBegin(t) ==
  /\ ghost' = [u \in Threads |->
                 IF u = t THEN [alone |-> Active = {}, still |-> TRUE, base |-> calm]
                 ELSE IF u \in Active THEN [ghost[u] EXCEPT !.alone = FALSE]
                                      ELSE ghost[u]]
  /\ calm' = 0

\* A file changed outside a PATCH.
GhostEdit ==
  /\ ghost' = [u \in Threads |-> IF u \in Active THEN [ghost[u] EXCEPT !.still = FALSE]
                                                ELSE ghost[u]]
  /\ calm' = Min({calm, 1})

\* t's run ended well.
GhostDone(t) ==
  /\ calm' = IF ghost[t].alone /\ Active = {t} /\ DistinctIds(notes[t])
               THEN IF ghost[t].still /\ (job[t].kind = "full" \/ ghost[t].base >= 1)
                      THEN 2 ELSE 1
               ELSE 0
  /\ ghost' = [ghost EXCEPT ![t] = NoGhost]

\* t's run failed: before it touched the index, or half way through it.
GhostFailed(t, untouched) ==
  /\ calm' = IF untouched /\ ghost[t].alone
               THEN IF ghost[t].still /\ job[t].kind # "patch"
                      THEN ghost[t].base ELSE Min({ghost[t].base, 1})
               ELSE 0
  /\ ghost' = [ghost EXCEPT ![t] = NoGhost]

-----------------------------------------------------------------------------
\* Threads.

NoJob == [kind |-> "none", id |-> 0, path |-> 1, content |-> NoContent]

Goto(t, label) == pc' = [pc EXCEPT ![t] = label]

\* The call returns or raises: the thread is free, its locals are gone.
Return(t) ==
  /\ Goto(t, "idle")
  /\ job' = [job EXCEPT ![t] = NoJob]
  /\ walk' = [walk EXCEPT ![t] = 1]
  /\ listed' = [listed EXCEPT ![t] = {}]
  /\ notes' = [notes EXCEPT ![t] = Nothing]
  /\ report' = [report EXCEPT ![t] = NoReport]

\* publish index_failed and raise.
Fail(t, untouched) ==
  /\ Return(t)
  /\ GhostFailed(t, untouched)
  /\ UNCHANGED <<fileVars, answer, runs, restarts>>

Stay(t) == UNCHANGED <<fileVars, job, walk, listed, notes, report, answer, runs, restarts,
                      ghostVars>>

\* POST /notes/index, GET /notes/index or the watcher's callback.
Begin(t, kind) ==
  /\ pc[t] = "idle" /\ runs < MaxRuns
  /\ runs' = runs + 1
  /\ job' = [job EXCEPT ![t] = [NoJob EXCEPT !.kind = kind]]
  /\ answer' = [answer EXCEPT ![t] = NoContent]
  /\ Goto(t, "walk")
  /\ GhostBegin(t)
  /\ UNCHANGED <<fileVars, indexVars, walk, listed, notes, report, restarts>>

\* PATCH /notes/{id}: the note is looked up and its file located.
BeginPatch(t, i, c) ==
  /\ pc[t] = "idle" /\ runs < MaxRuns
  /\ i \in DOMAIN store
  /\ runs' = runs + 1
  /\ job' = [job EXCEPT ![t] =
               [kind |-> "patch", id |-> i, path |-> store[i].path, content |-> c]]
  /\ answer' = [answer EXCEPT ![t] = NoContent]
  /\ Goto(t, "write")
  /\ GhostBegin(t)
  /\ UNCHANGED <<fileVars, indexVars, walk, listed, notes, report, restarts>>

\* target.write_text(content): the file is written before anything is indexed.
\* In one step: that others may find it truncated before the text is there is
\* what an EditFile just before the write shows them.
WriteFile(t) ==
  /\ pc[t] = "write"
  /\ files' = [files EXCEPT ![job[t].path] = job[t].content]
  /\ ghost' = [u \in Threads |->
                 IF u \in Active \ {t} THEN [ghost[u] EXCEPT !.still = FALSE]
                                     ELSE ghost[u]]
  /\ Goto(t, "walk")
  /\ UNCHANGED <<indexVars, job, walk, listed, notes, report, answer, runs, restarts,
                 calm, edits>>

\* os.walk lists the next folder, once the files of the last one are read.
ListFolder(t) ==
  /\ pc[t] = "walk" /\ listed[t] = {} /\ walk[t] <= NumFolders
  /\ listed' = [listed EXCEPT ![t] = {p \in Paths : Folder[p] = walk[t] /\ files[p] # Absent}]
  /\ walk' = [walk EXCEPT ![t] = @ + 1]
  /\ UNCHANGED <<fileVars, indexVars, pc, job, notes, report, answer, runs, restarts, ghostVars>>

\* parse_directory reads and parses the first file listed.
ReadFile(t) ==
  /\ pc[t] = "walk" /\ listed[t] # {}
  /\ LET p == Min(listed[t])
     IN  /\ files[p] \in Contents
         /\ notes' = [notes EXCEPT ![t] =
              [q \in DOMAIN @ \cup {p} |->
                 IF q = p THEN [path |-> p, content |-> files[p]] ELSE @[q]]]
         /\ listed' = [listed EXCEPT ![t] = @ \ {p}]
  /\ UNCHANGED <<fileVars, indexVars, pc, job, walk, report, answer, runs, restarts, ghostVars>>

\* It is a file parse_directory refuses, or one deleted since it was listed.
WalkRaises(t) ==
  /\ pc[t] = "walk" /\ listed[t] # {}
  /\ files[Min(listed[t])] \in {Absent, Unreadable}
  /\ Fail(t, TRUE)
  /\ UNCHANGED indexVars

\* changes = self._changes(state, notes)
Compare(t) ==
  /\ pc[t] = "walk" /\ listed[t] = {} /\ walk[t] > NumFolders
  /\ report' = [report EXCEPT ![t] = Changes(snapshots, Snap(notes[t]))]
  /\ Goto(t, IF job[t].kind = "full" THEN "replace" ELSE "merge")
  /\ UNCHANGED <<fileVars, indexVars, job, walk, listed, notes, answer, runs, restarts,
                 ghostVars>>

\* if incremental and state.snapshots: merge with the store's notes.
MergeNotes(t) ==
  /\ pc[t] = "merge"
  /\ notes' = [notes EXCEPT ![t] =
       IF DOMAIN snapshots = {} THEN @ ELSE Merge(@, report[t], store)]
  /\ Goto(t, "replace")
  /\ UNCHANGED <<fileVars, indexVars, job, walk, listed, report, answer, runs, restarts,
                 ghostVars>>

\* note_store.replace_all(notes): one dict assignment or one transaction.
Replace(t) ==
  /\ pc[t] = "replace"
  /\ Sqlite => DistinctIds(notes[t])
  /\ store' = ById(notes[t])
  /\ Goto(t, "clear")
  /\ Stay(t)
  /\ UNCHANGED <<vectors, adj, dangling, snapshots, disk>>

\* The transaction fails and is rolled back: the database is locked, or two
\* notes have one id and the unique constraint refuses the second.
ReplaceRaises(t) ==
  /\ pc[t] = "replace"
  /\ Sqlite /\ (WritesCanFail \/ ~DistinctIds(notes[t]))
  /\ Fail(t, TRUE)
  /\ UNCHANGED indexVars

\* (Mutant of ClearVectors: the store is not cleared.)
ClearNothing(t) ==
  /\ pc[t] = "clear"
  /\ Goto(t, "add")
  /\ Stay(t)
  /\ UNCHANGED indexVars

\* build_vector_store: store.clear() ...
ClearVectors(t) ==
  /\ pc[t] = "clear"
  /\ vectors' = Nothing
  /\ Goto(t, "add")
  /\ Stay(t)
  /\ UNCHANGED <<store, adj, dangling, snapshots, disk>>

\* ... then every chunk of every note is added.  This loop and the two of the
\* graph are one step each here; Retrieval has them item by item, under runs
\* that clear and reset in the middle of them.
AddVectors(t) ==
  /\ pc[t] = "add"
  /\ vectors' = AddChunks(vectors, notes[t])
  /\ Goto(t, "reset")
  /\ Stay(t)
  /\ UNCHANGED <<store, adj, dangling, snapshots, disk>>

\* build_graph: the old graph is dropped ...
ResetGraph(t) ==
  /\ pc[t] = "reset"
  /\ adj' = Nothing
  /\ dangling' = {}
  /\ Goto(t, "register")
  /\ Stay(t)
  /\ UNCHANGED <<store, vectors, snapshots, disk>>

\* ... the nodes are registered ...
RegisterNodes(t) ==
  /\ pc[t] = "register"
  /\ adj' = Register(adj, notes[t])
  /\ Goto(t, "resolve")
  /\ Stay(t)
  /\ UNCHANGED <<store, vectors, dangling, snapshots, disk>>

\* Notes with links whose node another thread's reset took away.
Unregistered(t) == {i \in IdsIn(notes[t]) \ DOMAIN adj : LinksFrom(notes[t], i) # {}}

\* ... and their links are resolved.
ResolveLinks(t) ==
  /\ pc[t] = "resolve"
  /\ Unregistered(t) = {}
  /\ adj' = AddLinks(adj, notes[t], IdsIn(notes[t]))
  /\ dangling' = dangling \cup Dangling(notes[t], IdsIn(notes[t]))
  /\ Goto(t, "snapshot")
  /\ Stay(t)
  /\ UNCHANGED <<store, vectors, snapshots, disk>>

\* self.adj_list[key] raises KeyError; the notes before it are linked.
ResolveRaises(t) ==
  /\ pc[t] = "resolve"
  /\ Unregistered(t) # {}
  /\ LET done == {i \in IdsIn(notes[t]) : \A m \in Unregistered(t) : i < m}
     IN  /\ adj' = AddLinks(adj, notes[t], done)
         /\ dangling' = dangling \cup Dangling(notes[t], done)
  /\ Fail(t, FALSE)
  /\ UNCHANGED <<store, vectors, snapshots, disk>>

\* state.snapshots = self._snapshots(notes)
TakeSnapshots(t) ==
  /\ pc[t] = "snapshot"
  /\ snapshots' = Snap(notes[t])
  /\ Goto(t, "save")
  /\ Stay(t)
  /\ UNCHANGED <<store, vectors, adj, dangling, disk>>

\* save_snapshots(vault_id, state.snapshots), then index_completed.
Save(t) ==
  /\ pc[t] = "save"
  /\ disk' = IF Sqlite THEN snapshots ELSE disk
  /\ IF job[t].kind = "patch"
       THEN Goto(t, "answer")
            /\ UNCHANGED <<ghostVars, job, walk, listed, notes, report>>
       ELSE Return(t) /\ GhostDone(t)
  /\ UNCHANGED <<fileVars, store, vectors, adj, dangling, snapshots, answer, runs, restarts>>

SaveRaises(t) ==
  /\ pc[t] = "save"
  /\ Sqlite /\ WritesCanFail
  /\ Fail(t, FALSE)
  /\ UNCHANGED indexVars

\* updated = get_note(id); note_changed; return updated or parsed.
Answer(t) ==
  /\ pc[t] = "answer"
  /\ answer' = [answer EXCEPT ![t] =
       IF job[t].id \in DOMAIN store THEN store[job[t].id].content ELSE job[t].content]
  /\ Return(t)
  /\ GhostDone(t)
  /\ UNCHANGED <<fileVars, indexVars, runs, restarts>>

-----------------------------------------------------------------------------
\* The world around the threads.

SameStem(p) == {q \in Paths \ {p} : Stem[q] = Stem[p]}

\* A user creates, rewrites or deletes a file, or leaves an unreadable one.
EditFile(p, c) ==
  /\ edits < MaxEdits
  /\ files[p] # c
  /\ AllowDuplicates \/ c = Absent \/ \A q \in SameStem(p) : files[q] = Absent
  /\ files' = [files EXCEPT ![p] = c]
  /\ edits' = edits + 1
  /\ GhostEdit
  /\ UNCHANGED <<indexVars, threadVars, restarts>>

\* A user moves a file to another folder.
MoveFile(p, q) ==
  /\ edits < MaxEdits
  /\ q \in SameStem(p) /\ files[p] \in Contents /\ files[q] = Absent
  /\ files' = [files EXCEPT ![p] = Absent, ![q] = files[p]]
  /\ edits' = edits + 1
  /\ GhostEdit
  /\ UNCHANGED <<indexVars, threadVars, restarts>>

\* The process dies.  The next one loads the snapshots and, where the notes
\* are in the database and there are any, rebuilds vectors, graph and
\* snapshots from them (reindex_from_store in the lifespan).
Restart ==
  /\ restarts < MaxRestarts
  /\ restarts' = restarts + 1
  /\ store' = IF Sqlite THEN store ELSE Nothing
  /\ LET list == Listed(store')
     IN  /\ vectors' = VectorsOf(list)
         /\ adj' = GraphOf(list)
         /\ dangling' = Dangling(list, IdsIn(list))
         /\ snapshots' = IF list = Nothing THEN disk ELSE Snap(list)
  /\ pc' = [t \in Threads |-> "idle"]
  /\ job' = [t \in Threads |-> NoJob]
  /\ walk' = [t \in Threads |-> 1]
  /\ listed' = [t \in Threads |-> {}]
  /\ notes' = [t \in Threads |-> Nothing]
  /\ report' = [t \in Threads |-> NoReport]
  /\ ghost' = [t \in Threads |-> NoGhost]
  /\ calm' = IF DOMAIN store' # {} THEN 1 ELSE 0
  /\ UNCHANGED <<fileVars, disk, answer, runs>>

Init ==
  /\ files = [p \in Paths |-> Absent]
  /\ store = Nothing /\ vectors = Nothing /\ adj = Nothing /\ dangling = {}
  /\ snapshots = Nothing /\ disk = Nothing
  /\ pc = [t \in Threads |-> "idle"]
  /\ job = [t \in Threads |-> NoJob]
  /\ walk = [t \in Threads |-> 1]
  /\ listed = [t \in Threads |-> {}]
  /\ notes = [t \in Threads |-> Nothing]
  /\ report = [t \in Threads |-> NoReport]
  /\ ghost = [t \in Threads |-> NoGhost]
  /\ answer = [t \in Threads |-> NoContent]
  /\ calm = 2
  /\ edits = 0 /\ runs = 0 /\ restarts = 0

Request(t) ==
  \/ \E kind \in {"full", "incremental"} : Begin(t, kind)
  \/ \E i \in Ids, c \in Contents : BeginPatch(t, i, c)

Step(t) ==
  \/ WriteFile(t) \/ ListFolder(t) \/ ReadFile(t) \/ WalkRaises(t)
  \/ Compare(t) \/ MergeNotes(t) \/ Replace(t) \/ ReplaceRaises(t)
  \/ ClearVectors(t) \/ AddVectors(t)
  \/ ResetGraph(t) \/ RegisterNodes(t) \/ ResolveLinks(t) \/ ResolveRaises(t)
  \/ TakeSnapshots(t) \/ Save(t) \/ SaveRaises(t) \/ Answer(t)

World ==
  \/ \E p \in Paths, c \in Contents \cup {Absent, Unreadable} : EditFile(p, c)
  \/ \E p, q \in Paths : MoveFile(p, q)
  \/ Restart

Next == World \/ \E t \in Threads : Request(t) \/ Step(t)

Spec == Init /\ [][Next]_vars

-----------------------------------------------------------------------------
\* Properties.

\* Vectors, graph and snapshots describe the notes of the store.
VectorsAgree == vectors = VectorsOf(Listed(store))
GraphAgrees == /\ adj = GraphOf(Listed(store))
               /\ dangling = Dangling(Listed(store), IdsIn(Listed(store)))
SnapshotsAgree == snapshots = Snap(Listed(store))

\* The files as an undisturbed walk reads them.
FileList == [p \in {q \in Paths : files[q] # Absent} |-> [path |-> p, content |-> files[p]]]

\* However wrong concurrent runs, failures and restarts have left the index,
\* it heals: after one undisturbed run, full or incremental, of notes with
\* distinct ids its parts agree with each other; after one such full run, or two
\* incremental ones, with no file changed since, they agree with the files.
\* So an incremental run ends where a full run would.
Heals ==
  Active = {} =>
    /\ calm >= 1 => VectorsAgree /\ GraphAgrees /\ SnapshotsAgree
    /\ calm = 2 => store = ById(FileList)

\* An undisturbed incremental run that starts from an index whose parts agree
\* reports exactly the notes that differ between the store and the files: an
\* id that is only in the files is added, one only in the store is deleted,
\* one whose text or path differs is changed, and no id is named twice.
ReportIsExact ==
  \A t \in Threads :
    (pc[t] = "merge" /\ ghost[t].alone /\ ghost[t].base >= 1 /\ DistinctIds(notes[t])) =>
      LET parsed == ById(notes[t])
      IN  report[t] =
            [added |-> DOMAIN parsed \ DOMAIN store,
             deleted |-> DOMAIN store \ DOMAIN parsed,
             changed |-> {i \in DOMAIN parsed \cap DOMAIN store : parsed[i] # store[i]}]

\* An undisturbed PATCH on an index whose parts agree answers with the text it
\* was given, not with what the store held before.
PatchAnswersNewText ==
  [][\A t \in Threads :
       (/\ Answer(t) /\ ghost[t].alone /\ ghost[t].still /\ ghost[t].base >= 1
        /\ DistinctIds(notes[t]))
         => answer'[t] = job[t].content]_vars
=============================================================================
