----------------------------- MODULE Migrations -----------------------------
(***************************************************************************)
(* The schema of the database: the two Alembic revisions, their downgrades *)
(* and the create_all the application runs at every start.                 *)
(*                                                                         *)
(* Each of them is a list of SQL statements, run one at a time and cut     *)
(* short by a statement the database refuses or by a crash.  On PostgreSQL *)
(* a command is one transaction.  On SQLite a statement that only changes  *)
(* the schema is kept at once, until the first INSERT or UPDATE of a       *)
(* revision opens a transaction, which ends with the revision.             *)
(*                                                                         *)
(* A note's row is its key columns: an id, a note id and, once notes are   *)
(* scoped, a vault.  A note has at most one chunk, with the same id.       *)
(***************************************************************************)
EXTENDS Sequences, SequencesExt, FiniteSets, Naturals

CONSTANTS Vaults, Default, NoteIds,
          MaxCommands, MaxCrashes, MaxWrites   \* bounds

ASSUME DefaultAssumption == Default \in Vaults

VARIABLES
  backend,    \* "postgresql" or "sqlite"
  db,         \* the database as the running command sees it
  committed,  \* the database as a crash or a refused statement leaves it
  inTxn,      \* the running command is in a transaction
  todo,       \* statements the running command has left
  command,    \* the running command, or the last one
  dirty,      \* the unfinished command has changed the database for good
  torn,       \* a command stopped while dirty
  mixed,      \* create_all has made tables in a database below head
  refused,    \* an Alembic command has been refused
  kept,       \* ids of the rows of notes that have to be kept
  keptChunks, \* ids of the rows of chunks that have to be kept
  commands, crashes, writes

vars == <<backend, db, committed, inTxn, todo, command, dirty, torn, mixed,
          refused, kept, keptChunks, commands, crashes, writes>>

bounds == <<commands, crashes, writes>>

Base == "base"
Revision1 == "0001_initial"
Revision2 == "0002_milestones"

-----------------------------------------------------------------------------
(* Statements. *)

\* refs maps a referenced table to the columns the foreign key names.
CreateTable(t, key, refs) ==
  [op |-> "create_table", name |-> t, key |-> key, refs |-> refs]
CreateIndex(i, t) == [op |-> "create_index", name |-> i, table |-> t]
DropIndex(i) == [op |-> "drop_index", name |-> i]
DropTable(t) == [op |-> "drop_table", name |-> t]
Rename(t, new) == [op |-> "rename_table", name |-> t, to |-> new]
Insert(t, row) == [op |-> "insert", name |-> t, row |-> row]
CopyAsDefault(t, from) == [op |-> "copy_as_default", name |-> t, from |-> from]
CopyOfDefault(t, from) == [op |-> "copy_of_default", name |-> t, from |-> from]
Stamp(v) == [op |-> "stamp", name |-> v]

Indexes(t, names) == [i \in DOMAIN names |-> CreateIndex(names[i], t)]
DropIndexes(names) == [i \in DOMAIN names |-> DropIndex(names[i])]
NoRefs == [t \in {} |-> {}]
VaultKey == {"vault"}
ScopedKey == {"vault", "note"}
InVault == [t \in {"vaults"} |-> VaultKey]
OfNote == [t \in {"vaults", "notes"} |-> IF t = "vaults" THEN VaultKey ELSE ScopedKey]
OfCard == [t \in {"vaults", "flashcards"} |->
             IF t = "vaults" THEN VaultKey ELSE ScopedKey]

Upgrade1 ==
     <<CreateTable("notes", {"note"}, NoRefs)>>
  \o Indexes("notes", <<"ix_notes_note_id", "ix_notes_content_hash">>)
  \o <<CreateTable("note_chunks", {"note"}, [t \in {"notes"} |-> {"note"}])>>
  \o Indexes("note_chunks", <<"ix_note_chunks_chunk_id", "ix_note_chunks_note_id",
                              "ix_note_chunks_content_hash">>)

Downgrade1 == <<DropTable("note_chunks"), DropTable("notes")>>

MilestoneTables ==
     <<CreateTable("file_snapshots", ScopedKey, InVault),
       CreateIndex("ix_snapshot_vault_hash", "file_snapshots"),
       CreateTable("saved_searches", ScopedKey, InVault),
       CreateTable("flashcards", ScopedKey, OfNote),
       CreateTable("flashcard_review_state", ScopedKey, OfCard),
       CreateTable("watcher_state", VaultKey, InVault),
       CreateTable("knowledge_events", ScopedKey, InVault)>>
  \o Indexes("knowledge_events", <<"ix_knowledge_events_event_type",
                                   "ix_events_vault_created">>)

\* (Mutant of PutAside: the old indexes keep the names the new ones need.)
PutAsideWithIndexes ==
  <<Rename("note_chunks", "note_chunks_legacy"), Rename("notes", "notes_legacy")>>
PutAside ==
     DropIndexes(<<"ix_note_chunks_chunk_id", "ix_note_chunks_note_id",
                   "ix_note_chunks_content_hash", "ix_notes_note_id",
                   "ix_notes_content_hash">>)
  \o <<Rename("note_chunks", "note_chunks_legacy"), Rename("notes", "notes_legacy")>>

\* (Mutant of ScopedNotes: no index on the pair of vault and note.)
ScopedNotesUnindexed ==
     <<CreateTable("notes", ScopedKey, InVault)>>
  \o Indexes("notes", <<"ix_notes_vault_id", "ix_notes_note_id", "ix_notes_content_hash">>)
  \o <<CopyAsDefault("notes", "notes_legacy")>>
ScopedNotes ==
     <<CreateTable("notes", ScopedKey, InVault)>>
  \o Indexes("notes", <<"ix_notes_vault_id", "ix_notes_note_id",
                        "ix_notes_vault_note", "ix_notes_content_hash">>)
  \o <<CopyAsDefault("notes", "notes_legacy")>>

ChunkIndexes == <<"ix_note_chunks_vault_id", "ix_note_chunks_chunk_id",
                  "ix_note_chunks_note_id", "ix_chunks_vault_note",
                  "ix_note_chunks_content_hash">>
\* (Mutant of ScopedChunks: the chunks are not copied.)
ScopedChunksEmpty ==
     <<CreateTable("note_chunks", ScopedKey, OfNote)>>
  \o Indexes("note_chunks", ChunkIndexes)
ScopedChunks ==
     <<CreateTable("note_chunks", ScopedKey, OfNote)>>
  \o Indexes("note_chunks", ChunkIndexes)
  \o <<CopyAsDefault("note_chunks", "note_chunks_legacy")>>

Upgrade2 ==
     PutAside
  \o <<CreateTable("vaults", VaultKey, NoRefs),
       CreateIndex("ix_vaults_vault_id", "vaults"),
       Insert("vaults", [id |-> <<Default>>, vault |-> Default])>>
  \o ScopedNotes \o ScopedChunks
  \o <<DropTable("note_chunks_legacy"), DropTable("notes_legacy")>>
  \o MilestoneTables

Downgrade2 ==
     DropIndexes(<<"ix_events_vault_created", "ix_knowledge_events_event_type">>)
  \o <<DropTable("knowledge_events"), DropTable("watcher_state"),
       DropTable("flashcard_review_state"), DropTable("flashcards"),
       DropTable("saved_searches"), DropIndex("ix_snapshot_vault_hash"),
       DropTable("file_snapshots")>>
  \o DropIndexes(ChunkIndexes)
  \o DropIndexes(<<"ix_notes_vault_id", "ix_notes_note_id", "ix_notes_vault_note",
                   "ix_notes_content_hash">>)
  \o <<Rename("note_chunks", "note_chunks_scoped"), Rename("notes", "notes_scoped"),
       CreateTable("notes", {"note"}, NoRefs)>>
  \o Indexes("notes", <<"ix_notes_note_id", "ix_notes_content_hash">>)
  \o <<CopyOfDefault("notes", "notes_scoped"),
       CreateTable("note_chunks", {"note"}, [t \in {"notes"} |-> {"note"}])>>
  \o Indexes("note_chunks", <<"ix_note_chunks_chunk_id", "ix_note_chunks_note_id",
                              "ix_note_chunks_content_hash">>)
  \o <<CopyOfDefault("note_chunks", "note_chunks_scoped"),
       DropTable("note_chunks_scoped"), DropTable("notes_scoped"),
       DropTable("vaults")>>

-----------------------------------------------------------------------------
(* The models: tables in the order create_all makes them. *)

Model(t, key, refs, indexes) ==
  [name |-> t, key |-> key, refs |-> refs, indexes |-> indexes]

Models == <<
  Model("vaults", VaultKey, NoRefs, <<"ix_vaults_vault_id">>),
  Model("notes", ScopedKey, InVault,
        <<"ix_notes_vault_note", "ix_notes_vault_id", "ix_notes_note_id",
          "ix_notes_content_hash">>),
  Model("note_chunks", ScopedKey, OfNote,
        <<"ix_chunks_vault_note", "ix_note_chunks_vault_id", "ix_note_chunks_chunk_id",
          "ix_note_chunks_note_id", "ix_note_chunks_content_hash">>),
  Model("file_snapshots", ScopedKey, InVault, <<"ix_snapshot_vault_hash">>),
  Model("saved_searches", ScopedKey, InVault, <<>>),
  Model("flashcards", ScopedKey, OfNote, <<>>),
  Model("flashcard_review_state", ScopedKey, OfCard, <<>>),
  Model("watcher_state", VaultKey, InVault, <<>>),
  Model("knowledge_events", ScopedKey, InVault,
        <<"ix_events_vault_created", "ix_knowledge_events_event_type">>)>>

\* create_all looks first which tables are missing.
CreateAll(d) ==
  LET Made(i) == IF Models[i].name \in DOMAIN d.tables THEN <<>>
                 ELSE    <<CreateTable(Models[i].name, Models[i].key, Models[i].refs)>>
                      \o Indexes(Models[i].name, Models[i].indexes)
  IN     Made(1) \o Made(2) \o Made(3) \o Made(4) \o Made(5) \o Made(6)
      \o Made(7) \o Made(8) \o Made(9)

-----------------------------------------------------------------------------
(* What a database does with a statement. *)

Without(f, S) == [x \in DOMAIN f \ S |-> f[x]]
With(f, k, v) == [x \in DOMAIN f \cup {k} |-> IF x = k THEN v ELSE f[x]]
Project(row, columns) == [c \in columns |-> row[c]]

Scoped(row) == [id |-> row.id, vault |-> Default, note |-> row.note]
Unscoped(row) == [id |-> row.id, note |-> row.note]

\* (Mutant of RowsOf: a downgrade copies the notes of every vault.)
RowsOfAnyVault(d, s) ==
  CASE s.op = "insert" -> {s.row}
    [] s.op = "copy_as_default" -> {Scoped(r) : r \in d.tables[s.from].rows}
    [] OTHER -> {Unscoped(r) : r \in d.tables[s.from].rows}
RowsOf(d, s) ==
  CASE s.op = "insert" -> {s.row}
    [] s.op = "copy_as_default" -> {Scoped(r) : r \in d.tables[s.from].rows}
    [] OTHER -> {Unscoped(r) : r \in {x \in d.tables[s.from].rows : x.vault = Default}}

\* The rows of t have to name rows the tables it refers to have.
ReferencesHold(d, t) ==
  \A u \in DOMAIN d.tables[t].refs :
    \A r \in d.tables[t].rows :
      \E x \in d.tables[u].rows :
        Project(x, d.tables[t].refs[u]) = Project(r, d.tables[t].refs[u])

Unique(rows, key) ==
  \A r1, r2 \in rows : (r1.id = r2.id \/ Project(r1, key) = Project(r2, key)) => r1 = r2

ReferredTo(d, t) == \E u \in DOMAIN d.tables \ {t} : t \in DOMAIN d.tables[u].refs

Renamed(refs, t, new) ==
  [u \in {IF x = t THEN new ELSE x : x \in DOMAIN refs} |->
     IF u = new THEN refs[t] ELSE refs[u]]

After(d, s) ==
  LET t == d.tables IN
  CASE s.op = "create_table" ->
         [d EXCEPT !.tables = With(t, s.name, [key |-> s.key, refs |-> s.refs, rows |-> {}])]
    [] s.op = "create_index" -> [d EXCEPT !.indexes = With(d.indexes, s.name, s.table)]
    [] s.op = "drop_index" -> [d EXCEPT !.indexes = Without(d.indexes, {s.name})]
    [] s.op = "drop_table" ->
         [d EXCEPT !.tables = Without(t, {s.name}),
                   !.indexes = Without(d.indexes,
                                 {i \in DOMAIN d.indexes : d.indexes[i] = s.name})]
    [] s.op = "rename_table" ->
         [d EXCEPT !.tables =
                     [u \in (DOMAIN t \ {s.name}) \cup {s.to} |->
                        LET old == t[IF u = s.to THEN s.name ELSE u] IN
                        IF s.name \in DOMAIN old.refs
                          THEN [old EXCEPT !.refs = Renamed(old.refs, s.name, s.to)]
                          ELSE old],
                   !.indexes = [i \in DOMAIN d.indexes |->
                                  IF d.indexes[i] = s.name THEN s.to ELSE d.indexes[i]]]
    [] s.op = "stamp" -> [d EXCEPT !.version = s.name]
    [] OTHER -> [d EXCEPT !.tables[s.name].rows = @ \cup RowsOf(d, s)]

\* PostgreSQL holds foreign keys, SQLite as it is opened here does not.
Accepts(d, s) ==
  LET enforced == backend = "postgresql" IN
  CASE s.op = "create_table" ->
         /\ s.name \notin DOMAIN d.tables
         /\ enforced => \A u \in DOMAIN s.refs :
                          u \in DOMAIN d.tables /\ d.tables[u].key = s.refs[u]
    [] s.op = "create_index" ->
         s.table \in DOMAIN d.tables /\ s.name \notin DOMAIN d.indexes
    [] s.op = "drop_index" -> s.name \in DOMAIN d.indexes
    [] s.op = "drop_table" ->
         s.name \in DOMAIN d.tables /\ (enforced => ~ReferredTo(d, s.name))
    [] s.op = "rename_table" -> s.name \in DOMAIN d.tables /\ s.to \notin DOMAIN d.tables
    [] s.op = "stamp" -> TRUE
    [] OTHER ->
         /\ s.name \in DOMAIN d.tables
         /\ s.op # "insert" => s.from \in DOMAIN d.tables
         /\ LET rows == After(d, s).tables[s.name].rows
            IN  Unique(rows, d.tables[s.name].key)
         /\ enforced => ReferencesHold(After(d, s), s.name)

WritesRows(s) == s.op \in {"insert", "copy_as_default", "copy_of_default", "stamp"}

-----------------------------------------------------------------------------
(* Commands. *)

Idle == todo = <<>>

Begin(name, program) ==
  /\ Idle /\ commands < MaxCommands
  /\ program # <<>>
  /\ command' = name
  /\ todo' = program
  /\ inTxn' = (backend = "postgresql")
  /\ commands' = commands + 1
  /\ UNCHANGED <<backend, db, committed, dirty, torn, mixed, refused, kept,
                 keptChunks, crashes, writes>>

\* alembic upgrade head
Upgrade ==
  Begin("upgrade",
           (IF db.version = Base THEN Upgrade1 \o <<Stamp(Revision1)>> ELSE <<>>)
        \o (IF db.version # Revision2 THEN Upgrade2 \o <<Stamp(Revision2)>> ELSE <<>>))

DownTo(target) == IF target = Base THEN "downgrade base" ELSE "downgrade 0001_initial"

\* alembic downgrade, to the first revision or to base
Downgrade(target) ==
  /\ target # db.version
  /\ Begin(DownTo(target),
           (IF db.version = Revision2 THEN Downgrade2 \o <<Stamp(Revision1)>> ELSE <<>>)
        \o (IF target = Base /\ db.version # Base
              THEN Downgrade1 \o <<Stamp(Base)>> ELSE <<>>))

\* check_db and SQLiteRuntimePersistence, at the start of the application
StartApp ==
  Begin("create_all", CreateAll(db))

\* What a statement kept for good leaves of the rows to keep: the second revision
\* undone keeps the default vault, the first one undone keeps nothing.
StillKept(ids, after) ==
  CASE command = DownTo(Base) /\ db.version = Revision1 -> {}
    [] db.version = Revision2 /\ after.version = Revision1 -> {i \in ids : i[1] = Default}
    [] OTHER -> ids

\* One statement is executed; the last of a revision, or of a command, commits.
Execute ==
  /\ ~Idle
  /\ Accepts(db, Head(todo))
  /\ LET s == Head(todo)
         after == After(db, s)
         ends == Len(todo) = 1 \/ (s.op = "stamp" /\ backend = "sqlite")
         keeps == ends \/ ~(inTxn \/ WritesRows(s))
     IN  /\ db' = after
         /\ committed' = IF keeps THEN after ELSE committed
         /\ inTxn' = ~keeps
         /\ dirty' = (~ends /\ (dirty \/ keeps))
         /\ mixed' = (mixed \/ (command = "create_all" /\ keeps /\ db.version # Revision2))
         /\ kept' = IF keeps THEN StillKept(kept, after) ELSE kept
         /\ keptChunks' = IF keeps THEN StillKept(keptChunks, after) ELSE keptChunks
  /\ todo' = Tail(todo)
  /\ UNCHANGED <<backend, command, torn, refused, bounds>>

\* Whatever was not committed is gone.
Abandon ==
  /\ db' = committed
  /\ todo' = <<>>
  /\ inTxn' = FALSE
  /\ dirty' = FALSE
  /\ torn' = (torn \/ dirty)
  /\ UNCHANGED <<backend, committed, command, mixed, kept, keptChunks, commands, writes>>

\* A refused statement raises out of Alembic; check_db falls back to memory.
Refuse ==
  /\ ~Idle
  /\ ~Accepts(db, Head(todo))
  /\ Abandon
  /\ refused' = (refused \/ command # "create_all")
  /\ UNCHANGED crashes

Crash ==
  /\ ~Idle /\ crashes < MaxCrashes
  /\ Abandon
  /\ crashes' = crashes + 1
  /\ UNCHANGED refused

-----------------------------------------------------------------------------
(* The application at work. *)

\* DatabaseNoteStore.replace_all for vault v.  It raises, and changes nothing,
\* when the tables are missing or not scoped.
StoreNotes(v, notes) ==
  LET ids == {<<v, n, writes + 1>> : n \in notes}
      rows == {[id |-> i, vault |-> v, note |-> i[2]] : i \in ids}
      Store(old) == {r \in old : r.vault # v} \cup rows
      t == committed.tables
      others(k) == {i \in k : i[1] # v}
  IN  /\ writes < MaxWrites
      /\ backend = "postgresql" => Idle       \* the migration holds its locks
      /\ ~inTxn
      /\ {"vaults", "notes", "note_chunks"} \subseteq DOMAIN t
      /\ t["notes"].key = ScopedKey /\ t["note_chunks"].key = ScopedKey
      /\ committed' = [committed EXCEPT
                         !.tables["vaults"].rows =
                           IF \E r \in @ : r.vault = v THEN @
                           ELSE @ \cup {[id |-> <<v>>, vault |-> v]},
                         !.tables["notes"].rows = Store(@),
                         !.tables["note_chunks"].rows = Store(@)]
      /\ db' = committed'
      /\ kept' = others(kept) \cup ids
      /\ keptChunks' = others(keptChunks) \cup ids
      /\ writes' = writes + 1
      /\ UNCHANGED <<backend, inTxn, todo, command, dirty, torn, mixed, refused,
                     commands, crashes>>

Empty == [tables |-> [t \in {} |-> {}], indexes |-> [i \in {} |-> ""], version |-> Base]

\* A database of the first release.
FirstRelease(notes, chunks) ==
  [tables |-> [t \in {"notes", "note_chunks"} |->
     [key |-> {"note"},
      refs |-> IF t = "notes" THEN NoRefs ELSE [u \in {"notes"} |-> {"note"}],
      rows |-> {[id |-> i, note |-> i[2]] : i \in IF t = "notes" THEN notes ELSE chunks}]],
   indexes |-> [i \in {"ix_notes_note_id", "ix_notes_content_hash", "ix_note_chunks_chunk_id",
                        "ix_note_chunks_note_id", "ix_note_chunks_content_hash"} |->
                  IF i \in {"ix_notes_note_id", "ix_notes_content_hash"} THEN "notes"
                  ELSE "note_chunks"],
   version |-> Revision1]

\* A database nobody has used, or one of the first release, with some notes.
Init ==
  /\ backend \in {"postgresql", "sqlite"}
  /\ \/ /\ db = Empty
        /\ kept = {} /\ keptChunks = {}
     \/ \E N \in SUBSET NoteIds : \E C \in SUBSET N :
          /\ kept = {<<Default, n, 0>> : n \in N}
          /\ keptChunks = {<<Default, n, 0>> : n \in C}
          /\ db = FirstRelease(kept, keptChunks)
  /\ committed = db
  /\ inTxn = FALSE /\ todo = <<>> /\ command = "none"
  /\ dirty = FALSE /\ torn = FALSE /\ mixed = FALSE /\ refused = FALSE
  /\ commands = 0 /\ crashes = 0 /\ writes = 0

Next ==
  \/ Upgrade
  \/ Downgrade(Base)
  \/ Downgrade(Revision1)
  \/ StartApp
  \/ Execute
  \/ Refuse
  \/ Crash
  \/ \E v \in Vaults, notes \in SUBSET NoteIds : StoreNotes(v, notes)

Spec == Init /\ [][Next]_vars

-----------------------------------------------------------------------------
(* Properties. *)

\* Where the rows of notes and chunks may be.
NoteTables == {"notes", "notes_legacy", "notes_scoped"}
ChunkTables == {"note_chunks", "note_chunks_legacy", "note_chunks_scoped"}

Run(d, program) == FoldLeft(After, d, program)
Shape(d) ==
  [tables |-> [t \in DOMAIN d.tables |-> [key |-> d.tables[t].key, refs |-> d.tables[t].refs]],
   indexes |-> d.indexes]

\* Undisturbed: no command stopped half way on SQLite, and the application was
\* not started on a database that Alembic had yet to bring to head.
Undisturbed == Idle /\ ~torn /\ ~mixed

\* The database has the tables, keys, references and indexes of its version, and
\* those of head are the ones the models declare: "uses the same models as
\* Alembic so migrations and runtime storage stay aligned".  On PostgreSQL this
\* holds after any crash.
SchemaMatchesVersion ==
  Undisturbed =>
    Shape(committed) =
      Shape(CASE committed.version = Base -> Empty
              [] committed.version = Revision1 -> Run(Empty, Upgrade1)
              [] OTHER -> Run(Empty, CreateAll(Empty)))

IdsIn(d, t) == IF t \in DOMAIN d.tables THEN {r.id : r \in d.tables[t].rows} ELSE {}

\* Whatever happens to a migration, on either database, the rows of the notes
\* and chunks it has to keep are in the database, under the table's own name or
\* the one it is put aside under.
NoRowLost ==
  /\ kept \subseteq UNION {IdsIn(committed, t) : t \in NoteTables}
  /\ keptChunks \subseteq UNION {IdsIn(committed, t) : t \in ChunkTables}

\* After a migration, up or down, the tables the application reads have exactly
\* the rows that had to be kept, each in the vault it belongs to (the default
\* one for the notes of the first release), and no chunk is without its note.
RowsInPlace ==
  Undisturbed /\ committed.version # Base =>
    /\ IdsIn(committed, "notes") = kept
    /\ IdsIn(committed, "note_chunks") = keptChunks
    /\ ReferencesHold(committed, "note_chunks")
    /\ committed.version = Revision2 =>
         \A t \in {"notes", "note_chunks"} :
           \A r \in committed.tables[t].rows : r.vault = r.id[1]

\* The database refuses a statement of a migration only when create_all made
\* tables below head, or when SQLite was left with half a migration.
RefusedOnlyIfDisturbed == refused => torn \/ mixed
=============================================================================
