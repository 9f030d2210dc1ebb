----------------------------- MODULE Processes -----------------------------
(***************************************************************************)
(* The API process and Celery workers over one PostgreSQL database.  Each  *)
(* process has a knowledge base of its own: the API makes one when it      *)
(* starts and keeps it, a worker makes one for every task.  The note store *)
(* and the vectors of a knowledge base are in the database or in its own   *)
(* memory, as the probe found when it was made; graph and snapshots are    *)
(* always its own.  The database may go away and come back, processes      *)
(* crash, and nothing keeps two runs of different processes apart.         *)
(*                                                                         *)
(* One vault; a note is its id and the version of its text, a vector the   *)
(* id and version it was computed from, and the graph and the snapshots    *)
(* are the notes they were made from.                                      *)
(***************************************************************************)
EXTENDS Integers, FiniteSets

CONSTANTS
  Ids, Versions,  \* of notes
  Api, Workers,   \* processes
  Pgvector,       \* the database has the vector extension
  MaxEdits, MaxRuns, MaxFaults  \* bounds

Processes == {Api} \cup Workers
ASSUME ProcessesAssumption == Ids \subseteq Nat /\ Api \notin Workers /\ Pgvector \in BOOLEAN

VARIABLES
  files,    \* the vault directory: a function from some ids to versions
  up,       \* the database answers
  rows,     \* notes in the database
  vecRows,  \* note_vectors
  kb,       \* kb[p]: p's knowledge base
  pc,       \* pc[p]: where p stands
  job,      \* job[p]: what p is doing
  last,     \* history: how the last run ended
  behind,   \* history: what the API keeps of its own may not be what is stored
  edits, runs, faults

vars == <<files, up, rows, vecRows, kb, pc, job, last, behind, edits, runs, faults>>
bounds == <<edits, runs, faults>>
tables == <<rows, vecRows>>

-----------------------------------------------------------------------------
Vault == UNION {[S -> Versions] : S \in SUBSET Ids}
None == [i \in {} |-> 0]

NoKb == [store |-> "none", vectors |-> "memory", notes |-> None, vecs |-> None,
         graph |-> None, snapshots |-> None]
NoJob == [task |-> "none", notes |-> None, parsed |-> None, todo |-> {}, alone |-> TRUE, fits |-> TRUE]

InDb(p) == kb[p].store = "db"
InPg(p) == kb[p].vectors = "pg"
Notes(p) == IF InDb(p) THEN rows ELSE kb[p].notes

Busy(p) == pc[p] \notin {"off", "idle"}
Quiet == \A p \in Processes : ~Busy(p)
At(p, step) == pc[p] = step
Goto(p, step) == pc' = [pc EXCEPT ![p] = step]

Ended(p, ok) ==
  [by |-> p, task |-> job[p].task, ok |-> ok, store |-> kb[p].store,
   vectors |-> kb[p].vectors, notes |-> job[p].notes, parsed |-> job[p].parsed,
   alone |-> job[p].alone, fits |-> job[p].fits]

\* The API serves on after a run, but does not come up when its start fails.
Serves(p, ok) == p = Api /\ (ok \/ job[p].task # "start")

Kept(p, ok, base) == IF Serves(p, ok) THEN base ELSE NoKb

\* A run ends; a worker's task is over and its knowledge base with it.
EndsWith(p, ok, base) ==
  /\ Goto(p, IF Serves(p, ok) THEN "idle" ELSE "off")
  /\ last' = Ended(p, ok)
  /\ job' = [job EXCEPT ![p] = NoJob]
  /\ kb' = [kb EXCEPT ![p] = Kept(p, ok, base)]
  /\ UNCHANGED <<files, up, tables, bounds>>
Ends(p, ok) == EndsWith(p, ok, kb[p])

\* The database is gone when p needs it.
Raises(p) == ~up /\ Ends(p, FALSE) /\ UNCHANGED behind
Elsewhere == UNCHANGED <<files, up, last, bounds>>

-----------------------------------------------------------------------------
(* Coming up. *)

\* Two runs at once mark each other.
Launch(p, step, task) ==
  /\ runs < MaxRuns /\ runs' = runs + 1
  /\ Goto(p, step)
  /\ job' = [q \in Processes |->
       IF q = p THEN [NoJob EXCEPT !.task = task, !.alone = Quiet, !.fits = ~behind]
       ELSE [job[q] EXCEPT !.alone = @ /\ ~Busy(q)]]
  /\ UNCHANGED <<files, up, tables, kb, last, behind, edits, faults>>

Start == At(Api, "off") /\ Launch(Api, "probe", "start")
Task(w, task) == At(w, "off") /\ Launch(w, "probe", task)
Request(task) == At(Api, "idle") /\ Launch(Api, "parse", task)

FirstStep(task) == IF task = "index" THEN "parse" ELSE "list"

\* check_db and build_store; whoever finds no database works in memory.
Probe(p) ==
  LET made == [NoKb EXCEPT !.store = IF up THEN "db" ELSE "memory"] IN
  /\ At(p, "probe")
  /\ behind' = IF p = Api THEN up ELSE behind
  /\ IF ~up /\ p = Api THEN EndsWith(p, TRUE, made)
     ELSE /\ kb' = [kb EXCEPT ![p] = made]
          /\ Goto(p, IF up THEN "setup" ELSE FirstStep(job[p].task))
          /\ UNCHANGED <<tables, job>> /\ Elsewhere

\* A failing setup is passed over: vectors stay in memory.
Setup(p) ==
  /\ At(p, "setup")
  /\ kb' = [kb EXCEPT ![p].vectors = IF up /\ Pgvector THEN "pg" ELSE "memory"]
  /\ Goto(p, FirstStep(job[p].task))
  /\ UNCHANGED <<tables, job, behind>> /\ Elsewhere

\* (Mutant of ListNotes: the start leaves graph and vectors for the first run.)
ListNothing(p) ==
  /\ At(p, "list")
  /\ Ends(p, TRUE)
  /\ behind' = IF p = Api THEN FALSE ELSE behind
\* reindex_from_store: without notes nothing is rebuilt.
ListNotes(p) ==
  /\ At(p, "list")
  /\ \/ InDb(p) /\ Raises(p)
     \/ /\ InDb(p) => up
        /\ Notes(p) = None
        /\ IF job[p].task = "start" THEN Ends(p, TRUE) /\ behind' = FALSE
           ELSE Goto(p, "report") /\ UNCHANGED <<tables, kb, job, behind>> /\ Elsewhere
     \/ /\ InDb(p) => up
        /\ Notes(p) # None
        /\ job' = [job EXCEPT ![p].notes = Notes(p)]
        /\ Goto(p, "clear")
        /\ UNCHANGED <<tables, kb, behind>> /\ Elsewhere

-----------------------------------------------------------------------------
(* Indexing. *)

Parse(p) ==
  /\ At(p, "parse")
  /\ job' = [job EXCEPT ![p].notes = files, ![p].parsed = files]
  /\ Goto(p, IF job[p].task = "incremental" /\ kb[p].snapshots # None THEN "merge" ELSE "replace")
  /\ UNCHANGED <<tables, kb, behind>> /\ Elsewhere

ChangedSince(old, new) == {i \in DOMAIN new : i \notin DOMAIN old \/ old[i] # new[i]}

\* (Mutant of Merged: only added notes are taken from the files.)
MergedButAdded(p) ==
  LET new == job[p].notes IN
  [i \in DOMAIN new |-> IF i \in DOMAIN Notes(p) THEN Notes(p)[i] ELSE new[i]]
\* What the snapshots call unchanged is taken from the store.
Merged(p) ==
  LET new == job[p].notes
      changed == ChangedSince(kb[p].snapshots, new)
  IN  [i \in DOMAIN new |-> IF i \notin changed /\ i \in DOMAIN Notes(p) THEN Notes(p)[i] ELSE new[i]]

Merge(p) ==
  /\ At(p, "merge")
  /\ \/ InDb(p) /\ Raises(p)
     \/ /\ InDb(p) => up
        /\ job' = [job EXCEPT ![p].notes = Merged(p)]
        /\ Goto(p, "replace")
        /\ UNCHANGED <<tables, kb, behind>> /\ Elsewhere

\* replace_all in the database is one transaction, which deletes what it sees
\* and inserts the notes; in memory it is an assignment.
Replace(p) ==
  /\ At(p, "replace")
  /\ \/ InDb(p) /\ Raises(p)
     \/ /\ InDb(p) /\ up
        /\ Goto(p, "open")
        /\ UNCHANGED <<tables, kb, job, behind>> /\ Elsewhere
     \/ /\ ~InDb(p)
        /\ kb' = [kb EXCEPT ![p].notes = job[p].notes]
        /\ behind' = (behind \/ p = Api)
        /\ Goto(p, "clear")
        /\ UNCHANGED <<tables, job>> /\ Elsewhere

\* Where the transactions of other processes stand once p's is committed.
Overtaken(p) == [q \in Processes |-> IF q # p /\ At(q, "open") THEN "late" ELSE pc[q]]

\* Rows that were committed since p's transaction deleted what it saw stay beside
\* its own, unless they share an id: then the insertion is refused.
Beside(p, unseen) ==
  [i \in DOMAIN job[p].notes \cup unseen |->
     IF i \in unseen THEN rows[i] ELSE job[p].notes[i]]
Unseen(p) == IF At(p, "late") THEN SUBSET (DOMAIN rows \ DOMAIN job[p].notes) ELSE {{}}

\* Two transactions at once may also wait for each other, and one is given up.
Conflicts(p) == At(p, "late") \/ \E q \in Processes \ {p} : pc[q] \in {"open", "late"}

Commit(p) ==
  /\ pc[p] \in {"open", "late"}
  /\ \/ Raises(p)
     \/ Conflicts(p) /\ Ends(p, FALSE) /\ UNCHANGED behind
     \/ /\ up
        /\ \E unseen \in Unseen(p) : rows' = Beside(p, unseen)
        /\ behind' = (behind \/ p = Api \/ InDb(Api))
        /\ pc' = [Overtaken(p) EXCEPT ![p] = "clear"]
        /\ UNCHANGED <<kb, vecRows, job>> /\ Elsewhere

\* (Mutant of Cleared: nothing is deleted.)
ClearedNot(vectors) == vectors
Cleared(vectors) == None
Added(vectors, i, v) == [j \in DOMAIN vectors \cup {i} |-> IF j = i THEN v ELSE vectors[j]]

Clear(p) ==
  /\ At(p, "clear")
  /\ \/ InPg(p) /\ Raises(p)
     \/ /\ InPg(p) => up
        /\ IF InPg(p) THEN vecRows' = Cleared(vecRows) /\ UNCHANGED kb
           ELSE kb' = [kb EXCEPT ![p].vecs = Cleared(@)] /\ UNCHANGED vecRows
        /\ job' = [job EXCEPT ![p].todo = DOMAIN job[p].notes]
        /\ Goto(p, "add")
        /\ UNCHANGED <<rows, behind>> /\ Elsewhere

\* The notes are sorted by id; each is a transaction of its own.
Add(p) == \E i \in job[p].todo :
  LET v == job[p].notes[i] IN
  /\ At(p, "add") /\ \A j \in job[p].todo : i <= j
  /\ \/ InPg(p) /\ Raises(p)
     \/ /\ InPg(p) => up
        /\ IF InPg(p) THEN vecRows' = Added(vecRows, i, v) /\ UNCHANGED kb
           ELSE kb' = [kb EXCEPT ![p].vecs = Added(@, i, v)] /\ UNCHANGED vecRows
        /\ job' = [job EXCEPT ![p].todo = @ \ {i}]
        /\ UNCHANGED <<rows, pc, behind>> /\ Elsewhere

\* build_graph and the snapshots: p's own.  The API's start is over with them.
BuildGraph(p) ==
  LET built == [kb[p] EXCEPT !.graph = job[p].notes, !.snapshots = job[p].notes] IN
  /\ At(p, "add") /\ job[p].todo = {}
  /\ behind' = IF p = Api THEN ~job[p].alone ELSE behind
  /\ IF job[p].task = "start" THEN EndsWith(p, TRUE, built)
     ELSE /\ kb' = [kb EXCEPT ![p] = built]
          /\ Goto(p, "report")
          /\ UNCHANGED <<tables, job>> /\ Elsewhere

\* The summary of a run, or the statistics of a reindex, count what is stored.
Report(p) ==
  /\ At(p, "report")
  /\ \/ InDb(p) /\ Raises(p)
     \/ (InDb(p) => up) /\ Ends(p, TRUE) /\ UNCHANGED behind

-----------------------------------------------------------------------------
(* Around them. *)

Edit(v) ==
  /\ edits < MaxEdits /\ edits' = edits + 1
  /\ v # files /\ files' = v
  /\ UNCHANGED <<up, tables, kb, pc, job, last, behind, runs, faults>>

ComesAndGoes ==
  /\ faults < MaxFaults /\ faults' = faults + 1
  /\ up' = ~up
  /\ UNCHANGED <<files, tables, kb, pc, job, last, behind, edits, runs>>

Crash(p) ==
  /\ faults < MaxFaults /\ faults' = faults + 1
  /\ ~At(p, "off") /\ Goto(p, "off")
  /\ kb' = [kb EXCEPT ![p] = NoKb]
  /\ job' = [job EXCEPT ![p] = NoJob]
  /\ last' = IF Busy(p) THEN [last EXCEPT !.ok = FALSE] ELSE last
  /\ UNCHANGED <<files, up, tables, behind, edits, runs>>

Init ==
  /\ files \in Vault /\ up \in BOOLEAN
  /\ rows = None /\ vecRows = None
  /\ kb = [p \in Processes |-> NoKb]
  /\ pc = [p \in Processes |-> "off"] /\ job = [p \in Processes |-> NoJob]
  /\ last = Ended(Api, FALSE) /\ behind = FALSE
  /\ edits = 0 /\ runs = 0 /\ faults = 0

Run(p) ==
  \/ Probe(p) \/ Setup(p) \/ ListNotes(p) \/ Parse(p) \/ Merge(p) \/ Replace(p)
  \/ Commit(p) \/ Clear(p) \/ Add(p) \/ BuildGraph(p) \/ Report(p)

Next ==
  \/ Start \/ \E task \in {"index", "incremental"} : Request(task)
  \/ \E w \in Workers, task \in {"index", "reindex"} : Task(w, task)
  \/ \E p \in Processes : Run(p) \/ Crash(p)
  \/ \E v \in Vault : Edit(v)
  \/ ComesAndGoes

Spec == Init /\ [][Next]_vars

-----------------------------------------------------------------------------
(* Properties. *)

Steps == {"off", "idle", "probe", "setup", "list", "parse", "merge", "replace", "open", "late",
          "clear", "add", "report"}

\* Every variable has its type; who serves or works has a knowledge base, who
\* is off has none, and vectors in the database come with notes in it.
TypeOK ==
  /\ files \in Vault /\ rows \in Vault /\ vecRows \in Vault
  /\ up \in BOOLEAN /\ behind \in BOOLEAN
  /\ \A p \in Processes :
       /\ pc[p] \in Steps /\ (At(p, "idle") => p = Api)
       /\ kb[p].notes \in Vault /\ kb[p].vecs \in Vault
       /\ kb[p].graph \in Vault /\ kb[p].snapshots \in Vault
       /\ kb[p].store = "none" <=> pc[p] \in {"off", "probe"}
       /\ InPg(p) => InDb(p)
       /\ job[p].notes \in Vault /\ job[p].parsed \in Vault /\ job[p].todo \subseteq Ids

\* The last run was a start or a reindex that found no notes in the store, and so
\* returned before it would have cleared the vectors.
ReturnedEarly == last.notes = None /\ last.task \in {"start", "reindex"}

\* When the last run of any process had the database to itself and ended well,
\* the notes it worked on are what is stored, and the vectors that searches ask
\* are those of the stored notes, whatever runs overlapped, failed or crashed
\* before it.  Only a start or a reindex that finds no notes leaves note_vectors as
\* they are: a run that emptied the vault and crashed before it cleared them is
\* not put right by a restart.
VectorsFollowNotes ==
  Quiet /\ last.ok /\ last.alone =>
    /\ last.store = "db" => rows = last.notes
    /\ last.vectors = "pg" /\ ~ReturnedEarly => vecRows = last.notes
    /\ last.by = Api /\ At(Api, "idle") =>
         Notes(Api) = last.notes /\ (~InPg(Api) => kb[Api].vecs = last.notes)

\* A serving API has the graph and the snapshots of the stored notes, from its
\* start on, until a worker replaces them or a run of its own fails half way or
\* meets another.
ApiIsCurrent ==
  At(Api, "idle") /\ ~behind =>
    kb[Api].graph = Notes(Api) /\ kb[Api].snapshots = Notes(Api)

\* A run that ended well stored what it parsed: a full one always, an
\* incremental one of an API that was not behind.
RunStoresFiles ==
  last.ok /\ last.alone /\ (last.task = "index" \/ (last.task = "incremental" /\ last.fits)) =>
    last.notes = last.parsed
=============================================================================
