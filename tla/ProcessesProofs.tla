-------------------------- MODULE ProcessesProofs --------------------------
(***************************************************************************)
(* Theorems of Processes, for every number of workers, notes and versions, *)
(* and every number of runs, edits, faults of the database and crashes.    *)
(***************************************************************************)
EXTENDS Processes, TLAPS

Tasks == {"none", "start", "index", "incremental", "reindex"}
Stores == {"none", "db", "memory"}
Kb == [store : Stores, vectors : {"memory", "pg"}, notes : Vault, vecs : Vault,
       graph : Vault, snapshots : Vault]
Job == [task : Tasks, notes : Vault, parsed : Vault, todo : SUBSET Ids, alone : BOOLEAN,
        fits : BOOLEAN]
Last == [by : Processes, task : Tasks, ok : BOOLEAN, store : Stores, vectors : {"memory", "pg"},
         notes : Vault, parsed : Vault, alone : BOOLEAN, fits : BOOLEAN]

Types ==
  /\ files \in Vault /\ rows \in Vault /\ vecRows \in Vault
  /\ up \in BOOLEAN /\ behind \in BOOLEAN
  /\ kb \in [Processes -> Kb] /\ pc \in [Processes -> Steps] /\ job \in [Processes -> Job]
  /\ last \in Last

Vecs(p) == IF InPg(p) THEN vecRows ELSE kb[p].vecs

\* Where a process stands, what it has and what it is doing agree.
Shape(p) ==
  /\ pc[p] \in {"off", "probe"} => kb[p] = NoKb
  /\ pc[p] \notin {"off", "probe"} => kb[p].store \in {"db", "memory"}
  /\ InPg(p) \/ pc[p] = "setup" => InDb(p)
  /\ p # Api => pc[p] # "idle" /\ (Busy(p) => job[p].task \in {"index", "reindex"})
  /\ pc[p] \in {"probe", "setup", "list"} => job[p].notes = None
  /\ p = Api /\ pc[p] \in {"probe", "setup", "list"} => job[p].task = "start"
  /\ pc[p] \in {"setup", "list"} =>
       kb[p].graph = None /\ kb[p].snapshots = None /\ kb[p].vecs = None
  /\ pc[p] = "list" => job[p].task \in {"start", "reindex"}
  /\ pc[p] \in {"open", "late"} => InDb(p)
  /\ pc[p] \in {"parse", "merge", "replace", "open", "late"} =>
       job[p].task \in {"index", "incremental"}
  /\ pc[p] = "merge" => job[p].task = "incremental" /\ job[p].notes = job[p].parsed
  /\ pc[p] \in {"replace", "open", "late", "clear", "add", "report"} /\ job[p].task = "index" =>
       job[p].notes = job[p].parsed
  /\ pc[p] = "add" => job[p].todo \subseteq DOMAIN job[p].notes

\* What a run that has the database to itself has stored so far.
Own(p) == Busy(p) /\ job[p].alone =>
  /\ \A q \in Processes \ {p} : ~Busy(q)
  /\ pc[p] # "late"
  /\ pc[p] \in {"clear", "add", "report"} => Notes(p) = job[p].notes
  /\ pc[p] = "add" =>
       /\ DOMAIN Vecs(p) = DOMAIN job[p].notes \ job[p].todo
       /\ \A i \in DOMAIN Vecs(p) : Vecs(p)[i] = job[p].notes[i]
  /\ pc[p] = "report" /\ (job[p].notes # None \/ job[p].task # "reindex" \/ p = Api) =>
       Vecs(p) = job[p].notes
  /\ job[p].task = "incremental" /\ job[p].fits =>
       /\ pc[p] \in {"parse", "merge"} => ~behind
       /\ pc[p] \in {"replace", "open", "clear", "add", "report"} => job[p].notes = job[p].parsed

Current == kb[Api].graph = Notes(Api) /\ kb[Api].snapshots = Notes(Api)

\* When the API is not behind, from its start through every run of its own.
ApiInv ==
  /\ pc[Api] \in {"setup", "list", "clear", "add"} => behind
  /\ pc[Api] \in {"idle", "parse", "merge", "replace", "open", "late", "report"} /\ ~behind =>
       Current

Inv == Types /\ (\A p \in Processes : Shape(p) /\ Own(p)) /\ ApiInv
         /\ VectorsFollowNotes /\ RunStoresFiles

-----------------------------------------------------------------------------
LEMMA VaultOf ==
  \A f : f \in Vault <=> DOMAIN f \subseteq Ids /\ f \in [DOMAIN f -> Versions]
  BY DEF Vault

LEMMA NoneInVault == None \in Vault /\ DOMAIN None = {}
  BY VaultOf DEF None

LEMMA AddedTo ==
  ASSUME NEW f \in Vault, NEW i \in Ids, NEW v \in Versions
  PROVE  /\ Added(f, i, v) \in Vault /\ DOMAIN Added(f, i, v) = DOMAIN f \cup {i}
         /\ Added(f, i, v)[i] = v
         /\ \A j \in DOMAIN f : j # i => Added(f, i, v)[j] = f[j]
  <1>1. DOMAIN Added(f, i, v) = DOMAIN f \cup {i}
    BY DEF Added
  <1>2. \A j \in DOMAIN f \cup {i} : Added(f, i, v)[j] = IF j = i THEN v ELSE f[j]
    BY DEF Added
  <1>3. DOMAIN f \subseteq Ids /\ f \in [DOMAIN f -> Versions]
    BY VaultOf
  <1>4. Added(f, i, v) \in [DOMAIN f \cup {i} -> Versions]
    BY <1>3 DEF Added
  <1> QED  BY <1>1, <1>2, <1>3, <1>4, VaultOf

LEMMA SameVaults ==
  ASSUME NEW f \in Vault, NEW g \in Vault, DOMAIN f = DOMAIN g, \A i \in DOMAIN f : f[i] = g[i]
  PROVE  f = g
  BY VaultOf

LEMMA NoKbIsKb ==
  /\ NoKb \in Kb /\ NoKb.store = "none" /\ NoKb.vectors = "memory" /\ NoKb.notes = None
  /\ NoKb.vecs = None /\ NoKb.graph = None /\ NoKb.snapshots = None
  BY NoneInVault DEF NoKb, Kb, Stores

LEMMA NoJobIsJob ==
  /\ NoJob \in Job /\ NoJob.task = "none" /\ NoJob.notes = None /\ NoJob.parsed = None
  /\ NoJob.todo = {} /\ NoJob.alone = TRUE /\ NoJob.fits = TRUE
  BY NoneInVault DEF NoJob, Job, Tasks

\* One field of a knowledge base, or of a job, is set.
LEMMA SetStore ==
  ASSUME NEW r \in Kb, NEW x \in Stores
  PROVE  LET n == [r EXCEPT !.store = x] IN
         /\ n \in Kb /\ n.store = x /\ n.vectors = r.vectors /\ n.notes = r.notes
         /\ n.vecs = r.vecs /\ n.graph = r.graph /\ n.snapshots = r.snapshots
  BY Zenon DEF Kb
LEMMA SetVectors ==
  ASSUME NEW r \in Kb, NEW x \in {"memory", "pg"}
  PROVE  LET n == [r EXCEPT !.vectors = x] IN
         /\ n \in Kb /\ n.vectors = x /\ n.store = r.store /\ n.notes = r.notes
         /\ n.vecs = r.vecs /\ n.graph = r.graph /\ n.snapshots = r.snapshots
  BY Zenon DEF Kb
LEMMA SetKbNotes ==
  ASSUME NEW r \in Kb, NEW x \in Vault
  PROVE  LET n == [r EXCEPT !.notes = x] IN
         /\ n \in Kb /\ n.notes = x /\ n.store = r.store /\ n.vectors = r.vectors
         /\ n.vecs = r.vecs /\ n.graph = r.graph /\ n.snapshots = r.snapshots
  BY Zenon DEF Kb
LEMMA SetVecs ==
  ASSUME NEW r \in Kb, NEW x \in Vault
  PROVE  LET n == [r EXCEPT !.vecs = x] IN
         /\ n \in Kb /\ n.vecs = x /\ n.store = r.store /\ n.vectors = r.vectors
         /\ n.notes = r.notes /\ n.graph = r.graph /\ n.snapshots = r.snapshots
  BY Zenon DEF Kb
LEMMA SetGraph ==
  ASSUME NEW r \in Kb, NEW x \in Vault
  PROVE  LET n == [r EXCEPT !.graph = x] IN
         /\ n \in Kb /\ n.graph = x /\ n.store = r.store /\ n.vectors = r.vectors
         /\ n.notes = r.notes /\ n.vecs = r.vecs /\ n.snapshots = r.snapshots
  BY Zenon DEF Kb
LEMMA SetSnapshots ==
  ASSUME NEW r \in Kb, NEW x \in Vault
  PROVE  LET n == [r EXCEPT !.snapshots = x] IN
         /\ n \in Kb /\ n.snapshots = x /\ n.store = r.store /\ n.vectors = r.vectors
         /\ n.notes = r.notes /\ n.vecs = r.vecs /\ n.graph = r.graph
  BY Zenon DEF Kb
LEMMA SetTask ==
  ASSUME NEW r \in Job, NEW x \in Tasks
  PROVE  LET n == [r EXCEPT !.task = x] IN
         /\ n \in Job /\ n.task = x /\ n.notes = r.notes /\ n.parsed = r.parsed
         /\ n.todo = r.todo /\ n.alone = r.alone /\ n.fits = r.fits
  BY Zenon DEF Job
LEMMA SetNotes ==
  ASSUME NEW r \in Job, NEW x \in Vault
  PROVE  LET n == [r EXCEPT !.notes = x] IN
         /\ n \in Job /\ n.notes = x /\ n.task = r.task /\ n.parsed = r.parsed
         /\ n.todo = r.todo /\ n.alone = r.alone /\ n.fits = r.fits
  BY Zenon DEF Job
LEMMA SetParsed ==
  ASSUME NEW r \in Job, NEW x \in Vault
  PROVE  LET n == [r EXCEPT !.parsed = x] IN
         /\ n \in Job /\ n.parsed = x /\ n.task = r.task /\ n.notes = r.notes
         /\ n.todo = r.todo /\ n.alone = r.alone /\ n.fits = r.fits
  BY Zenon DEF Job
LEMMA SetTodo ==
  ASSUME NEW r \in Job, NEW x \in SUBSET Ids
  PROVE  LET n == [r EXCEPT !.todo = x] IN
         /\ n \in Job /\ n.todo = x /\ n.task = r.task /\ n.notes = r.notes
         /\ n.parsed = r.parsed /\ n.alone = r.alone /\ n.fits = r.fits
  BY Zenon DEF Job
LEMMA SetAlone ==
  ASSUME NEW r \in Job, NEW x \in BOOLEAN
  PROVE  LET n == [r EXCEPT !.alone = x] IN
         /\ n \in Job /\ n.alone = x /\ n.task = r.task /\ n.notes = r.notes
         /\ n.parsed = r.parsed /\ n.todo = r.todo /\ n.fits = r.fits
  BY Zenon DEF Job
LEMMA SetFits ==
  ASSUME NEW r \in Job, NEW x \in BOOLEAN
  PROVE  LET n == [r EXCEPT !.fits = x] IN
         /\ n \in Job /\ n.fits = x /\ n.task = r.task /\ n.notes = r.notes
         /\ n.parsed = r.parsed /\ n.todo = r.todo /\ n.alone = r.alone
  BY Zenon DEF Job
LEMMA SetOk ==
  ASSUME NEW r \in Last, NEW x \in BOOLEAN
  PROVE  [r EXCEPT !.ok = x] \in Last /\ [r EXCEPT !.ok = x].ok = x
  BY Zenon DEF Last

-----------------------------------------------------------------------------
(* What a step of one process leaves of the rest. *)

OthersSame(p) == \A q \in Processes \ {p} : pc'[q] = pc[q] /\ kb'[q] = kb[q] /\ job'[q] = job[q]

\* While one process is busy no other one runs alone, and so has nothing to lose.
LEMMA OthersKeep ==
  ASSUME Inv, NEW p \in Processes, Busy(p), OthersSame(p), NEW q \in Processes, q # p
  PROVE  Shape(q)' /\ Own(q)'
  <1>1. Shape(q) /\ Own(q) /\ pc'[q] = pc[q] /\ kb'[q] = kb[q] /\ job'[q] = job[q]
    BY DEF Inv, OthersSame
  <1>2. Shape(q)'
    BY <1>1 DEF Shape, InPg, InDb, Busy
  <1>3. ~(Busy(q) /\ job[q].alone)
    BY <1>1 DEF Own
  <1> QED  BY <1>1, <1>2, <1>3 DEF Own, Busy

\* A run goes on.
LEMMA GoesOn ==
  ASSUME Inv, NEW p \in Processes, Busy(p), Busy(p)', OthersSame(p), Types', last' = last,
         Shape(p)', Own(p)', ApiInv'
  PROVE  Inv'
  <1>1. \A q \in Processes : Shape(q)' /\ Own(q)'
    BY OthersKeep
  <1>2. VectorsFollowNotes'
    BY DEF VectorsFollowNotes, Quiet
  <1>3. RunStoresFiles'
    BY DEF RunStoresFiles, Inv
  <1> QED  BY <1>1, <1>2, <1>3 DEF Inv

LEMMA EndsEffect ==
  ASSUME Inv, NEW p \in Processes, Busy(p), NEW ok \in BOOLEAN, NEW base \in Kb,
         base.store \in {"db", "memory"} \/ ~Serves(p, ok),
         base.vectors = "pg" => base.store = "db",
         EndsWith(p, ok, base), behind' \in BOOLEAN
  PROVE  /\ Types' /\ OthersSame(p)
         /\ \A q \in Processes : Shape(q)' /\ Own(q)'
         /\ pc'[p] = (IF Serves(p, ok) THEN "idle" ELSE "off")
         /\ kb'[p] = (IF Serves(p, ok) THEN base ELSE NoKb)
         /\ rows' = rows /\ vecRows' = vecRows
         /\ last'.by = p /\ last'.task = job[p].task /\ last'.ok = ok /\ last'.store = kb[p].store
         /\ last'.vectors = kb[p].vectors /\ last'.notes = job[p].notes
         /\ last'.parsed = job[p].parsed /\ last'.alone = job[p].alone /\ last'.fits = job[p].fits
  <1> DEFINE step == IF Serves(p, ok) THEN "idle" ELSE "off"
             n == IF Serves(p, ok) THEN base ELSE NoKb
  <1>1. /\ pc' = [pc EXCEPT ![p] = step] /\ kb' = [kb EXCEPT ![p] = n]
        /\ job' = [job EXCEPT ![p] = NoJob] /\ last' = Ended(p, ok)
        /\ rows' = rows /\ vecRows' = vecRows /\ files' = files /\ up' = up
    BY DEF EndsWith, Goto, Kept, tables
  <1>2. n \in Kb /\ step \in Steps
    BY NoKbIsKb DEF Steps
  <1> HIDE DEF n, step
  <1>3. /\ pc' \in [Processes -> Steps] /\ kb' \in [Processes -> Kb] /\ job' \in [Processes -> Job]
        /\ pc'[p] = step /\ kb'[p] = n /\ job'[p] = NoJob
        /\ OthersSame(p)
    BY <1>1, <1>2, NoJobIsJob DEF Inv, Types, OthersSame
  <1>4. /\ last' \in Last
        /\ last'.by = p /\ last'.task = job[p].task /\ last'.ok = ok /\ last'.store = kb[p].store
        /\ last'.vectors = kb[p].vectors /\ last'.notes = job[p].notes
        /\ last'.parsed = job[p].parsed /\ last'.alone = job[p].alone /\ last'.fits = job[p].fits
    BY <1>1 DEF Ended, Last, Inv, Types, Kb, Job
  <1>5. Types'
    BY <1>1, <1>3, <1>4 DEF Inv, Types
  <1>6. Shape(p)' /\ Own(p)'
    BY <1>3, NoKbIsKb DEF Shape, Own, Busy, InPg, InDb, Serves, n, step
  <1> QED  BY <1>1, <1>3, <1>4, <1>5, <1>6, OthersKeep DEF n, step

\* A run that fails leaves the API behind if it has begun to replace things.
LEMMA FailureKeeps ==
  ASSUME Inv, NEW p \in Processes, Busy(p), Ends(p, FALSE), behind' = behind
  PROVE  Inv'
  <1>1. Shape(p) /\ kb[p] \in Kb
    BY DEF Inv, Types
  <1>2. kb[p].store \in {"db", "memory"} \/ ~Serves(p, FALSE)
    BY <1>1 DEF Shape, Serves, Busy
  <1>3. kb[p].vectors = "pg" => kb[p].store = "db"
    BY <1>1 DEF Shape, InPg, InDb
  <1>4. /\ Types' /\ OthersSame(p)
        /\ \A q \in Processes : Shape(q)' /\ Own(q)'
        /\ pc'[p] = (IF Serves(p, FALSE) THEN "idle" ELSE "off")
        /\ kb'[p] = (IF Serves(p, FALSE) THEN kb[p] ELSE NoKb)
        /\ rows' = rows /\ vecRows' = vecRows /\ last'.ok = FALSE
    BY <1>1, <1>2, <1>3, EndsEffect DEF Ends, Inv, Types
  <1>5. ApiInv'
    <2>1. CASE p # Api
      BY <1>4, <2>1 DEF ApiInv, Inv, OthersSame, Current, Notes, InDb, Processes
    <2>2. CASE p = Api /\ Serves(p, FALSE)
      <3>1. pc[Api] \in Steps \ {"off", "idle", "probe"} /\ pc'[Api] = "idle" /\ kb'[Api] = kb[Api]
        BY <1>1, <1>4, <2>2 DEF Shape, Serves, Busy, Inv, Types
      <3>2. ~behind => Current
        BY <3>1 DEF ApiInv, Inv, Steps
      <3> QED  BY <1>4, <3>1, <3>2 DEF ApiInv, Current, Notes, InDb
    <2>3. CASE p = Api /\ ~Serves(p, FALSE)
      BY <1>4, <2>3 DEF ApiInv
    <2> QED  BY <2>1, <2>2, <2>3
  <1> QED  BY <1>4, <1>5 DEF Inv, VectorsFollowNotes, RunStoresFiles

LEMMA RaisesKeeps ==
  ASSUME Inv, NEW p \in Processes, Busy(p), Raises(p)
  PROVE  Inv'
  BY FailureKeeps DEF Raises

-----------------------------------------------------------------------------
(* The actions, one by one. *)

LEMMA ProbeKeeps ==
  ASSUME Inv, NEW p \in Processes, Probe(p)
  PROVE  Inv'
  <1> DEFINE x == IF up THEN "db" ELSE "memory"
             made == [NoKb EXCEPT !.store = x]
  <1>1. /\ made \in Kb /\ made.store = x /\ made.vectors = "memory" /\ made.notes = None
        /\ made.vecs = None /\ made.graph = None /\ made.snapshots = None
    <2>1. x \in Stores
      BY DEF Stores
    <2> HIDE DEF x
    <2> QED  BY <2>1, NoKbIsKb, SetStore, Zenon
  <1>2. /\ pc[p] = "probe" /\ behind' = IF p = Api THEN up ELSE behind
        /\ \/ ~up /\ p = Api /\ EndsWith(p, TRUE, made)
           \/ /\ up \/ p # Api
              /\ kb' = [kb EXCEPT ![p] = made]
              /\ pc' = [pc EXCEPT ![p] = IF up THEN "setup" ELSE FirstStep(job[p].task)]
              /\ UNCHANGED <<files, up, rows, vecRows, job, last>>
    BY Zenon DEF Probe, At, Goto, tables, Elsewhere
  <1> HIDE DEF made
  <1>3. Busy(p) /\ Shape(p) /\ Own(p) /\ ApiInv /\ Types
    BY <1>2 DEF Inv, Busy
  <1>4. CASE ~up /\ p = Api /\ EndsWith(p, TRUE, made)
    <2>1. /\ Types' /\ (\A q \in Processes : Shape(q)' /\ Own(q)')
          /\ pc'[p] = "idle" /\ kb'[p] = made
          /\ last'.task = "start" /\ last'.notes = None /\ last'.by = p
          /\ last'.store = kb[p].store /\ last'.vectors = kb[p].vectors
      <3>1. Serves(p, TRUE) /\ behind' \in BOOLEAN /\ made.store = "memory"
        BY <1>1, <1>2, <1>3, <1>4 DEF Serves, Types
      <3>2. job[p].task = "start" /\ job[p].notes = None
        BY <1>2, <1>3, <1>4 DEF Shape
      <3> QED  BY <1>1, <1>3, <1>4, <3>1, <3>2, EndsEffect
    <2>2. ApiInv'
      BY <1>1, <1>4, <2>1 DEF ApiInv, Current, Notes, InDb
    <2>3. kb[p].store = "none" /\ kb[p].vectors = "memory"
      BY <1>2, <1>3, NoKbIsKb DEF Shape
    <2>4. VectorsFollowNotes'
      BY <1>1, <1>4, <2>1, <2>3 DEF VectorsFollowNotes, Notes, InDb, InPg
    <2> QED  BY <2>1, <2>2, <2>4 DEF Inv, RunStoresFiles
  <1>5. CASE /\ up \/ p # Api
             /\ kb' = [kb EXCEPT ![p] = made]
             /\ pc' = [pc EXCEPT ![p] = IF up THEN "setup" ELSE FirstStep(job[p].task)]
             /\ UNCHANGED <<files, up, rows, vecRows, job, last>>
    <2>1. /\ pc' \in [Processes -> Steps] /\ kb' \in [Processes -> Kb] /\ kb'[p] = made
          /\ pc'[p] = IF up THEN "setup" ELSE FirstStep(job[p].task)
          /\ OthersSame(p)
      BY <1>1, <1>3, <1>5 DEF Types, OthersSame, Steps, FirstStep
    <2>2. Types' /\ Busy(p)'
      BY <1>2, <1>3, <1>5, <2>1 DEF Types, Busy, FirstStep
    <2>3. Shape(p)'
      BY <1>1, <1>2, <1>3, <1>5, <2>1 DEF Shape, InPg, InDb, Busy, FirstStep
    <2>4. Own(p)'
      BY <1>2, <1>3, <1>5, <2>1 DEF Own, Busy, FirstStep, OthersSame, Shape
    <2>5. ApiInv'
      <3>1. CASE p = Api
        BY <1>2, <1>5, <2>1, <3>1 DEF ApiInv
      <3>2. CASE p # Api
        BY <1>2, <1>3, <1>5, <2>1, <3>2 DEF ApiInv, OthersSame, Current, Notes, InDb, Processes
      <3> QED  BY <3>1, <3>2
    <2> QED  BY <1>3, <1>5, <2>1, <2>2, <2>3, <2>4, <2>5, GoesOn
  <1> QED  BY <1>2, <1>4, <1>5

LEMMA SetupKeeps ==
  ASSUME Inv, NEW p \in Processes, Setup(p)
  PROVE  Inv'
  <1> DEFINE x == IF up /\ Pgvector THEN "pg" ELSE "memory"
             n == [kb[p] EXCEPT !.vectors = x]
  <1>1. kb[p] \in Kb /\ pc[p] = "setup" /\ Busy(p) /\ Shape(p) /\ Own(p) /\ ApiInv /\ Types
    BY DEF Setup, At, Inv, Types, Busy
  <1>2. /\ n \in Kb /\ n.vectors = x /\ n.store = kb[p].store /\ n.notes = kb[p].notes
        /\ n.vecs = kb[p].vecs /\ n.graph = kb[p].graph /\ n.snapshots = kb[p].snapshots
    <2>1. x \in {"memory", "pg"}
      OBVIOUS
    <2> HIDE DEF x
    <2> QED  BY <1>1, <2>1, SetVectors, Zenon
  <1>3. /\ kb' = [kb EXCEPT ![p] = n] /\ pc' = [pc EXCEPT ![p] = FirstStep(job[p].task)]
        /\ UNCHANGED <<files, up, rows, vecRows, job, last, behind>>
    BY Zenon DEF Setup, Goto, tables, Elsewhere
  <1> HIDE DEF n
  <1>4. /\ pc' \in [Processes -> Steps] /\ kb' \in [Processes -> Kb] /\ kb'[p] = n
        /\ pc'[p] = FirstStep(job[p].task) /\ OthersSame(p)
    BY <1>1, <1>2, <1>3 DEF Types, OthersSame, Steps, FirstStep
  <1>5. Types' /\ Busy(p)'
    BY <1>1, <1>3, <1>4 DEF Types, Busy, FirstStep
  <1>6. Shape(p)'
    BY <1>1, <1>2, <1>3, <1>4 DEF Shape, InPg, InDb, Busy, FirstStep, Processes
  <1>7. Own(p)'
    BY <1>1, <1>3, <1>4 DEF Own, Busy, FirstStep, OthersSame, Shape
  <1>8. ApiInv'
    <2>1. CASE p = Api
      BY <1>1, <1>3, <2>1 DEF ApiInv
    <2>2. CASE p # Api
      BY <1>1, <1>3, <1>4, <2>2 DEF ApiInv, OthersSame, Current, Notes, InDb, Processes
    <2> QED  BY <2>1, <2>2
  <1> QED  BY <1>1, <1>3, <1>4, <1>5, <1>6, <1>7, <1>8, GoesOn

LEMMA ParseKeeps ==
  ASSUME Inv, NEW p \in Processes, Parse(p)
  PROVE  Inv'
  <1> DEFINE a == [job[p] EXCEPT !.notes = files]
             n == [a EXCEPT !.parsed = files]
             j1 == [job EXCEPT ![p].notes = files]
             step == IF job[p].task = "incremental" /\ kb[p].snapshots # None THEN "merge"
                     ELSE "replace"
  <1>1. /\ job \in [Processes -> Job] /\ job[p] \in Job /\ pc[p] = "parse" /\ Busy(p) /\ Shape(p)
        /\ Own(p) /\ ApiInv /\ Types /\ files \in Vault
    BY DEF Parse, At, Inv, Types, Busy
  <1>2. /\ a \in Job /\ a.notes = files /\ a.task = job[p].task /\ a.alone = job[p].alone
        /\ a.fits = job[p].fits
    BY <1>1, SetNotes, Zenon
  <1>3. j1 \in [Processes -> Job] /\ j1[p] = a /\ \A q \in Processes \ {p} : j1[q] = job[q]
    BY <1>1, <1>2, Zenon
  <1>4. /\ job' = [j1 EXCEPT ![p].parsed = files] /\ pc' = [pc EXCEPT ![p] = step]
        /\ UNCHANGED <<files, up, rows, vecRows, kb, last, behind>>
    BY Zenon DEF Parse, Goto, tables, Elsewhere
  <1> HIDE DEF a, j1
  <1>5. /\ n \in Job /\ n.notes = files /\ n.parsed = files /\ n.task = job[p].task
        /\ n.alone = job[p].alone /\ n.fits = job[p].fits
    BY <1>1, <1>2, SetParsed, Zenon
  <1>6. job' \in [Processes -> Job] /\ job'[p] = n /\ \A q \in Processes \ {p} : job'[q] = j1[q]
    BY <1>3, <1>4, <1>5, Zenon
  <1>7. pc' = [pc EXCEPT ![p] = step] /\ UNCHANGED <<files, up, rows, vecRows, kb, last, behind>>
    BY <1>4
  <1> HIDE DEF n
  <1>8. pc' \in [Processes -> Steps] /\ pc'[p] = step /\ OthersSame(p)
    BY <1>1, <1>3, <1>6, <1>7 DEF Types, OthersSame, Steps
  <1>9. Types' /\ Busy(p)'
    BY <1>1, <1>6, <1>7, <1>8 DEF Types, Busy
  <1>10. Shape(p)'
    BY <1>1, <1>5, <1>6, <1>7, <1>8 DEF Shape, InPg, InDb, Busy
  <1>11. Own(p)'
    BY <1>1, <1>5, <1>6, <1>7, <1>8 DEF Own, Busy, OthersSame
  <1>12. ApiInv'
    <2>1. CASE p = Api
      BY <1>1, <1>7, <1>8, <2>1 DEF ApiInv, Current, Notes, InDb
    <2>2. CASE p # Api
      BY <1>1, <1>7, <1>8, <2>2 DEF ApiInv, OthersSame, Current, Notes, InDb, Processes
    <2> QED  BY <2>1, <2>2
  <1> QED  BY <1>1, <1>7, <1>8, <1>9, <1>10, <1>11, <1>12, GoesOn

\* A new value for one field of p's job, with everything else of p's kept or given.
LEMMA NewNotes ==
  ASSUME Types, NEW p \in Processes, NEW x \in Vault, job' = [job EXCEPT ![p].notes = x]
  PROVE  /\ job' \in [Processes -> Job] /\ \A q \in Processes \ {p} : job'[q] = job[q]
         /\ job'[p].notes = x /\ job'[p].task = job[p].task /\ job'[p].parsed = job[p].parsed
         /\ job'[p].todo = job[p].todo /\ job'[p].alone = job[p].alone
         /\ job'[p].fits = job[p].fits
  <1> DEFINE n == [job[p] EXCEPT !.notes = x]
  <1>1. job \in [Processes -> Job] /\ job[p] \in Job
    BY DEF Types
  <1>2. /\ n \in Job /\ n.notes = x /\ n.task = job[p].task /\ n.parsed = job[p].parsed
        /\ n.todo = job[p].todo /\ n.alone = job[p].alone /\ n.fits = job[p].fits
    BY <1>1, SetNotes, Zenon
  <1>3. job' \in [Processes -> Job] /\ job'[p] = n /\ \A q \in Processes \ {p} : job'[q] = job[q]
    BY <1>1, <1>2, Zenon
  <1> HIDE DEF n
  <1> QED  BY <1>2, <1>3, Zenon

LEMMA NewTodo ==
  ASSUME Types, NEW p \in Processes, NEW x \in SUBSET Ids, job' = [job EXCEPT ![p].todo = x]
  PROVE  /\ job' \in [Processes -> Job] /\ \A q \in Processes \ {p} : job'[q] = job[q]
         /\ job'[p].todo = x /\ job'[p].task = job[p].task /\ job'[p].notes = job[p].notes
         /\ job'[p].parsed = job[p].parsed /\ job'[p].alone = job[p].alone
         /\ job'[p].fits = job[p].fits
  <1> DEFINE n == [job[p] EXCEPT !.todo = x]
  <1>1. job \in [Processes -> Job] /\ job[p] \in Job
    BY DEF Types
  <1>2. /\ n \in Job /\ n.todo = x /\ n.task = job[p].task /\ n.notes = job[p].notes
        /\ n.parsed = job[p].parsed /\ n.alone = job[p].alone /\ n.fits = job[p].fits
    BY <1>1, SetTodo, Zenon
  <1>3. job' \in [Processes -> Job] /\ job'[p] = n /\ \A q \in Processes \ {p} : job'[q] = job[q]
    BY <1>1, <1>2, Zenon
  <1> HIDE DEF n
  <1> QED  BY <1>2, <1>3, Zenon

\* The note store, or the vectors, of p are set, in the database or in p's memory.
LEMMA NewVecs ==
  ASSUME Types, NEW p \in Processes, NEW x \in Vault,
         IF InPg(p) THEN vecRows' = x /\ kb' = kb
         ELSE kb' = [kb EXCEPT ![p].vecs = x] /\ vecRows' = vecRows
  PROVE  /\ vecRows' \in Vault /\ kb' \in [Processes -> Kb] /\ Vecs(p)' = x
         /\ \A q \in Processes \ {p} : kb'[q] = kb[q]
         /\ kb'[p].store = kb[p].store /\ kb'[p].vectors = kb[p].vectors
         /\ kb'[p].notes = kb[p].notes /\ kb'[p].graph = kb[p].graph
         /\ kb'[p].snapshots = kb[p].snapshots
  <1> DEFINE n == [kb[p] EXCEPT !.vecs = x]
  <1>1. kb \in [Processes -> Kb] /\ kb[p] \in Kb /\ vecRows \in Vault
    BY DEF Types
  <1>2. /\ n \in Kb /\ n.vecs = x /\ n.store = kb[p].store /\ n.vectors = kb[p].vectors
        /\ n.notes = kb[p].notes /\ n.graph = kb[p].graph /\ n.snapshots = kb[p].snapshots
    BY <1>1, SetVecs, Zenon
  <1>3. CASE InPg(p)
    BY <1>1, <1>3 DEF Vecs, InPg
  <1>4. CASE ~InPg(p)
    <2>1. /\ vecRows' = vecRows /\ kb' \in [Processes -> Kb] /\ kb'[p] = n
          /\ \A q \in Processes \ {p} : kb'[q] = kb[q]
      BY <1>1, <1>2, <1>4, Zenon
    <2> HIDE DEF n
    <2> QED  BY <1>1, <1>2, <1>4, <2>1, Zenon DEF Vecs, InPg
  <1> QED  BY <1>3, <1>4

LEMMA NewStore ==
  ASSUME Types, NEW p \in Processes, NEW x \in Vault,
         IF InDb(p) THEN rows' = x /\ kb' = kb
         ELSE kb' = [kb EXCEPT ![p].notes = x] /\ rows' = rows
  PROVE  /\ rows' \in Vault /\ kb' \in [Processes -> Kb] /\ Notes(p)' = x
         /\ ~InDb(p) => rows' = rows
         /\ \A q \in Processes \ {p} : kb'[q] = kb[q]
         /\ kb'[p].store = kb[p].store /\ kb'[p].vectors = kb[p].vectors
  <1> DEFINE n == [kb[p] EXCEPT !.notes = x]
  <1>1. kb \in [Processes -> Kb] /\ kb[p] \in Kb /\ rows \in Vault
    BY DEF Types
  <1>2. n \in Kb /\ n.notes = x /\ n.store = kb[p].store /\ n.vectors = kb[p].vectors
    BY <1>1, SetKbNotes, Zenon
  <1>3. CASE InDb(p)
    BY <1>1, <1>3 DEF Notes, InDb
  <1>4. CASE ~InDb(p)
    <2>1. /\ rows' = rows /\ kb' \in [Processes -> Kb] /\ kb'[p] = n
          /\ \A q \in Processes \ {p} : kb'[q] = kb[q]
      BY <1>1, <1>2, <1>4, Zenon
    <2> HIDE DEF n
    <2> QED  BY <1>1, <1>2, <1>4, <2>1, Zenon DEF Notes, InDb
  <1> QED  BY <1>3, <1>4

LEMMA StoredNotes ==
  ASSUME Types, NEW p \in Processes
  PROVE  Notes(p) \in Vault
  BY DEF Types, Notes, Kb

LEMMA ListNotesKeeps ==
  ASSUME Inv, NEW p \in Processes, ListNotes(p)
  PROVE  Inv'
  <1>1. /\ pc[p] = "list" /\ Busy(p) /\ Shape(p) /\ Own(p) /\ ApiInv /\ Types
        /\ kb[p] \in Kb /\ job[p] \in Job
    BY DEF ListNotes, At, Inv, Types, Busy
  <1>2. CASE InDb(p) /\ Raises(p)
    BY <1>1, <1>2, RaisesKeeps
  <1>3. CASE Notes(p) = None /\ job[p].task = "start" /\ Ends(p, TRUE) /\ behind' = FALSE
    <2>1. p = Api /\ Serves(p, TRUE)
      BY <1>1, <1>3 DEF Shape, Serves
    <2>2. kb[p].store \in {"db", "memory"} /\ (kb[p].vectors = "pg" => kb[p].store = "db")
      BY <1>1 DEF Shape, InPg, InDb
    <2>3. /\ Types' /\ (\A q \in Processes : Shape(q)' /\ Own(q)')
          /\ pc'[p] = "idle" /\ kb'[p] = kb[p] /\ rows' = rows
          /\ last'.task = "start" /\ last'.notes = None
          /\ last'.store = kb[p].store
      <3>1. job[p].notes = None
        BY <1>1 DEF Shape
      <3>2. EndsWith(p, TRUE, kb[p]) /\ behind' \in BOOLEAN
        BY <1>3 DEF Ends
      <3> QED  BY <1>1, <1>3, <2>1, <2>2, <3>1, <3>2, EndsEffect
    <2>4. ApiInv'
      BY <1>1, <1>3, <2>1, <2>3 DEF ApiInv, Current, Notes, InDb, Shape
    <2>5. Notes(p)' = None /\ kb'[p].vecs = None
      BY <1>1, <1>3, <2>3 DEF Notes, InDb, Shape
    <2>6. VectorsFollowNotes'
      BY <1>3, <2>1, <2>3, <2>5 DEF VectorsFollowNotes, ReturnedEarly, Notes, InDb
    <2> QED  BY <2>3, <2>4, <2>6 DEF Inv, RunStoresFiles
  <1>4. CASE /\ Notes(p) = None /\ job[p].task # "start"
             /\ Goto(p, "report") /\ UNCHANGED <<tables, kb, job, behind>> /\ Elsewhere
    <2>1. /\ pc' = [pc EXCEPT ![p] = "report"]
          /\ UNCHANGED <<files, up, rows, vecRows, kb, job, last, behind>>
      BY <1>4 DEF Goto, tables, Elsewhere
    <2>2. pc' \in [Processes -> Steps] /\ pc'[p] = "report" /\ OthersSame(p)
      BY <1>1, <2>1 DEF Types, OthersSame, Steps
    <2>3. Types' /\ Busy(p)'
      BY <1>1, <2>1, <2>2 DEF Types, Busy
    <2>4. Shape(p)'
      BY <1>1, <1>4, <2>1, <2>2 DEF Shape, InPg, InDb, Busy
    <2>5. Own(p)'
      BY <1>1, <1>4, <2>1, <2>2 DEF Own, Busy, OthersSame, Shape, Notes, InDb
    <2>6. ApiInv'
      <3>1. CASE p = Api
        BY <1>1, <1>4, <3>1 DEF Shape
      <3>2. CASE p # Api
        BY <1>1, <2>1, <2>2, <3>2 DEF ApiInv, OthersSame, Current, Notes, InDb, Processes
      <3> QED  BY <3>1, <3>2
    <2> QED  BY <1>1, <2>1, <2>2, <2>3, <2>4, <2>5, <2>6, GoesOn
  <1>5. CASE /\ Notes(p) # None
             /\ job' = [job EXCEPT ![p].notes = Notes(p)]
             /\ Goto(p, "clear") /\ UNCHANGED <<tables, kb, behind>> /\ Elsewhere
    <2>1. /\ pc' = [pc EXCEPT ![p] = "clear"]
          /\ UNCHANGED <<files, up, rows, vecRows, kb, last, behind>>
      BY <1>5 DEF Goto, tables, Elsewhere
    <2>2. /\ job' \in [Processes -> Job] /\ \A q \in Processes \ {p} : job'[q] = job[q]
          /\ job'[p].notes = Notes(p) /\ job'[p].task = job[p].task
          /\ job'[p].alone = job[p].alone
      <3>1. Notes(p) \in Vault
        BY <1>1, StoredNotes
      <3> QED  BY <1>1, <1>5, <3>1, NewNotes
    <2>3. pc' \in [Processes -> Steps] /\ pc'[p] = "clear" /\ OthersSame(p)
      BY <1>1, <2>1, <2>2 DEF Types, OthersSame, Steps
    <2>4. Types' /\ Busy(p)'
      BY <1>1, <2>1, <2>2, <2>3 DEF Types, Busy
    <2>5. Shape(p)'
      BY <1>1, <2>1, <2>2, <2>3 DEF Shape, InPg, InDb, Busy
    <2>6. Own(p)'
      BY <1>1, <2>1, <2>2, <2>3 DEF Own, Busy, OthersSame, Shape, Notes, InDb
    <2>7. ApiInv'
      <3>1. CASE p = Api
        BY <1>1, <2>1, <2>3, <3>1 DEF ApiInv
      <3>2. CASE p # Api
        BY <1>1, <2>1, <2>3, <3>2 DEF ApiInv, OthersSame, Current, Notes, InDb, Processes
      <3> QED  BY <3>1, <3>2
    <2> QED  BY <1>1, <2>1, <2>3, <2>4, <2>5, <2>6, <2>7, GoesOn
  <1> QED  BY <1>2, <1>3, <1>4, <1>5 DEF ListNotes

LEMMA MergeKeeps ==
  ASSUME Inv, NEW p \in Processes, Merge(p)
  PROVE  Inv'
  <1>1. /\ pc[p] = "merge" /\ Busy(p) /\ Shape(p) /\ Own(p) /\ ApiInv /\ Types
        /\ kb[p] \in Kb /\ job[p] \in Job
    BY DEF Merge, At, Inv, Types, Busy
  <1>2. CASE InDb(p) /\ Raises(p)
    BY <1>1, <1>2, RaisesKeeps
  <1>3. CASE /\ job' = [job EXCEPT ![p].notes = Merged(p)]
             /\ Goto(p, "replace") /\ UNCHANGED <<tables, kb, behind>> /\ Elsewhere
    <2>1. /\ pc' = [pc EXCEPT ![p] = "replace"]
          /\ UNCHANGED <<files, up, rows, vecRows, kb, last, behind>>
      BY <1>3 DEF Goto, tables, Elsewhere
    <2> DEFINE new == job[p].notes
    <2>2. /\ DOMAIN Merged(p) = DOMAIN new
          /\ \A i \in DOMAIN new : Merged(p)[i] =
               IF i \notin ChangedSince(kb[p].snapshots, new) /\ i \in DOMAIN Notes(p)
               THEN Notes(p)[i] ELSE new[i]
          /\ Merged(p) = [i \in DOMAIN new |-> Merged(p)[i]]
      BY DEF Merged
    <2>3. new \in Vault /\ Notes(p) \in Vault /\ kb[p].snapshots \in Vault
      BY <1>1, StoredNotes DEF Job, Kb
    <2>4. \A i \in DOMAIN new : Merged(p)[i] \in Versions
      BY <2>2, <2>3, VaultOf
    <2>5. Merged(p) \in Vault
      BY <2>2, <2>3, <2>4, VaultOf
    \* The snapshots of an API that is not behind are what is stored.
    <2>6. ASSUME kb[p].snapshots = Notes(p)  PROVE Merged(p) = new
      <3>1. \A i \in DOMAIN new : Merged(p)[i] = new[i]
        BY <2>2, <2>6 DEF ChangedSince
      <3> QED  BY <2>2, <2>3, <2>5, <3>1, SameVaults
    <2>7. /\ job' \in [Processes -> Job] /\ \A q \in Processes \ {p} : job'[q] = job[q]
          /\ job'[p].notes = Merged(p) /\ job'[p].task = job[p].task
          /\ job'[p].parsed = job[p].parsed /\ job'[p].alone = job[p].alone
          /\ job'[p].fits = job[p].fits
      BY <1>1, <1>3, <2>5, NewNotes
    <2>8. pc' \in [Processes -> Steps] /\ pc'[p] = "replace" /\ OthersSame(p)
      BY <1>1, <2>1, <2>7 DEF Types, OthersSame, Steps
    <2>9. Types' /\ Busy(p)'
      BY <1>1, <2>1, <2>7, <2>8 DEF Types, Busy
    <2>10. Shape(p)'
      BY <1>1, <2>1, <2>7, <2>8 DEF Shape, InPg, InDb, Busy
    <2>11. p = Api
      BY <1>1 DEF Shape
    <2>12. ASSUME job[p].alone, job[p].fits  PROVE Merged(p) = job[p].parsed
      <3>1. ~behind
        BY <1>1, <2>12 DEF Own, Shape
      <3>2. kb[p].snapshots = Notes(p)
        BY <1>1, <2>11, <3>1 DEF ApiInv, Current
      <3> QED  BY <1>1, <2>6, <3>2 DEF Shape
    <2>13. Own(p)'
      BY <1>1, <2>1, <2>7, <2>8, <2>12 DEF Own, Busy, OthersSame
    <2>14. ApiInv'
      BY <1>1, <2>1, <2>8, <2>11 DEF ApiInv, Current, Notes, InDb
    <2> QED  BY <1>1, <2>1, <2>8, <2>9, <2>10, <2>13, <2>14, GoesOn
  <1> QED  BY <1>2, <1>3 DEF Merge

LEMMA ReplaceKeeps ==
  ASSUME Inv, NEW p \in Processes, Replace(p)
  PROVE  Inv'
  <1>1. /\ pc[p] = "replace" /\ Busy(p) /\ Shape(p) /\ Own(p) /\ ApiInv /\ Types
        /\ kb[p] \in Kb /\ job[p] \in Job
    BY DEF Replace, At, Inv, Types, Busy
  <1>2. CASE InDb(p) /\ Raises(p)
    BY <1>1, <1>2, RaisesKeeps
  <1>3. CASE InDb(p) /\ Goto(p, "open") /\ UNCHANGED <<tables, kb, job, behind>> /\ Elsewhere
    <2>1. /\ pc' = [pc EXCEPT ![p] = "open"]
          /\ UNCHANGED <<files, up, rows, vecRows, kb, job, last, behind>>
      BY <1>3 DEF Goto, tables, Elsewhere
    <2>2. pc' \in [Processes -> Steps] /\ pc'[p] = "open" /\ OthersSame(p)
      BY <1>1, <2>1 DEF Types, OthersSame, Steps
    <2>3. Types' /\ Busy(p)'
      BY <1>1, <2>1, <2>2 DEF Types, Busy
    <2>4. Shape(p)'
      BY <1>1, <1>3, <2>1, <2>2 DEF Shape, InPg, InDb, Busy
    <2>5. Own(p)'
      BY <1>1, <2>1, <2>2 DEF Own, Busy, OthersSame
    <2>6. ApiInv'
      <3>1. CASE p = Api
        BY <1>1, <2>1, <2>2, <3>1 DEF ApiInv, Current, Notes, InDb
      <3>2. CASE p # Api
        BY <1>1, <2>1, <2>2, <3>2 DEF ApiInv, OthersSame, Current, Notes, InDb, Processes
      <3> QED  BY <3>1, <3>2
    <2> QED  BY <1>1, <2>1, <2>2, <2>3, <2>4, <2>5, <2>6, GoesOn
  <1>4. CASE /\ ~InDb(p)
             /\ kb' = [kb EXCEPT ![p].notes = job[p].notes]
             /\ behind' = (behind \/ p = Api)
             /\ Goto(p, "clear") /\ UNCHANGED <<tables, job>> /\ Elsewhere
    <2>1. /\ pc' = [pc EXCEPT ![p] = "clear"]
          /\ UNCHANGED <<files, up, rows, vecRows, job, last>>
      BY <1>4 DEF Goto, tables, Elsewhere
    <2>2. job[p].notes \in Vault
      BY <1>1 DEF Job
    <2>3. /\ kb' \in [Processes -> Kb] /\ Notes(p)' = job[p].notes
          /\ \A q \in Processes \ {p} : kb'[q] = kb[q]
          /\ kb'[p].store = kb[p].store /\ kb'[p].vectors = kb[p].vectors
      BY <1>1, <1>4, <2>1, <2>2, NewStore
    <2>4. pc' \in [Processes -> Steps] /\ pc'[p] = "clear" /\ OthersSame(p)
      BY <1>1, <2>1, <2>3 DEF Types, OthersSame, Steps
    <2>5. behind' \in BOOLEAN
      BY <1>4
    <2>6. Types' /\ Busy(p)'
      BY <1>1, <2>1, <2>3, <2>4, <2>5 DEF Types, Busy
    <2>7. Shape(p)'
      BY <1>1, <2>1, <2>3, <2>4 DEF Shape, InPg, InDb, Busy
    <2>8. Own(p)'
      BY <1>1, <2>1, <2>3, <2>4 DEF Own, Busy, OthersSame
    <2>9. ApiInv'
      <3>1. CASE p = Api
        BY <1>4, <2>4, <3>1 DEF ApiInv
      <3>2. CASE p # Api
        BY <1>1, <1>4, <2>1, <2>4, <3>2 DEF ApiInv, OthersSame, Current, Notes, InDb, Processes
      <3> QED  BY <3>1, <3>2
    <2> QED  BY <1>1, <2>1, <2>4, <2>6, <2>7, <2>8, <2>9, GoesOn
  <1> QED  BY <1>2, <1>3, <1>4 DEF Replace

\* What p's transaction leaves are notes, and p's own when no row was unseen.
LEMMA BesideIsVault ==
  ASSUME NEW p, job[p].notes \in Vault, rows \in Vault, NEW unseen \in SUBSET DOMAIN rows
  PROVE  Beside(p, unseen) \in Vault /\ (unseen = {} => Beside(p, unseen) = job[p].notes)
  <1> DEFINE f == job[p].notes
             h == Beside(p, unseen)
  <1>1. /\ DOMAIN f \subseteq Ids /\ f \in [DOMAIN f -> Versions]
        /\ DOMAIN rows \subseteq Ids /\ rows \in [DOMAIN rows -> Versions]
    BY VaultOf
  <1>2. /\ DOMAIN h = DOMAIN f \cup unseen /\ h \in [DOMAIN f \cup unseen -> Versions]
        /\ unseen = {} => \A i \in DOMAIN f : h[i] = f[i]
    BY <1>1 DEF Beside
  <1>3. h \in Vault
    BY <1>1, <1>2, VaultOf
  <1> HIDE DEF h
  <1>4. unseen = {} => h = f
    BY <1>2, <1>3, SameVaults
  <1> QED  BY <1>3, <1>4 DEF h

LEMMA CommitKeeps ==
  ASSUME Inv, NEW p \in Processes, Commit(p)
  PROVE  Inv'
  <1>1. /\ pc[p] \in {"open", "late"} /\ Busy(p) /\ Shape(p) /\ Own(p) /\ ApiInv /\ Types
        /\ kb[p] \in Kb /\ job[p] \in Job
    BY DEF Commit, Inv, Types, Busy
  <1>2. CASE Raises(p)
    BY <1>1, <1>2, RaisesKeeps
  <1>3. CASE Conflicts(p) /\ Ends(p, FALSE) /\ UNCHANGED behind
    BY <1>1, <1>3, FailureKeeps
  <1>4. ASSUME NEW unseen \in Unseen(p), rows' = Beside(p, unseen),
               behind' = (behind \/ p = Api \/ InDb(Api)),
               pc' = [Overtaken(p) EXCEPT ![p] = "clear"],
               UNCHANGED <<kb, vecRows, job>>, Elsewhere
        PROVE  Inv'
    <2>1. UNCHANGED <<files, up, vecRows, kb, job, last>>
      BY <1>4 DEF Elsewhere
    <2>2. /\ pc' \in [Processes -> Steps] /\ pc'[p] = "clear"
          /\ \A q \in Processes \ {p} : pc'[q] = IF pc[q] = "open" THEN "late" ELSE pc[q]
      <3>1. /\ Overtaken(p) \in [Processes -> Steps]
            /\ \A q \in Processes \ {p} : Overtaken(p)[q] = IF pc[q] = "open" THEN "late" ELSE pc[q]
        BY <1>1 DEF Types, Overtaken, At, Steps
      <3>2. "clear" \in Steps
        BY DEF Steps
      <3> QED  BY <1>4, <3>1, <3>2
    <2>3. unseen \in SUBSET DOMAIN rows /\ (pc[p] # "late" => unseen = {})
      BY DEF Unseen, At
    <2>4. rows' \in Vault /\ (unseen = {} => rows' = job[p].notes)
      <3>1. job[p].notes \in Vault /\ rows \in Vault
        BY <1>1 DEF Types, Job
      <3>2. unseen \in SUBSET DOMAIN rows
        BY <2>3
      <3>3. Beside(p, unseen) \in Vault /\ (unseen = {} => Beside(p, unseen) = job[p].notes)
        BY <3>1, <3>2, BesideIsVault
      <3> QED  BY <1>4, <3>3
    <2>5. behind' \in BOOLEAN
      BY <1>4 DEF InDb
    <2>6. Types' /\ Busy(p)'
      BY <1>1, <2>1, <2>2, <2>4, <2>5 DEF Types, Busy
    <2>7. Shape(p)'
      BY <1>1, <2>1, <2>2 DEF Shape, InPg, InDb, Busy
    <2>8. ASSUME NEW q \in Processes, q # p  PROVE Shape(q)' /\ Own(q)'
      <3>1. /\ Shape(q) /\ Own(q) /\ kb'[q] = kb[q] /\ job'[q] = job[q]
            /\ pc'[q] = IF pc[q] = "open" THEN "late" ELSE pc[q]
        BY <2>1, <2>2, <2>8 DEF Inv
      <3>2. CASE pc[q] = "open"
        <4>1. pc'[q] = "late"
          BY <3>1, <3>2
        <4> QED  BY <1>1, <2>8, <3>1, <3>2, <4>1 DEF Shape, Own, InPg, InDb, Busy
      <3>3. CASE pc[q] # "open"
        <4>1. pc'[q] = pc[q]
          BY <3>1, <3>3
        <4>2. Shape(q)'
          BY <3>1, <4>1 DEF Shape, InPg, InDb, Busy
        <4>3. ~(Busy(q)' /\ job'[q].alone)
          BY <1>1, <2>8, <3>1, <4>1 DEF Own, Busy
        <4> QED  BY <4>2, <4>3 DEF Own
      <3> QED  BY <3>2, <3>3
    <2>9. Own(p)'
      <3> SUFFICES ASSUME job[p].alone PROVE Own(p)'
        BY <2>1 DEF Own
      <3>1. /\ pc[p] = "open" /\ (\A q \in Processes \ {p} : ~Busy(q))
            /\ job[p].task = "incremental" /\ job[p].fits => job[p].notes = job[p].parsed
        BY <1>1 DEF Own
      <3>2. rows' = job[p].notes /\ InDb(p)
        BY <1>1, <2>3, <2>4, <3>1 DEF Shape
      <3>3. Notes(p)' = job'[p].notes
        BY <2>1, <3>2 DEF Notes, InDb
      <3>4. \A q \in Processes \ {p} : ~Busy(q)'
        BY <2>2, <3>1 DEF Busy
      <3> QED  BY <2>1, <2>2, <3>1, <3>3, <3>4 DEF Own
    <2>10. ApiInv'
      <3>1. CASE p = Api
        BY <1>4, <2>2, <3>1 DEF ApiInv
      <3>2. CASE p # Api
        <4>1. /\ Api \in Processes \ {p}
              /\ pc'[Api] = IF pc[Api] = "open" THEN "late" ELSE pc[Api]
          BY <2>2, <3>2 DEF Processes
        <4>2. ~behind' => ~behind /\ ~InDb(Api)
          BY <1>4
        <4>3. ~behind' => (Current' <=> Current)
          BY <2>1, <4>2 DEF Current, Notes, InDb
        <4> QED  BY <1>1, <1>4, <4>1, <4>2, <4>3 DEF ApiInv
      <3> QED  BY <3>1, <3>2
    <2>11. VectorsFollowNotes' /\ RunStoresFiles'
      BY <2>1, <2>6 DEF VectorsFollowNotes, RunStoresFiles, Quiet, Inv
    <2> QED  BY <2>6, <2>7, <2>8, <2>9, <2>10, <2>11 DEF Inv
  <1> QED  BY <1>2, <1>3, <1>4 DEF Commit

LEMMA ClearKeeps ==
  ASSUME Inv, NEW p \in Processes, Clear(p)
  PROVE  Inv'
  <1>1. /\ pc[p] = "clear" /\ Busy(p) /\ Shape(p) /\ Own(p) /\ ApiInv /\ Types
        /\ kb[p] \in Kb /\ job[p] \in Job
    BY DEF Clear, At, Inv, Types, Busy
  <1>2. CASE InPg(p) /\ Raises(p)
    BY <1>1, <1>2, RaisesKeeps
  <1>3. CASE /\ IF InPg(p) THEN vecRows' = Cleared(vecRows) /\ UNCHANGED kb
                ELSE kb' = [kb EXCEPT ![p].vecs = Cleared(@)] /\ UNCHANGED vecRows
             /\ job' = [job EXCEPT ![p].todo = DOMAIN job[p].notes]
             /\ Goto(p, "add") /\ UNCHANGED <<rows, behind>> /\ Elsewhere
    <2>1. /\ pc' = [pc EXCEPT ![p] = "add"] /\ UNCHANGED <<files, up, rows, last, behind>>
          /\ job' = [job EXCEPT ![p].todo = DOMAIN job[p].notes]
          /\ IF InPg(p) THEN vecRows' = None /\ kb' = kb
             ELSE kb' = [kb EXCEPT ![p].vecs = None] /\ vecRows' = vecRows
      BY <1>3, Zenon DEF Goto, Elsewhere, Cleared
    <2>2. DOMAIN job[p].notes \in SUBSET Ids
      BY <1>1, VaultOf DEF Job
    <2>3. /\ vecRows' \in Vault /\ kb' \in [Processes -> Kb] /\ Vecs(p)' = None
          /\ \A q \in Processes \ {p} : kb'[q] = kb[q]
          /\ kb'[p].store = kb[p].store /\ kb'[p].vectors = kb[p].vectors
          /\ kb'[p].notes = kb[p].notes /\ kb'[p].graph = kb[p].graph
          /\ kb'[p].snapshots = kb[p].snapshots
      BY <1>1, <2>1, NewVecs, NoneInVault
    <2>4. /\ job' \in [Processes -> Job] /\ \A q \in Processes \ {p} : job'[q] = job[q]
          /\ job'[p].todo = DOMAIN job[p].notes /\ job'[p].task = job[p].task
          /\ job'[p].notes = job[p].notes /\ job'[p].parsed = job[p].parsed
          /\ job'[p].alone = job[p].alone /\ job'[p].fits = job[p].fits
      BY <1>1, <2>1, <2>2, NewTodo
    <2>5. pc' \in [Processes -> Steps] /\ pc'[p] = "add" /\ OthersSame(p)
      BY <1>1, <2>1, <2>3, <2>4 DEF Types, OthersSame, Steps
    <2>6. Types' /\ Busy(p)'
      BY <1>1, <2>1, <2>3, <2>4, <2>5 DEF Types, Busy
    <2>7. Shape(p)'
      BY <1>1, <2>1, <2>3, <2>4, <2>5 DEF Shape, InPg, InDb, Busy
    <2>8. Notes(p)' = Notes(p)
      BY <2>1, <2>3 DEF Notes, InDb
    <2>9. Own(p)'
      BY <1>1, <2>1, <2>3, <2>4, <2>5, <2>8, NoneInVault DEF Own, Busy, OthersSame
    <2>10. ApiInv'
      <3>1. CASE p = Api
        BY <1>1, <2>1, <2>5, <3>1 DEF ApiInv
      <3>2. CASE p # Api
        BY <1>1, <2>1, <2>5, <3>2 DEF ApiInv, OthersSame, Current, Notes, InDb, Processes
      <3> QED  BY <3>1, <3>2
    <2> QED  BY <1>1, <2>1, <2>5, <2>6, <2>7, <2>9, <2>10, GoesOn
  <1> QED  BY <1>2, <1>3 DEF Clear

LEMMA AddKeeps ==
  ASSUME Inv, NEW p \in Processes, Add(p)
  PROVE  Inv'
  <1>1. /\ pc[p] = "add" /\ Busy(p) /\ Shape(p) /\ Own(p) /\ ApiInv /\ Types
        /\ kb[p] \in Kb /\ job[p] \in Job
    BY DEF Add, At, Inv, Types, Busy
  <1>2. CASE InPg(p) /\ Raises(p)
    BY <1>1, <1>2, RaisesKeeps
  <1>3. ASSUME NEW i \in job[p].todo,
               IF InPg(p) THEN vecRows' = Added(vecRows, i, job[p].notes[i]) /\ UNCHANGED kb
               ELSE kb' = [kb EXCEPT ![p].vecs = Added(@, i, job[p].notes[i])] /\ UNCHANGED vecRows,
               job' = [job EXCEPT ![p].todo = @ \ {i}],
               UNCHANGED <<rows, pc, behind>>, Elsewhere
        PROVE  Inv'
    <2> DEFINE v == job[p].notes[i]
    <2>1. /\ UNCHANGED <<files, up, rows, pc, last, behind>>
          /\ job' = [job EXCEPT ![p].todo = job[p].todo \ {i}]
      BY <1>3, <1>1 DEF Elsewhere, Types
    <2>2. i \in DOMAIN job[p].notes /\ job[p].notes \in Vault /\ job[p].todo \in SUBSET Ids
      BY <1>1, <1>3 DEF Shape, Job
    <2>3. i \in Ids /\ v \in Versions /\ job[p].todo \ {i} \in SUBSET Ids
      BY <2>2, VaultOf
    <2>4. Vecs(p) \in Vault
      BY <1>1 DEF Vecs, Types, Kb
    <2> DEFINE x == Added(Vecs(p), i, v)
    <2>5. /\ x \in Vault /\ DOMAIN x = DOMAIN Vecs(p) \cup {i} /\ x[i] = v
          /\ \A j \in DOMAIN Vecs(p) : j # i => x[j] = Vecs(p)[j]
      BY <2>3, <2>4, AddedTo
    <2>6. IF InPg(p) THEN vecRows' = x /\ kb' = kb
          ELSE kb' = [kb EXCEPT ![p].vecs = x] /\ vecRows' = vecRows
      BY <1>1, <1>3, Zenon DEF Vecs, Types
    <2> HIDE DEF x
    <2>7. /\ vecRows' \in Vault /\ kb' \in [Processes -> Kb] /\ Vecs(p)' = x
          /\ \A q \in Processes \ {p} : kb'[q] = kb[q]
          /\ kb'[p].store = kb[p].store /\ kb'[p].vectors = kb[p].vectors
          /\ kb'[p].notes = kb[p].notes /\ kb'[p].graph = kb[p].graph
          /\ kb'[p].snapshots = kb[p].snapshots
      BY <1>1, <2>5, <2>6, NewVecs
    <2>8. /\ job' \in [Processes -> Job] /\ \A q \in Processes \ {p} : job'[q] = job[q]
          /\ job'[p].todo = job[p].todo \ {i} /\ job'[p].task = job[p].task
          /\ job'[p].notes = job[p].notes /\ job'[p].parsed = job[p].parsed
          /\ job'[p].alone = job[p].alone /\ job'[p].fits = job[p].fits
      BY <1>1, <2>1, <2>3, NewTodo
    <2>9. OthersSame(p)
      BY <2>1, <2>7, <2>8 DEF OthersSame
    <2>10. Types' /\ Busy(p)'
      BY <1>1, <2>1, <2>7, <2>8 DEF Types, Busy
    <2>11. Shape(p)'
      BY <1>1, <2>1, <2>7, <2>8 DEF Shape, InPg, InDb, Busy
    <2>12. Notes(p)' = Notes(p)
      BY <2>1, <2>7 DEF Notes, InDb
    <2>13. Own(p)'
      <3> SUFFICES ASSUME job[p].alone PROVE Own(p)'
        BY <2>8 DEF Own
      <3>1. /\ \A q \in Processes \ {p} : ~Busy(q)
            /\ Notes(p) = job[p].notes
            /\ DOMAIN Vecs(p) = DOMAIN job[p].notes \ job[p].todo
            /\ \A j \in DOMAIN Vecs(p) : Vecs(p)[j] = job[p].notes[j]
            /\ job[p].task = "incremental" /\ job[p].fits => job[p].notes = job[p].parsed
        BY <1>1 DEF Own
      <3>2. /\ DOMAIN x = DOMAIN job[p].notes \ (job[p].todo \ {i})
            /\ \A j \in DOMAIN x : x[j] = job[p].notes[j]
        BY <1>1, <1>3, <2>2, <2>5, <3>1 DEF Shape
      <3>3. \A q \in Processes \ {p} : ~Busy(q)'
        BY <2>9, <3>1 DEF OthersSame, Busy
      <3> QED  BY <1>1, <2>1, <2>7, <2>8, <2>12, <3>1, <3>2, <3>3 DEF Own
    <2>14. ApiInv'
      <3>1. CASE p = Api
        BY <1>1, <2>1, <3>1 DEF ApiInv
      <3>2. CASE p # Api
        BY <1>1, <2>1, <2>9, <3>2 DEF ApiInv, OthersSame, Current, Notes, InDb, Processes
      <3> QED  BY <3>1, <3>2
    <2> QED  BY <1>1, <2>1, <2>9, <2>10, <2>11, <2>13, <2>14, GoesOn
  <1> QED  BY <1>2, <1>3, Zenon DEF Add

\* A run that had the database to itself leaves its vectors with its notes.
LEMMA GoodEnd ==
  ASSUME Inv, NEW p \in Processes, Busy(p), NEW base \in Kb,
         base.store = kb[p].store, base.vectors = kb[p].vectors, base.notes = kb[p].notes,
         base.vecs = kb[p].vecs,
         EndsWith(p, TRUE, base), behind' \in BOOLEAN, Shape(p),
         pc[p] \notin {"off", "probe"},
         job[p].alone => Notes(p) = job[p].notes,
         job[p].alone /\ (job[p].notes # None \/ job[p].task \notin {"start", "reindex"} \/ p = Api) =>
           Vecs(p) = job[p].notes
  PROVE  /\ Types' /\ OthersSame(p) /\ (\A q \in Processes : Shape(q)' /\ Own(q)')
         /\ pc'[p] = (IF p = Api THEN "idle" ELSE "off")
         /\ kb'[p] = (IF p = Api THEN base ELSE NoKb)
         /\ rows' = rows
         /\ VectorsFollowNotes'
         /\ last'.ok /\ last'.task = job[p].task /\ last'.notes = job[p].notes
         /\ last'.parsed = job[p].parsed /\ last'.alone = job[p].alone
         /\ last'.fits = job[p].fits
  <1>1. base.store \in {"db", "memory"} /\ (base.vectors = "pg" => base.store = "db")
    BY DEF Shape, InPg, InDb
  <1>2. Serves(p, TRUE) <=> p = Api
    BY DEF Serves
  <1>3. /\ Types' /\ OthersSame(p) /\ (\A q \in Processes : Shape(q)' /\ Own(q)')
        /\ pc'[p] = (IF Serves(p, TRUE) THEN "idle" ELSE "off")
        /\ kb'[p] = (IF Serves(p, TRUE) THEN base ELSE NoKb)
        /\ rows' = rows /\ vecRows' = vecRows
        /\ last'.by = p /\ last'.task = job[p].task /\ last'.ok = TRUE /\ last'.store = kb[p].store
        /\ last'.vectors = kb[p].vectors /\ last'.notes = job[p].notes
        /\ last'.parsed = job[p].parsed /\ last'.alone = job[p].alone /\ last'.fits = job[p].fits
    BY <1>1, EndsEffect
  <1>4. VectorsFollowNotes'
    <2> SUFFICES ASSUME last'.alone
                 PROVE  /\ last'.store = "db" => rows' = last'.notes
                        /\ last'.vectors = "pg" /\ ~ReturnedEarly' => vecRows' = last'.notes
                        /\ last'.by = Api /\ pc'[Api] = "idle" =>
                             /\ Notes(Api)' = last'.notes
                             /\ ~InPg(Api)' => kb'[Api].vecs = last'.notes
      BY DEF VectorsFollowNotes, At
    <2>1. /\ Notes(p) = job[p].notes
          /\ ~ReturnedEarly' \/ p = Api => Vecs(p) = job[p].notes
      BY <1>3 DEF ReturnedEarly
    <2>2. p = Api => kb'[Api] = base
      BY <1>2, <1>3
    <2> QED  BY <1>3, <2>1, <2>2 DEF Notes, Vecs, InDb, InPg
  <1> QED  BY <1>2, <1>3, <1>4

LEMMA BuildGraphKeeps ==
  ASSUME Inv, NEW p \in Processes, BuildGraph(p)
  PROVE  Inv'
  <1> DEFINE a == [kb[p] EXCEPT !.graph = job[p].notes]
             built == [a EXCEPT !.snapshots = job[p].notes]
  <1>1. /\ pc[p] = "add" /\ Busy(p) /\ Shape(p) /\ Own(p) /\ ApiInv /\ Types
        /\ kb[p] \in Kb /\ job[p] \in Job /\ job[p].notes \in Vault /\ job[p].todo = {}
    BY DEF BuildGraph, At, Inv, Types, Busy, Job
  <1>2. /\ a \in Kb /\ a.graph = job[p].notes /\ a.store = kb[p].store /\ a.vectors = kb[p].vectors
        /\ a.notes = kb[p].notes /\ a.vecs = kb[p].vecs
    BY <1>1, SetGraph, Zenon
  <1>3. /\ behind' = IF p = Api THEN ~job[p].alone ELSE behind
        /\ \/ job[p].task = "start" /\ EndsWith(p, TRUE, built)
           \/ /\ job[p].task # "start"
              /\ kb' = [kb EXCEPT ![p] = built] /\ pc' = [pc EXCEPT ![p] = "report"]
              /\ UNCHANGED <<files, up, rows, vecRows, job, last>>
    BY Zenon DEF BuildGraph, Goto, tables, Elsewhere
  <1> HIDE DEF a
  <1>4. /\ built \in Kb /\ built.snapshots = job[p].notes /\ built.graph = job[p].notes
        /\ built.store = kb[p].store /\ built.vectors = kb[p].vectors
        /\ built.notes = kb[p].notes /\ built.vecs = kb[p].vecs
    BY <1>1, <1>2, SetSnapshots, Zenon
  <1> HIDE DEF built
  <1>5. behind' \in BOOLEAN
    BY <1>1, <1>3 DEF Job, Types
  <1>6. job[p].alone => Notes(p) = job[p].notes /\ Vecs(p) = job[p].notes
    <2> SUFFICES ASSUME job[p].alone PROVE Notes(p) = job[p].notes /\ Vecs(p) = job[p].notes
      OBVIOUS
    <2>1. Vecs(p) \in Vault
      BY <1>1 DEF Vecs, Types, Kb
    <2>2. /\ Notes(p) = job[p].notes /\ DOMAIN Vecs(p) = DOMAIN job[p].notes
          /\ \A i \in DOMAIN Vecs(p) : Vecs(p)[i] = job[p].notes[i]
      BY <1>1 DEF Own
    <2> QED  BY <1>1, <2>1, <2>2, SameVaults
  <1>7. CASE job[p].task = "start" /\ EndsWith(p, TRUE, built)
    <2>1. p = Api
      BY <1>1, <1>7 DEF Shape
    <2>2. /\ Types' /\ (\A q \in Processes : Shape(q)' /\ Own(q)')
          /\ pc'[p] = "idle" /\ kb'[p] = built /\ rows' = rows /\ VectorsFollowNotes'
          /\ last'.task = "start"
      BY <1>1, <1>4, <1>5, <1>6, <1>7, <2>1, GoodEnd
    <2>3. ApiInv'
      BY <1>3, <1>4, <1>6, <2>1, <2>2 DEF ApiInv, Current, Notes, InDb
    <2> QED  BY <2>2, <2>3 DEF Inv, RunStoresFiles
  <1>8. CASE /\ job[p].task # "start"
             /\ kb' = [kb EXCEPT ![p] = built] /\ pc' = [pc EXCEPT ![p] = "report"]
             /\ UNCHANGED <<files, up, rows, vecRows, job, last>>
    <2>1. /\ pc' \in [Processes -> Steps] /\ kb' \in [Processes -> Kb] /\ kb'[p] = built
          /\ pc'[p] = "report" /\ OthersSame(p)
      BY <1>1, <1>4, <1>8 DEF Types, OthersSame, Steps
    <2>2. Types' /\ Busy(p)'
      BY <1>1, <1>5, <1>8, <2>1 DEF Types, Busy
    <2>3. Shape(p)'
      BY <1>1, <1>4, <1>8, <2>1 DEF Shape, InPg, InDb, Busy
    <2>4. Notes(p)' = Notes(p) /\ Vecs(p)' = Vecs(p)
      BY <1>4, <1>8, <2>1 DEF Notes, Vecs, InDb, InPg
    <2>5. Own(p)'
      BY <1>1, <1>6, <1>8, <2>1, <2>4 DEF Own, Busy, OthersSame
    <2>6. ApiInv'
      <3>1. CASE p = Api
        BY <1>3, <1>4, <1>6, <2>1, <2>4, <3>1 DEF ApiInv, Current
      <3>2. CASE p # Api
        BY <1>1, <1>3, <1>8, <2>1, <3>2 DEF ApiInv, OthersSame, Current, Notes, InDb, Processes
      <3> QED  BY <3>1, <3>2
    <2> QED  BY <1>1, <1>8, <2>1, <2>2, <2>3, <2>5, <2>6, GoesOn
  <1> QED  BY <1>3, <1>7, <1>8

LEMMA ReportKeeps ==
  ASSUME Inv, NEW p \in Processes, Report(p)
  PROVE  Inv'
  <1>1. /\ pc[p] = "report" /\ Busy(p) /\ Shape(p) /\ Own(p) /\ ApiInv /\ Types
        /\ kb[p] \in Kb /\ job[p] \in Job
    BY DEF Report, At, Inv, Types, Busy
  <1>2. CASE InDb(p) /\ Raises(p)
    BY <1>1, <1>2, RaisesKeeps
  <1>3. CASE Ends(p, TRUE) /\ UNCHANGED behind
    <2>1. /\ Types' /\ OthersSame(p) /\ (\A q \in Processes : Shape(q)' /\ Own(q)')
          /\ pc'[p] = (IF p = Api THEN "idle" ELSE "off")
          /\ kb'[p] = (IF p = Api THEN kb[p] ELSE NoKb)
          /\ rows' = rows /\ VectorsFollowNotes'
          /\ last'.ok /\ last'.task = job[p].task /\ last'.notes = job[p].notes
          /\ last'.parsed = job[p].parsed /\ last'.alone = job[p].alone
          /\ last'.fits = job[p].fits
      <3>1. /\ job[p].alone => Notes(p) = job[p].notes
            /\ job[p].alone /\ (job[p].notes # None \/ job[p].task \notin {"start", "reindex"} \/ p = Api) =>
                 Vecs(p) = job[p].notes
        BY <1>1 DEF Own
      <3>2. EndsWith(p, TRUE, kb[p]) /\ behind' \in BOOLEAN
        BY <1>1, <1>3 DEF Ends, Types
      <3> QED  BY <1>1, <3>1, <3>2, GoodEnd
    <2>2. ApiInv'
      <3>1. CASE p = Api
        BY <1>1, <1>3, <2>1, <3>1 DEF ApiInv, Current, Notes, InDb
      <3>2. CASE p # Api
        BY <1>1, <1>3, <2>1, <3>2 DEF ApiInv, OthersSame, Current, Notes, InDb, Processes
      <3> QED  BY <3>1, <3>2
    <2>3. RunStoresFiles'
      BY <1>1, <2>1 DEF RunStoresFiles, Shape, Own
    <2> QED  BY <2>1, <2>2, <2>3 DEF Inv
  <1> QED  BY <1>2, <1>3 DEF Report

\* A run starts: whoever runs at the same time is no longer alone.
LEMMA LaunchKeeps ==
  ASSUME Inv, NEW p \in Processes, NEW task \in Tasks, NEW step \in {"probe", "parse"},
         Launch(p, step, task), ~Busy(p),
         step = "probe" => pc[p] = "off",
         step = "parse" => pc[p] = "idle" /\ p = Api /\ task \in {"index", "incremental"},
         p = Api /\ step = "probe" => task = "start",
         p # Api => task \in {"index", "reindex"}
  PROVE  Inv'
  <1> DEFINE a == [NoJob EXCEPT !.task = task]
             b == [a EXCEPT !.alone = Quiet]
             mine == [b EXCEPT !.fits = ~behind]
             marked(q) == [job[q] EXCEPT !.alone = job[q].alone /\ ~Busy(q)]
  <1>1. Types /\ ApiInv /\ Shape(p)
    BY DEF Inv
  <1>2. a \in Job /\ a.task = task /\ a.notes = None /\ a.parsed = None
    BY NoJobIsJob, SetTask, Zenon
  <1>3. /\ pc' = [pc EXCEPT ![p] = step] /\ UNCHANGED <<files, up, rows, vecRows, kb, last, behind>>
        /\ job' = [q \in Processes |-> IF q = p THEN mine ELSE marked(q)]
    BY Zenon DEF Launch, Goto, tables
  <1>4. Quiet \in BOOLEAN /\ (~behind) \in BOOLEAN
    BY DEF Quiet
  <1> HIDE DEF a
  <1>5. b \in Job /\ b.alone = Quiet /\ b.task = task /\ b.notes = None /\ b.parsed = None
    BY <1>2, <1>4, SetAlone, Zenon
  <1> HIDE DEF b
  <1>6. /\ mine \in Job /\ mine.fits = (~behind) /\ mine.alone = Quiet /\ mine.task = task
        /\ mine.notes = None
    BY <1>4, <1>5, SetFits, Zenon
  <1>7. ASSUME NEW q \in Processes
        PROVE  /\ marked(q) \in Job /\ marked(q).alone = (job[q].alone /\ ~Busy(q))
               /\ marked(q).task = job[q].task /\ marked(q).notes = job[q].notes
               /\ marked(q).parsed = job[q].parsed /\ marked(q).todo = job[q].todo
    <2>1. job[q] \in Job
      BY <1>1 DEF Types
    <2>2. (job[q].alone /\ ~Busy(q)) \in BOOLEAN
      BY <2>1 DEF Busy
    <2> QED  BY <2>1, <2>2, SetAlone, Zenon
  <1> HIDE DEF mine, marked
  <1>8. /\ job' \in [Processes -> Job] /\ job'[p] = mine
        /\ \A q \in Processes \ {p} : job'[q] = marked(q)
    BY <1>3, <1>6, <1>7
  <1>9. /\ pc' \in [Processes -> Steps] /\ pc'[p] = step
        /\ \A q \in Processes \ {p} : pc'[q] = pc[q]
    BY <1>1, <1>3 DEF Types, Steps
  <1>10. Types'
    BY <1>1, <1>3, <1>8, <1>9 DEF Types
  <1>11. ASSUME NEW q \in Processes, q # p  PROVE Shape(q)' /\ Own(q)'
    <2>1. Shape(q)
      BY DEF Inv
    <2>2. pc'[q] = pc[q] /\ job'[q] = marked(q) /\ kb'[q] = kb[q]
      BY <1>3, <1>8, <1>9, <1>11
    <2>3. Shape(q)'
      BY <1>7, <2>1, <2>2 DEF Shape, InPg, InDb, Busy
    <2>4. ~(Busy(q)' /\ job'[q].alone)
      BY <1>7, <2>2 DEF Busy
    <2> QED  BY <2>3, <2>4 DEF Own
  <1>12. Shape(p)'
    BY <1>1, <1>3, <1>6, <1>8, <1>9 DEF Shape, InPg, InDb, Busy
  <1>13. Own(p)'
    <2>1. Quiet => \A q \in Processes \ {p} : ~Busy(q)'
      BY <1>9 DEF Quiet, Busy
    <2> QED  BY <1>3, <1>6, <1>8, <1>9, <2>1 DEF Own
  <1>14. ApiInv'
    BY <1>1, <1>3, <1>9 DEF ApiInv, Current, Notes, InDb, Processes
  <1>15. Busy(p)' /\ ~Quiet'
    BY <1>9 DEF Busy, Quiet
  <1>16. VectorsFollowNotes' /\ RunStoresFiles'
    BY <1>3, <1>15 DEF VectorsFollowNotes, RunStoresFiles, Inv
  <1> QED  BY <1>10, <1>11, <1>12, <1>13, <1>14, <1>16 DEF Inv

LEMMA CrashKeeps ==
  ASSUME Inv, NEW p \in Processes, Crash(p)
  PROVE  Inv'
  <1>1. Types /\ ApiInv /\ Shape(p) /\ pc[p] # "off"
    BY DEF Crash, At, Inv
  <1>2. /\ pc' = [pc EXCEPT ![p] = "off"] /\ kb' = [kb EXCEPT ![p] = NoKb]
        /\ job' = [job EXCEPT ![p] = NoJob]
        /\ last' = IF Busy(p) THEN [last EXCEPT !.ok = FALSE] ELSE last
        /\ UNCHANGED <<files, up, rows, vecRows, behind>>
    BY DEF Crash, Goto, tables
  <1>3. /\ pc' \in [Processes -> Steps] /\ kb' \in [Processes -> Kb] /\ job' \in [Processes -> Job]
        /\ pc'[p] = "off" /\ kb'[p] = NoKb /\ job'[p] = NoJob /\ OthersSame(p)
    BY <1>1, <1>2, NoKbIsKb, NoJobIsJob DEF Types, OthersSame, Steps
  <1>4. CASE Busy(p)
    <2>1. last' \in Last /\ last'.ok = FALSE
      BY <1>1, <1>2, <1>4, SetOk, Zenon DEF Types
    <2>2. Types'
      BY <1>1, <1>2, <1>3, <2>1 DEF Types
    <2>3. Shape(p)' /\ Own(p)'
      BY <1>3, NoKbIsKb DEF Shape, Own, Busy, InPg, InDb
    <2>4. ApiInv'
      BY <1>1, <1>2, <1>3 DEF ApiInv, OthersSame, Current, Notes, InDb, Processes
    <2> QED  BY <1>3, <1>4, <2>1, <2>2, <2>3, <2>4, OthersKeep
             DEF Inv, VectorsFollowNotes, RunStoresFiles
  <1>5. CASE ~Busy(p)
    <2>1. p = Api /\ pc[p] = "idle" /\ last' = last
      BY <1>1, <1>2, <1>5 DEF Busy, Shape
    <2>2. Types'
      BY <1>1, <1>2, <1>3, <2>1 DEF Types
    <2>3. ASSUME NEW q \in Processes PROVE Shape(q)' /\ Own(q)'
      <3>1. CASE q = p
        BY <1>3, <3>1, NoKbIsKb DEF Shape, Own, Busy, InPg, InDb
      <3>2. CASE q # p
        <4>1. Shape(q) /\ Own(q) /\ pc'[q] = pc[q] /\ kb'[q] = kb[q] /\ job'[q] = job[q]
          BY <1>3, <3>2 DEF Inv, OthersSame
        <4>2. Shape(q)'
          BY <4>1 DEF Shape, InPg, InDb, Busy
        <4>3. Notes(q)' = Notes(q) /\ Vecs(q)' = Vecs(q)
          BY <1>2, <4>1 DEF Notes, Vecs, InDb, InPg
        <4>4. Busy(q) /\ job[q].alone => \A r \in Processes \ {q} : ~Busy(r)'
          BY <1>3, <4>1 DEF Own, OthersSame, Busy
        <4>5. Own(q)'
          BY <1>2, <4>1, <4>3, <4>4 DEF Own, Busy
        <4> QED  BY <4>2, <4>5
      <3> QED  BY <3>1, <3>2
    <2>4. ApiInv'
      BY <1>3, <2>1 DEF ApiInv
    <2>5. Quiet' => Quiet
      BY <1>3, <1>5 DEF Quiet, Busy, OthersSame
    <2>6. VectorsFollowNotes'
      BY <1>2, <1>3, <2>1, <2>5 DEF VectorsFollowNotes, Inv, At, ReturnedEarly
    <2> QED  BY <2>1, <2>2, <2>3, <2>4, <2>6 DEF Inv, RunStoresFiles
  <1> QED  BY <1>4, <1>5

\* What no process does: an edit of the files, a database that comes or goes.
LEMMA AroundKeeps ==
  ASSUME Inv, Types', UNCHANGED <<rows, vecRows, kb, pc, job, last, behind>>
  PROVE  Inv'
  <1>1. ASSUME NEW p \in Processes PROVE Shape(p)' /\ Own(p)'
    <2>1. Shape(p) /\ Own(p)
      BY DEF Inv
    <2> QED  BY <2>1 DEF Shape, Own, Busy, Notes, Vecs, InDb, InPg
  <1>2. ApiInv'
    BY DEF Inv, ApiInv, Current, Notes, InDb
  <1>3. VectorsFollowNotes' /\ RunStoresFiles'
    BY DEF Inv, VectorsFollowNotes, RunStoresFiles, Quiet, Busy, At, ReturnedEarly, Notes, InDb, InPg
  <1> QED  BY <1>1, <1>2, <1>3 DEF Inv

LEMMA InvInit == Init => Inv
  <1> SUFFICES ASSUME Init PROVE Inv
    OBVIOUS
  <1>1. /\ files \in Vault /\ up \in BOOLEAN /\ rows = None /\ vecRows = None
        /\ kb = [p \in Processes |-> NoKb] /\ pc = [p \in Processes |-> "off"]
        /\ job = [p \in Processes |-> NoJob] /\ behind = FALSE
    BY DEF Init
  <1>2. Api \in Processes
    BY DEF Processes
  <1>3. last = Ended(Api, FALSE)
    BY DEF Init
  <1>4. last \in Last /\ last.ok = FALSE
    BY <1>1, <1>2, <1>3, NoKbIsKb, NoJobIsJob DEF Ended, Last, Stores, Tasks, Job
  <1>5. Types
    BY <1>1, <1>4, NoneInVault, NoKbIsKb, NoJobIsJob DEF Types, Steps
  <1>6. \A p \in Processes : Shape(p) /\ Own(p)
    BY <1>1, NoKbIsKb, NoJobIsJob DEF Shape, Own, Busy, InPg, InDb
  <1> QED  BY <1>1, <1>2, <1>4, <1>5, <1>6 DEF Inv, ApiInv, VectorsFollowNotes, RunStoresFiles

LEMMA InvStep == Inv /\ [Next]_vars => Inv'
  <1> SUFFICES ASSUME Inv, [Next]_vars PROVE Inv'
    OBVIOUS
  <1> USE DEF Tasks
  <1>1. Api \in Processes /\ (\A w \in Workers : w \in Processes /\ w # Api)
    BY ProcessesAssumption DEF Processes
  <1>2. CASE Start
    <2>1. Launch(Api, "probe", "start") /\ pc[Api] = "off" /\ ~Busy(Api)
      BY <1>2 DEF Start, At, Busy
    <2> QED  BY <1>1, <2>1, LaunchKeeps
  <1>3. ASSUME NEW task \in {"index", "incremental"}, Request(task)  PROVE Inv'
    <2>1. Launch(Api, "parse", task) /\ pc[Api] = "idle" /\ ~Busy(Api)
      BY <1>3 DEF Request, At, Busy
    <2> QED  BY <1>1, <2>1, LaunchKeeps
  <1>4. ASSUME NEW w \in Workers, NEW task \in {"index", "reindex"}, Task(w, task)  PROVE Inv'
    <2>1. Launch(w, "probe", task) /\ pc[w] = "off" /\ ~Busy(w)
      BY <1>4 DEF Task, At, Busy
    <2> QED  BY <1>1, <2>1, LaunchKeeps
  <1>5. ASSUME NEW p \in Processes, Run(p)  PROVE Inv'
    BY <1>5, ProbeKeeps, SetupKeeps, ListNotesKeeps, ParseKeeps, MergeKeeps, ReplaceKeeps,
       CommitKeeps, ClearKeeps, AddKeeps, BuildGraphKeeps, ReportKeeps DEF Run
  <1>6. ASSUME NEW p \in Processes, Crash(p)  PROVE Inv'
    BY <1>6, CrashKeeps
  <1>7. ASSUME NEW v \in Vault, Edit(v)  PROVE Inv'
    <2>1. files' = v /\ UNCHANGED <<up, rows, vecRows, kb, pc, job, last, behind>>
      BY <1>7 DEF Edit, tables
    <2>2. Types'
      BY <2>1 DEF Types, Inv
    <2> QED  BY <2>1, <2>2, AroundKeeps
  <1>8. CASE ComesAndGoes
    <2>1. up' = ~up /\ UNCHANGED <<files, rows, vecRows, kb, pc, job, last, behind>>
      BY <1>8 DEF ComesAndGoes, tables
    <2>2. Types'
      BY <2>1 DEF Types, Inv
    <2> QED  BY <2>1, <2>2, AroundKeeps
  <1>9. CASE UNCHANGED vars
    <2>1. UNCHANGED <<files, up, rows, vecRows, kb, pc, job, last, behind>>
      BY <1>9 DEF vars
    <2>2. Types'
      BY <2>1 DEF Types, Inv
    <2> QED  BY <2>1, <2>2, AroundKeeps
  <1> QED  BY <1>2, <1>3, <1>4, <1>5, <1>6, <1>7, <1>8, <1>9 DEF Next

LEMMA Invariant == Spec => []Inv
  BY InvInit, InvStep, PTL DEF Spec

-----------------------------------------------------------------------------
\* Every variable keeps its type, and only a process that is off or has just
\* begun is without a store.
THEOREM TypeCorrect == Spec => []TypeOK
  <1>1. Inv => TypeOK
    <2> SUFFICES ASSUME Inv PROVE TypeOK
      OBVIOUS
    <2>1. Types /\ \A p \in Processes : Shape(p)
      BY DEF Inv
    <2>2. ASSUME NEW p \in Processes
          PROVE  /\ pc[p] \in Steps /\ kb[p] \in Kb /\ job[p] \in Job
                 /\ (pc[p] = "idle" => p = Api) /\ (InPg(p) => InDb(p))
                 /\ (kb[p].store = "none" <=> pc[p] \in {"off", "probe"})
      BY <2>1, NoKbIsKb DEF Types, Shape
    <2> QED  BY <2>1, <2>2 DEF TypeOK, Types, At, Kb, Job
  <1> QED  BY <1>1, Invariant, PTL

\* engine.py, worker.py: the vectors follow the notes of the last run that was
\* alone and ended well, whatever overlapped, failed or crashed before it.
THEOREM VectorsFollow == Spec => []VectorsFollowNotes
  <1>1. Inv => VectorsFollowNotes
    BY DEF Inv
  <1> QED  BY <1>1, Invariant, PTL

\* main.py, engine.py: a serving API that is not behind has the graph and the
\* snapshots of the stored notes.
THEOREM ServesCurrent == Spec => []ApiIsCurrent
  <1>1. Inv => ApiIsCurrent
    BY DEF Inv, ApiInv, ApiIsCurrent, Current, At
  <1> QED  BY <1>1, Invariant, PTL

\* engine.py: what a run alone has parsed is what it stores, an incremental run
\* of an API that is not behind included.
THEOREM StoresFiles == Spec => []RunStoresFiles
  <1>1. Inv => RunStoresFiles
    BY DEF Inv
  <1> QED  BY <1>1, Invariant, PTL

=============================================================================
