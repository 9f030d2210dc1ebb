----------------------------- MODULE LocalState -----------------------------
(***************************************************************************)
(* Saved searches and the vault registry: the dicts of KnowledgeBase, the  *)
(* rows SQLiteRuntimePersistence keeps of them, and requests on several    *)
(* threads that change the one and then the other, a statement at a time.  *)
(* Indexing is here for what it writes of the registry: it may give the    *)
(* default vault its root again, and a vault without a row gets one.       *)
(*                                                                         *)
(* A search's id is a hash of its vault, name and query (mode and tags are *)
(* part of the query here), so a search is its own id.  A request works on *)
(* one key, a vault and a name or a vault; but the searches of all vaults  *)
(* are in one dict, which a save looks through for namesakes in Python,    *)
(* while other threads change it.                                          *)
(***************************************************************************)
EXTENDS Naturals, FiniteSets

CONSTANTS Threads, Vaults, Default, Names, Queries, Roots, DefaultRoot, NoRoot, Unknown, None,
          MaxRequests, MaxFaults, MaxRestarts   \* bounds

VARIABLES
  searches,    \* _saved_searches
  rows,        \* table saved_searches
  vaults,      \* _vaults: of each vault its root, and the request that made its state
  vaultRows,   \* table vaults: of each vault its root, NoRoot for NULL
  selected,    \* _selected_vault_id
  pc, job,     \* of each thread: the statement it is at, and its local variables
  walk,        \* of each thread that looks for namesakes: the size the dict had when it
               \* began, the namesakes that were there at some time since, and whether
               \* another request has changed the dict since
  answered,    \* of each key, what the last request on it answered; Unknown while a
               \* request is on it, and after one that failed or overlapped another
  disturbed,   \* since the start: keys with a failed transaction, with requests that
               \* overlapped, or with a save that missed a namesake
  surprised,   \* since the start: keys of requests that raised although none of their
               \* transactions failed and nobody changed the dict they looked through
  requests, faults, restarts

vars == <<searches, rows, vaults, vaultRows, selected, pc, job, walk, answered, disturbed,
          surprised, requests, faults, restarts>>

memory == <<searches, vaults, selected>>
tables == <<rows, vaultRows>>
ghosts == <<answered, disturbed, surprised>>
bounds == <<requests, faults, restarts>>

Searches == [vault : Vaults, name : Names, query : Queries]
SearchKeys == Vaults \X Names
VaultKeys == {<<v>> : v \in Vaults}
Keys == SearchKeys \cup VaultKeys
Answers ==
  [is : {"saved", "gone"}, search : Searches] \cup [is : {"registered"}, root : Roots \cup {NoRoot}]

ASSUME DefaultAssumption == Default \in Vaults /\ DefaultRoot \in Roots
ASSUME NoneAssumption == NoRoot \notin Roots /\ None \notin Searches /\ Unknown \notin Answers

KeyOf(s) == <<s.vault, s.name>>
Under(S, k) == {x \in S : KeyOf(x) = k}
With(f, k, v) == [x \in DOMAIN f \cup {k} |-> IF x = k THEN v ELSE f[x]]

\* search and replaced belong to a save, row to a transaction that deletes, root
\* and state (the request that made the vault's state) to a registration, root to
\* indexing too.
NoJob == [key |-> None, search |-> None, replaced |-> {}, row |-> None, root |-> NoRoot,
          state |-> 0, alone |-> TRUE]

NoWalk == [size |-> 0, seen |-> {}, crossed |-> FALSE]

Busy(t) == pc[t] # "idle"
On(k) == {t \in Threads : Busy(t) /\ job[t].key = k}

-----------------------------------------------------------------------------
(* Requests begin, end and fail. *)

\* Indexing leaves what the last request answered as it is.
Accept(t, step, j) ==
  /\ ~Busy(t) /\ requests < MaxRequests
  /\ requests' = requests + 1
  /\ pc' = [pc EXCEPT ![t] = step]
  /\ job' = [u \in Threads |->
               IF u = t THEN [j EXCEPT !.alone = On(j.key) = {}]
               ELSE IF u \in On(j.key) THEN [job[u] EXCEPT !.alone = FALSE]
               ELSE job[u]]
  /\ answered' = IF step = "check root" /\ On(j.key) = {} THEN answered
                 ELSE [answered EXCEPT ![j.key] = Unknown]
  /\ disturbed' = IF On(j.key) = {} THEN disturbed ELSE disturbed \cup {j.key}
  /\ UNCHANGED <<surprised, faults, restarts>>

Goto(t, step) ==
  /\ pc' = [pc EXCEPT ![t] = step]
  /\ UNCHANGED <<ghosts, bounds>>

Return(t) ==
  /\ pc' = [pc EXCEPT ![t] = "idle"]
  /\ job' = [job EXCEPT ![t] = NoJob]

Answer(t, value) ==
  /\ Return(t)
  /\ answered' = IF job[t].alone THEN [answered EXCEPT ![job[t].key] = value] ELSE answered
  /\ UNCHANGED <<disturbed, surprised, bounds>>

\* A transaction fails and the request with it.
TransactionFails(t) ==
  /\ pc[t] \in {"delete row", "save row", "save vault"}
  /\ faults < MaxFaults
  /\ faults' = faults + 1
  /\ disturbed' = disturbed \cup {job[t].key}
  /\ Return(t)
  /\ UNCHANGED <<memory, walk, tables, answered, surprised, requests, restarts>>

\* KeyError from the dict, IntegrityError from the table: the route answers 500.
Raise(t) ==
  /\ Return(t)
  /\ surprised' = surprised \cup {job[t].key}
  /\ UNCHANGED <<memory, walk, tables, answered, disturbed, bounds>>

-----------------------------------------------------------------------------
(* Saved searches. *)

\* (Mutants of NamesakesOf: namesakes are kept; the vault is not looked at.)
NamesakesOfNone(s) == {}
NamesakesOfAnyVault(s) == {x \in searches : x.name = s.name /\ x # s}
NamesakesOf(s) == {x \in searches : KeyOf(x) = KeyOf(s) /\ x # s}

\* The other threads that look for namesakes look through a dict that has changed.
OthersCross(t) ==
  walk' = [u \in Threads |->
             IF pc[u] # "look" \/ u = t \/ searches' = searches THEN walk[u]
             ELSE [walk[u] EXCEPT !.crossed = TRUE, !.seen = @ \cup NamesakesOf(job[u].search)']]

\* POST /saved-searches: the iteration over the dict begins.
BeginSave(t, s) ==
  /\ s.vault \in DOMAIN vaults
  /\ Accept(t, "look", [NoJob EXCEPT !.key = KeyOf(s), !.search = s])
  /\ walk' = [walk EXCEPT ![t] = [size |-> Cardinality(searches), seen |-> NamesakesOf(s),
                                  crossed |-> FALSE]]
  /\ UNCHANGED <<memory, tables>>

\* The iteration ends.  Python raises RuntimeError where it meets a dict of another
\* size than at the beginning; one that changed and has the same size again may be
\* laid out anew, with entries where the iteration has been already.
Look(t) ==
  LET s == job[t].search IN
  /\ pc[t] = "look"
  /\ \/ /\ Cardinality(searches) = walk[t].size
        /\ \E found \in SUBSET walk[t].seen :
             /\ walk[t].crossed \/ found = walk[t].seen
             /\ pc' = [pc EXCEPT ![t] = "drop next"]
             /\ job' = [job EXCEPT ![t].replaced = found,
                                   ![t].alone = @ /\ found = NamesakesOf(s)]
             /\ disturbed' = IF found = NamesakesOf(s) THEN disturbed
                             ELSE disturbed \cup {job[t].key}
     \/ walk[t].crossed /\ Return(t) /\ UNCHANGED disturbed
  /\ UNCHANGED <<memory, walk, tables, answered, surprised, bounds>>

\* pop without a default: a namesake that somebody else took is a KeyError.
DropNext(t) ==
  /\ pc[t] = "drop next"
  /\ \E x \in job[t].replaced :
       \/ /\ x \in searches
          /\ searches' = searches \ {x}
          /\ job' = [job EXCEPT ![t].replaced = @ \ {x}, ![t].row = x]
          /\ OthersCross(t)
          /\ Goto(t, "delete row")
          /\ UNCHANGED <<vaults, selected, tables>>
       \/ x \notin searches /\ Raise(t)

\* delete_search, for a save that replaces or for a delete.
DeleteRow(t) ==
  /\ pc[t] = "delete row"
  /\ rows' = rows \ {job[t].row}
  /\ IF job[t].search = None
       THEN Answer(t, [is |-> "gone", search |-> job[t].row])
       ELSE Goto(t, "drop next") /\ UNCHANGED job
  /\ UNCHANGED <<memory, walk, vaultRows>>

Put(t) ==
  /\ pc[t] = "drop next" /\ job[t].replaced = {}
  /\ searches' = searches \cup {job[t].search}
  /\ UNCHANGED job /\ OthersCross(t)
  /\ Goto(t, "save row")
  /\ UNCHANGED <<vaults, selected, tables>>

\* save_search: update the row of this id, or insert one.  The table has one row
\* of a name in a vault.
SaveRow(t) ==
  LET s == job[t].search IN
  /\ pc[t] = "save row"
  /\ \/ /\ \A x \in rows : KeyOf(x) = KeyOf(s) => x = s
        /\ rows' = rows \cup {s}
        /\ Answer(t, [is |-> "saved", search |-> s])
        /\ UNCHANGED <<memory, walk, vaultRows>>
     \/ /\ \E x \in rows : KeyOf(x) = KeyOf(s) /\ x # s
        /\ Raise(t)

\* DELETE /saved-searches/{search_id}; one that is not there is a 404.
BeginDelete(t, s) ==
  /\ s.vault \in DOMAIN vaults
  /\ s \in searches
  /\ Accept(t, "delete row", [NoJob EXCEPT !.key = KeyOf(s), !.row = s])
  /\ searches' = searches \ {s}
  /\ OthersCross(t)
  /\ UNCHANGED <<vaults, selected, tables>>

-----------------------------------------------------------------------------
(* Vaults. *)

\* POST /vaults, with a path that passed validation.
BeginRegister(t, v, r) ==
  /\ Accept(t, IF v \in DOMAIN vaults THEN "set root" ELSE "make state",
            [NoJob EXCEPT !.key = <<v>>, !.root = r,
                          !.state = IF v \in DOMAIN vaults THEN vaults[v].state
                                    ELSE requests + 1])
  /\ UNCHANGED <<memory, walk, tables>>

MakeState(t) ==
  /\ pc[t] = "make state"
  /\ vaults' = With(vaults, job[t].key[1], [root |-> NoRoot, state |-> job[t].state])
  /\ Goto(t, "set root")
  /\ UNCHANGED <<job, searches, walk, selected, tables>>

\* The state may no longer be the one in the dict.
SetRoot(t) ==
  LET v == job[t].key[1] IN
  /\ pc[t] = "set root"
  /\ vaults' = IF vaults[v].state = job[t].state
                 THEN [vaults EXCEPT ![v].root = job[t].root] ELSE vaults
  /\ Goto(t, "read metadata")
  /\ UNCHANGED <<job, searches, walk, selected, tables>>

\* vault_metadata looks the vault up again.
ReadMetadata(t) ==
  /\ pc[t] = "read metadata"
  /\ job' = [job EXCEPT ![t].root = vaults[job[t].key[1]].root]
  /\ Goto(t, "save vault")
  /\ UNCHANGED <<memory, walk, tables>>

SaveVault(t) ==
  /\ pc[t] = "save vault"
  /\ vaultRows' = With(vaultRows, job[t].key[1], job[t].root)
  /\ Answer(t, [is |-> "registered", root |-> job[t].root])
  /\ UNCHANGED <<memory, walk, rows>>

\* POST and GET /notes/index, the watcher: index the root of the vault's metadata.
BeginIndex(t, v) ==
  /\ v \in DOMAIN vaults /\ vaults[v].root # NoRoot
  /\ Accept(t, "check root", [NoJob EXCEPT !.key = <<v>>, !.root = vaults[v].root])
  /\ UNCHANGED <<memory, walk, tables>>

\* index_vault: the default vault takes the path for its root, without saving it;
\* another vault must have that root still.
CheckRoot(t) ==
  LET v == job[t].key[1] IN
  /\ pc[t] = "check root"
  /\ v = Default \/ vaults[v].root = job[t].root
  /\ vaults' = [vaults EXCEPT ![v].root = job[t].root]
  /\ Goto(t, "ensure row")
  /\ UNCHANGED <<job, searches, walk, selected, tables>>

\* replace_all: _ensure_vault adds the row of the vault, without a root.
EnsureRow(t) ==
  LET v == job[t].key[1] IN
  /\ pc[t] = "ensure row"
  /\ vaultRows' = IF v \in DOMAIN vaultRows THEN vaultRows ELSE With(vaultRows, v, NoRoot)
  /\ Return(t)
  /\ UNCHANGED <<memory, walk, rows, ghosts, bounds>>

\* ValueError of another root, files that cannot be read, a transaction that fails.
IndexFails(t) ==
  /\ pc[t] \in {"check root", "ensure row"}
  /\ Return(t)
  /\ UNCHANGED <<memory, walk, tables, ghosts, bounds>>

\* POST /vaults/{vault_id}/select
Select(v) ==
  /\ v \in DOMAIN vaults
  /\ selected' = v
  /\ UNCHANGED <<searches, vaults, tables, pc, job, walk, ghosts, bounds>>

-----------------------------------------------------------------------------

\* (Mutant of LoadedVaults: the default vault keeps its configured root.)
LoadedVaultsButDefault ==
  [v \in DOMAIN vaultRows \cup {Default} |->
     [root |-> IF v # Default THEN vaultRows[v] ELSE DefaultRoot, state |-> 0]]
LoadedVaults ==
  [v \in DOMAIN vaultRows \cup {Default} |->
     [root |-> IF v \in DOMAIN vaultRows /\ (v # Default \/ vaultRows[v] # NoRoot)
                 THEN vaultRows[v] ELSE DefaultRoot,
      state |-> 0]]

\* The process ends at any point, and KnowledgeBase.__init__ loads the tables.
Restart ==
  /\ restarts < MaxRestarts
  /\ restarts' = restarts + 1
  /\ searches' = rows
  /\ vaults' = LoadedVaults
  /\ selected' = Default
  /\ pc' = [t \in Threads |-> "idle"]
  /\ job' = [t \in Threads |-> NoJob]
  /\ walk' = [t \in Threads |-> NoWalk]
  /\ disturbed' = {} /\ surprised' = {}
  /\ UNCHANGED <<tables, answered, requests, faults>>

\* create_all makes an empty table, revision 0002 puts the default vault into it.
Init ==
  /\ searches = {} /\ rows = {}
  /\ \E made \in {{}, {Default}} : vaultRows = [v \in made |-> NoRoot]
  /\ vaults = LoadedVaults
  /\ selected = Default
  /\ pc = [t \in Threads |-> "idle"]
  /\ job = [t \in Threads |-> NoJob]
  /\ walk = [t \in Threads |-> NoWalk]
  /\ answered = [k \in Keys |-> Unknown]
  /\ disturbed = {} /\ surprised = {}
  /\ requests = 0 /\ faults = 0 /\ restarts = 0

Request(t) ==
  \/ \E s \in Searches : BeginSave(t, s) \/ BeginDelete(t, s)
  \/ \E v \in Vaults : BeginIndex(t, v) \/ \E r \in Roots : BeginRegister(t, v, r)

Step(t) ==
  \/ Look(t) \/ DropNext(t) \/ DeleteRow(t) \/ Put(t) \/ SaveRow(t)
  \/ MakeState(t) \/ SetRoot(t) \/ ReadMetadata(t) \/ SaveVault(t)
  \/ CheckRoot(t) \/ EnsureRow(t) \/ IndexFails(t)
  \/ TransactionFails(t)

Next ==
  \/ \E t \in Threads : Request(t) \/ Step(t)
  \/ \E v \in Vaults : Select(v)
  \/ Restart

Spec == Init /\ [][Next]_vars

-----------------------------------------------------------------------------
(* Properties. *)

\* The tables keep their constraints, the selected vault is a registered one and
\* no request that is under way looks up a vault that is not in the dict.
TypeOK ==
  /\ searches \subseteq Searches /\ rows \subseteq Searches
  /\ \A x, y \in rows : KeyOf(x) = KeyOf(y) => x = y
  /\ Default \in DOMAIN vaults /\ DOMAIN vaults \subseteq Vaults
  /\ \A v \in DOMAIN vaults : vaults[v].root \in Roots \cup {NoRoot}
  /\ DOMAIN vaultRows \subseteq DOMAIN vaults
  /\ selected \in DOMAIN vaults
  /\ \A t \in Threads :
       /\ Busy(t) => job[t].key \in Keys
       /\ pc[t] \in {"set root", "read metadata", "save vault", "check root", "ensure row"} =>
            job[t].key[1] \in DOMAIN vaults
  /\ \A k \in Keys : answered[k] \in Answers \cup {Unknown}
  /\ disturbed \subseteq Keys

Holds(a, k) ==
  CASE a.is = "saved" -> Under(searches, k) = {a.search} /\ Under(rows, k) = {a.search}
    [] a.is = "gone" -> a.search \notin searches \cup rows
    [] OTHER -> vaults[k[1]].root = a.root /\ vaultRows[k[1]] = a.root

\* What a request answered stays true, in memory and in the database, until the
\* next request on the same vault, or on the same name of a vault: a saved search
\* is the only one of its name, a deleted one does not come back, a vault keeps
\* the root it was given, also when it is indexed.  Failed requests on it before,
\* requests on other keys at the same time and restarts do not matter.
AnswersLast == \A k \in Keys : answered[k] # Unknown => Holds(answered[k], k)

\* The root a vault has by its row: a default vault without one has the configured root.
SavedRoot(v) ==
  LET r == IF v \in DOMAIN vaultRows THEN vaultRows[v] ELSE NoRoot
  IN IF v = Default /\ r = NoRoot THEN DefaultRoot ELSE r

\* A key nobody is at work on and nothing has disturbed since the start is the
\* same in memory and in the database: also after a save that raised because others
\* changed the dict it looked through, and after indexing, which gives the default
\* vault its root in memory and a row without one.
MemoryIsSaved ==
  \A k \in Keys : On(k) = {} /\ k \notin disturbed =>
    IF k \in SearchKeys
      THEN Under(searches, k) = Under(rows, k)
      ELSE k[1] \in DOMAIN vaults => vaults[k[1]].root = SavedRoot(k[1])

\* Only a key with a failed transaction, overlapping requests or a missed namesake
\* since the start can make a healthy request raise; a restart puts it right.  Only
\* a save that looked through the dict while another request changed it may raise
\* without (Look).
NoSurprise == surprised \subseteq disturbed
=============================================================================
