-------------------------- MODULE LocalStateProofs --------------------------
(***************************************************************************)
(* Theorems of LocalState, for every number of threads, vaults, names and  *)
(* queries, and every number of requests, failures and restarts.           *)
(***************************************************************************)
EXTENDS LocalState, Sequences, TLAPS

Saves == {"look", "drop next", "delete row", "save row"}
Registers == {"make state", "set root", "read metadata", "save vault"}
Indexes == {"check root", "ensure row"}
Steps == Saves \cup Registers \cup Indexes

AnyRoot == Roots \cup {NoRoot}
Job == [key : Keys \cup {None}, search : Searches \cup {None}, replaced : SUBSET Searches,
        row : Searches \cup {None}, root : AnyRoot, state : Nat, alone : BOOLEAN]

Saving(t) == pc[t] \in Saves /\ job[t].search \in Searches
Deleting(t) == pc[t] = "delete row" /\ job[t].search = None
Registering(t) == pc[t] \in Registers
Indexing(t) == pc[t] \in Indexes

\* A request works on one key: what it saves, replaces or deletes has it.
SaveFits(t) ==
  Saving(t) => /\ job[t].key = KeyOf(job[t].search)
               /\ \A x \in job[t].replaced : KeyOf(x) = job[t].key
               /\ pc[t] = "delete row" => job[t].row \in Searches /\ KeyOf(job[t].row) = job[t].key
DeleteFits(t) ==
  Deleting(t) => job[t].row \in Searches /\ job[t].key = KeyOf(job[t].row)
RegisterFits(t) ==
  Registering(t) =>
    \E v \in Vaults :
      /\ job[t].key = <<v>>
      /\ pc[t] = "make state" => v # Default
      /\ pc[t] # "make state" => v \in DOMAIN vaults
      /\ pc[t] \in {"make state", "set root"} \/ v = Default => job[t].root \in Roots
IndexFits(t) ==
  Indexing(t) =>
    \E v \in Vaults : job[t].key = <<v>> /\ v \in DOMAIN vaults /\ job[t].root \in Roots

SearchTypes ==
  /\ searches \subseteq Searches /\ rows \subseteq Searches
  /\ \A x, y \in rows : KeyOf(x) = KeyOf(y) => x = y

VaultTypes ==
  /\ vaults \in [DOMAIN vaults -> [root : AnyRoot, state : Nat]]
  /\ Default \in DOMAIN vaults /\ DOMAIN vaults \subseteq Vaults
  /\ vaults[Default].root \in Roots
  /\ vaultRows \in [DOMAIN vaultRows -> AnyRoot]
  /\ DOMAIN vaultRows \subseteq DOMAIN vaults
  /\ selected \in DOMAIN vaults

Fits(t) ==
  /\ Busy(t) => /\ Saving(t) \/ Deleting(t) \/ Registering(t) \/ Indexing(t)
                /\ job[t].key \in Keys
  /\ SaveFits(t) /\ DeleteFits(t) /\ RegisterFits(t) /\ IndexFits(t)

ThreadTypes ==
  /\ pc \in [Threads -> {"idle"} \cup Steps]
  /\ job \in [Threads -> Job]
  /\ \A t \in Threads : Fits(t)

GhostTypes ==
  /\ answered \in [Keys -> Answers \cup {Unknown}]
  /\ disturbed \subseteq Keys /\ surprised \subseteq Keys
  /\ requests \in Nat

Types == SearchTypes /\ VaultTypes /\ ThreadTypes /\ GhostTypes

-----------------------------------------------------------------------------
(* What is true of one key, in terms of what is under it. *)

\* How far a request that is alone on its key has got.
AloneProgress(t, k) ==
  /\ On(k) = {t}
  /\ Saving(t) =>
       /\ pc[t] = "save row" => Under(searches, k) = {job[t].search}
       /\ pc[t] \in {"drop next", "delete row"} =>
            Under(searches, k) \subseteq {job[t].search} \cup job[t].replaced
  /\ Deleting(t) => job[t].row \notin Under(searches, k)
  /\ Registering(t) /\ pc[t] # "make state" => vaults[k[1]].state = job[t].state
  /\ pc[t] \in {"read metadata", "save vault"} =>
       job[t].root = vaults[k[1]].root /\ job[t].root \in Roots
  /\ Indexing(t) => job[t].root = vaults[k[1]].root

Same(k) ==
  IF k \in SearchKeys THEN Under(searches, k) = Under(rows, k)
  ELSE k[1] \in DOMAIN vaults => vaults[k[1]].root = SavedRoot(k[1])

\* How dict and table differ while one request is at work on an undisturbed key.
UndisturbedProgress(t, k) ==
  /\ job[t].alone
  /\ Saving(t) /\ pc[t] \in {"drop next", "delete row"} =>
       job[t].replaced \subseteq Under(searches, k)
  /\ Saving(t) /\ pc[t] = "save row" => Under(rows, k) \subseteq {job[t].search}
  /\ pc[t] \in {"look", "drop next"} => Under(rows, k) = Under(searches, k)
  /\ pc[t] = "delete row" => /\ job[t].row \notin Under(searches, k)
                              /\ Under(rows, k) = Under(searches, k) \cup {job[t].row}
  /\ Indexing(t) => Same(k)

Progress(k) ==
  \A t \in On(k) : /\ job[t].alone => AloneProgress(t, k)
                   /\ k \notin disturbed => UndisturbedProgress(t, k)

Saved(k, s) ==
  answered[k] = [is |-> "saved", search |-> s] /\ KeyOf(s) = k
    /\ Under(searches, k) = {s} /\ Under(rows, k) = {s}
Gone(k, s) ==
  answered[k] = [is |-> "gone", search |-> s] /\ KeyOf(s) = k
    /\ s \notin Under(searches, k) /\ s \notin Under(rows, k)
Registered(k, r) ==
  answered[k] = [is |-> "registered", root |-> r] /\ k \in VaultKeys
    /\ k[1] \in DOMAIN vaultRows /\ vaults[k[1]].root = r /\ vaultRows[k[1]] = r

Answered(k) ==
  answered[k] # Unknown =>
    /\ \A u \in On(k) : Indexing(u) /\ job[u].alone
    /\ (\E s \in Searches : Saved(k, s) \/ Gone(k, s)) \/ \E r \in Roots : Registered(k, r)

KeyInv(k) ==
  /\ Progress(k) /\ Answered(k)
  /\ On(k) = {} /\ k \notin disturbed => Same(k)
  /\ k \in surprised => k \in disturbed

IInv == Types /\ \A k \in Keys : KeyInv(k)

\* What a thread that looks for namesakes has met; all of them if nobody else has
\* changed the dict.
Walk == [size : {Cardinality(S) : S \in SUBSET Searches} \cup {0}, seen : SUBSET Searches,
         crossed : BOOLEAN]
WalkFits(t) ==
  pc[t] = "look" =>
    /\ walk[t].seen \subseteq {x \in Searches : KeyOf(x) = KeyOf(job[t].search)}
    /\ ~walk[t].crossed => walk[t].seen = NamesakesOf(job[t].search)
Walks == walk \in [Threads -> Walk] /\ \A t \in Threads : WalkFits(t)

-----------------------------------------------------------------------------
LEMMA KeysDiffer ==
  /\ \A v \in Vaults, n \in Names, w \in Vaults : <<v, n>> # <<w>>
  /\ \A k \in SearchKeys : k \notin VaultKeys
  <1>1. \A v \in Vaults, n \in Names, w \in Vaults : <<v, n>> # <<w>>
    <2> SUFFICES ASSUME NEW v \in Vaults, NEW n \in Names, NEW w \in Vaults PROVE <<v, n>> # <<w>>
      OBVIOUS
    <2>1. Len(<<v, n>>) = 2 /\ Len(<<w>>) = 1
      OBVIOUS
    <2> QED  BY <2>1
  <1> QED  BY <1>1 DEF SearchKeys, VaultKeys

\* One field of a job is set.
LEMMA SetKey ==
  ASSUME NEW j \in Job, NEW x \in Keys
  PROVE  LET r == [j EXCEPT !.key = x] IN
         /\ r \in Job /\ r.key = x /\ r.search = j.search /\ r.replaced = j.replaced
         /\ r.row = j.row /\ r.root = j.root /\ r.state = j.state /\ r.alone = j.alone
  BY Zenon DEF Job
LEMMA SetSearch ==
  ASSUME NEW j \in Job, NEW x \in Searches
  PROVE  LET r == [j EXCEPT !.search = x] IN
         /\ r \in Job /\ r.search = x /\ r.key = j.key /\ r.replaced = j.replaced
         /\ r.row = j.row /\ r.root = j.root /\ r.state = j.state /\ r.alone = j.alone
  BY Zenon DEF Job
LEMMA SetReplaced ==
  ASSUME NEW j \in Job, NEW x \in SUBSET Searches
  PROVE  LET r == [j EXCEPT !.replaced = x] IN
         /\ r \in Job /\ r.replaced = x /\ r.key = j.key /\ r.search = j.search
         /\ r.row = j.row /\ r.root = j.root /\ r.state = j.state /\ r.alone = j.alone
  BY Zenon DEF Job
LEMMA SetRow ==
  ASSUME NEW j \in Job, NEW x \in Searches
  PROVE  LET r == [j EXCEPT !.row = x] IN
         /\ r \in Job /\ r.row = x /\ r.key = j.key /\ r.search = j.search
         /\ r.replaced = j.replaced /\ r.root = j.root /\ r.state = j.state /\ r.alone = j.alone
  BY Zenon DEF Job
LEMMA SetRootOf ==
  ASSUME NEW j \in Job, NEW x \in AnyRoot
  PROVE  LET r == [j EXCEPT !.root = x] IN
         /\ r \in Job /\ r.root = x /\ r.key = j.key /\ r.search = j.search
         /\ r.replaced = j.replaced /\ r.row = j.row /\ r.state = j.state /\ r.alone = j.alone
  BY Zenon DEF Job
LEMMA SetState ==
  ASSUME NEW j \in Job, NEW x \in Nat
  PROVE  LET r == [j EXCEPT !.state = x] IN
         /\ r \in Job /\ r.state = x /\ r.key = j.key /\ r.search = j.search
         /\ r.replaced = j.replaced /\ r.row = j.row /\ r.root = j.root /\ r.alone = j.alone
  BY Zenon DEF Job
LEMMA SetAlone ==
  ASSUME NEW j \in Job, NEW x \in BOOLEAN
  PROVE  LET r == [j EXCEPT !.alone = x] IN
         /\ r \in Job /\ r.alone = x /\ r.key = j.key /\ r.search = j.search
         /\ r.replaced = j.replaced /\ r.row = j.row /\ r.root = j.root /\ r.state = j.state
  BY Zenon DEF Job

LEMMA NoJobIsJob ==
  /\ NoJob \in Job /\ NoJob.key = None /\ NoJob.search = None /\ NoJob.row = None
  /\ NoJob.replaced = {} /\ NoJob.state = 0 /\ NoJob.root = NoRoot
  BY DEF NoJob, Job, AnyRoot

\* The jobs requests begin with.
LEMMA NewSave ==
  ASSUME NEW s \in Searches, KeyOf(s) \in Keys
  PROVE  LET j == [NoJob EXCEPT !.key = KeyOf(s), !.search = s] IN
         j \in Job /\ j.key = KeyOf(s) /\ j.search = s /\ j.replaced = {}
  <1> DEFINE a == [NoJob EXCEPT !.key = KeyOf(s)]
             b == [a EXCEPT !.search = s]
  <1>1. a \in Job /\ a.key = KeyOf(s) /\ a.replaced = {}
    BY SetKey, NoJobIsJob, Zenon
  <1> HIDE DEF a
  <1>2. b \in Job /\ b.key = KeyOf(s) /\ b.search = s /\ b.replaced = {}
    BY <1>1, SetSearch, Zenon
  <1> QED  BY <1>2, Zenon DEF a, b

IndexJob(k, r) == [NoJob EXCEPT !.key = k, !.root = r]
LEMMA NewIndex ==
  ASSUME NEW k \in Keys, NEW r \in Roots
  PROVE  LET j == IndexJob(k, r) IN j \in Job /\ j.key = k /\ j.root = r
  <1>0. r \in AnyRoot
    BY DEF AnyRoot
  <1> DEFINE a == [NoJob EXCEPT !.key = k]
             b == [a EXCEPT !.root = r]
  <1>1. a \in Job /\ a.key = k
    BY SetKey, NoJobIsJob, Zenon
  <1> HIDE DEF a
  <1>2. b \in Job /\ b.key = k /\ b.root = r
    BY <1>0, <1>1, SetRootOf, Zenon
  <1> QED  BY <1>2, Zenon DEF a, b, IndexJob

LEMMA NewDelete ==
  ASSUME NEW s \in Searches, KeyOf(s) \in Keys
  PROVE  LET j == [NoJob EXCEPT !.key = KeyOf(s), !.row = s] IN
         j \in Job /\ j.key = KeyOf(s) /\ j.row = s /\ j.search = None
  <1> DEFINE a == [NoJob EXCEPT !.key = KeyOf(s)]
             b == [a EXCEPT !.row = s]
  <1>1. a \in Job /\ a.key = KeyOf(s) /\ a.search = None
    BY SetKey, NoJobIsJob, Zenon
  <1> HIDE DEF a
  <1>2. b \in Job /\ b.key = KeyOf(s) /\ b.search = None /\ b.row = s
    BY <1>1, SetRow, Zenon
  <1> QED  BY <1>2, Zenon DEF a, b

RegisterJob(k, r, n) == [NoJob EXCEPT !.key = k, !.root = r, !.state = n]
LEMMA NewRegister ==
  ASSUME NEW k \in Keys, NEW r \in Roots, NEW n \in Nat
  PROVE  LET j == RegisterJob(k, r, n) IN j \in Job /\ j.key = k /\ j.root = r /\ j.state = n
  <1>0. r \in AnyRoot
    BY DEF AnyRoot
  <1> DEFINE a == [NoJob EXCEPT !.key = k]
             b == [a EXCEPT !.root = r]
             c == [b EXCEPT !.state = n]
  <1>1. a \in Job /\ a.key = k
    BY SetKey, NoJobIsJob, Zenon
  <1> HIDE DEF a
  <1>2. b \in Job /\ b.key = k /\ b.root = r
    BY <1>0, <1>1, SetRootOf, Zenon
  <1> HIDE DEF b
  <1>3. c \in Job /\ c.key = k /\ c.root = r /\ c.state = n
    BY <1>2, SetState, Zenon
  <1> QED  BY <1>3, Zenon DEF a, b, c, RegisterJob

LEMMA SearchKey ==
  ASSUME NEW s \in Searches
  PROVE  KeyOf(s) \in SearchKeys /\ KeyOf(s) \in Keys
  BY DEF Searches, KeyOf, SearchKeys, Keys

-----------------------------------------------------------------------------
(* A step of one thread works on one key and leaves the others alone. *)

SameWork(j, i) ==
  /\ j.key = i.key /\ j.search = i.search /\ j.replaced = i.replaced
  /\ j.row = i.row /\ j.root = i.root /\ j.state = i.state

\* The steps that leave the pc, the job and the key of every other thread.
OthersKeep(t) ==
  \A u \in Threads \ {t} : pc'[u] = pc[u] /\ SameWork(job'[u], job[u])

LEMMA FitsKept ==
  ASSUME ThreadTypes, NEW t \in Threads, OthersKeep(t), DOMAIN vaults \subseteq DOMAIN vaults',
         pc' \in [Threads -> {"idle"} \cup Steps], job' \in [Threads -> Job],
         Fits(t)'
  PROVE  ThreadTypes'
  <1> SUFFICES ASSUME NEW u \in Threads, u # t PROVE Fits(u)'
    BY DEF ThreadTypes
  <1>1. Fits(u) /\ pc'[u] = pc[u] /\ SameWork(job'[u], job[u])
    BY DEF ThreadTypes, OthersKeep
  <1> QED
    BY <1>1 DEF Fits, SaveFits, DeleteFits, RegisterFits, IndexFits, Saving, Deleting, Registering, Indexing, Busy, SameWork

Only(t, k0) ==
  /\ \A u \in Threads \ {t} :
       \/ job'[u] = job[u]
       \/ Busy(u) /\ job[u].key = k0 /\ job'[u].key = k0
  /\ \A u \in Threads \ {t} : pc'[u] = pc[u]
  /\ pc[t] # "idle" => job[t].key = k0
  /\ pc'[t] # "idle" => job'[t].key = k0
  /\ \A x \in Searches : KeyOf(x) # k0 => /\ x \in searches' <=> x \in searches
                                          /\ x \in rows' <=> x \in rows
  /\ \A v \in Vaults : <<v>> # k0 => /\ v \in DOMAIN vaults' <=> v \in DOMAIN vaults
                                     /\ v \in DOMAIN vaults => vaults'[v] = vaults[v]
                                     /\ v \in DOMAIN vaultRows' <=> v \in DOMAIN vaultRows
                                     /\ v \in DOMAIN vaultRows => vaultRows'[v] = vaultRows[v]
  /\ \A k \in Keys \ {k0} : /\ answered'[k] = answered[k]
                            /\ k \in disturbed' <=> k \in disturbed
                            /\ k \in surprised' <=> k \in surprised

LEMMA OtherKeys ==
  ASSUME IInv, Types', NEW t \in Threads, NEW k0 \in Keys, Only(t, k0), NEW k \in Keys, k # k0
  PROVE  KeyInv(k)'
  <1>1. On(k)' = On(k) /\ t \notin On(k)
    BY DEF Only, On, Busy
  <1>2. \A u \in On(k) : pc'[u] = pc[u] /\ job'[u] = job[u] /\ u \in Threads
    BY <1>1 DEF Only, On, Busy
  <1>3. Under(searches, k)' = Under(searches, k) /\ Under(rows, k)' = Under(rows, k)
    BY DEF Only, IInv, Types, SearchTypes, Under
  <1>4. ASSUME k \in VaultKeys
        PROVE  /\ k[1] \in DOMAIN vaults' <=> k[1] \in DOMAIN vaults
               /\ k[1] \in DOMAIN vaults => vaults'[k[1]] = vaults[k[1]]
               /\ k[1] \in DOMAIN vaultRows' <=> k[1] \in DOMAIN vaultRows
               /\ k[1] \in DOMAIN vaultRows =>
                    vaultRows'[k[1]] = vaultRows[k[1]] /\ k[1] \in DOMAIN vaults
    <2>1. PICK v \in Vaults : k = <<v>>
      BY <1>4 DEF VaultKeys
    <2> QED  BY <2>1 DEF Only, IInv, Types, VaultTypes
  <1>5. /\ answered'[k] = answered[k]
        /\ k \in disturbed' <=> k \in disturbed
        /\ k \in surprised' <=> k \in surprised
    BY DEF Only
  <1>6. \A u \in On(k) : pc[u] \in Registers \cup Indexes =>
          k \in VaultKeys /\ (pc[u] # "make state" => k[1] \in DOMAIN vaults)
    <2> SUFFICES ASSUME NEW u \in On(k), pc[u] \in Registers \cup Indexes
                 PROVE  k \in VaultKeys /\ (pc[u] # "make state" => k[1] \in DOMAIN vaults)
      OBVIOUS
    <2>1. RegisterFits(u) /\ IndexFits(u) /\ job[u].key = k /\ (Registering(u) \/ Indexing(u))
      BY DEF On, IInv, Types, ThreadTypes, Fits, Registering, Indexing
    <2>2. PICK v \in Vaults : k = <<v>> /\ (pc[u] # "make state" => v \in DOMAIN vaults)
      BY <2>1 DEF RegisterFits, IndexFits
    <2> QED  BY <2>2 DEF VaultKeys
  <1>7. KeyInv(k)
    BY DEF IInv
  <1>7a. Same(k) => Same(k)'
    <2>1. k \in SearchKeys \/ k \in VaultKeys
      BY DEF Keys
    <2>2. ASSUME k \in VaultKeys, k[1] \in DOMAIN vaults PROVE SavedRoot(k[1])' = SavedRoot(k[1])
      BY <1>4, <2>2 DEF SavedRoot
    <2> QED  BY <1>3, <1>4, <2>1, <2>2 DEF Same
  <1>8. Progress(k)'
    <2> SUFFICES ASSUME NEW u \in On(k)
                 PROVE  /\ job'[u].alone => AloneProgress(u, k)'
                        /\ k \notin disturbed' => UndisturbedProgress(u, k)'
      BY <1>1 DEF Progress
    <2>1. pc'[u] = pc[u] /\ job'[u] = job[u]
      BY <1>2
    <2>2. /\ job[u].alone => AloneProgress(u, k)
          /\ k \notin disturbed => UndisturbedProgress(u, k)
      BY <1>7 DEF KeyInv, Progress
    <2>3. ASSUME job'[u].alone PROVE AloneProgress(u, k)'
      BY <2>1, <2>2, <2>3, <1>1, <1>3, <1>4, <1>6
      DEF AloneProgress, Saving, Deleting, Registering, Indexing, Registers, Indexes, Steps, Under
    <2>4. ASSUME k \notin disturbed' PROVE UndisturbedProgress(u, k)'
      BY <2>1, <2>2, <2>4, <1>3, <1>5, <1>7a DEF UndisturbedProgress, Saving, Indexing
    <2> QED  BY <2>3, <2>4
  <1>9. Answered(k)'
    <2>1. SUFFICES ASSUME answered[k] # Unknown PROVE Answered(k)'
      BY <1>5 DEF Answered
    <2>2. \A u \in On(k)' : Indexing(u)' /\ job'[u].alone
      BY <1>1, <1>2, <1>7, <2>1 DEF KeyInv, Answered, Indexing
    <2>3. /\ \A s \in Searches : Saved(k, s) => Saved(k, s)'
          /\ \A s \in Searches : Gone(k, s) => Gone(k, s)'
      BY <1>3, <1>5 DEF Saved, Gone
    <2>4. \A r \in Roots : Registered(k, r) => Registered(k, r)'
      BY <1>4, <1>5 DEF Registered
    <2> QED  BY <1>7, <2>1, <2>2, <2>3, <2>4 DEF KeyInv, Answered
  <1>10. (On(k) = {} /\ k \notin disturbed => Same(k))'
    BY <1>1, <1>5, <1>7, <1>7a DEF KeyInv
  <1> QED  BY <1>5, <1>7, <1>8, <1>9, <1>10 DEF KeyInv

\* A request that shares its key is not alone, and has disturbed it; while indexing
\* alone is on it, the last answer holds.
LEMMA Company ==
  ASSUME IInv, NEW k \in Keys, NEW t \in On(k)
  PROVE  /\ ~Indexing(t) \/ ~job[t].alone => answered[k] = Unknown
         /\ \A u \in On(k) \ {t} : ~job[u].alone /\ ~job[t].alone /\ k \in disturbed
  <1>1. Answered(k) /\ Progress(k)
    BY DEF IInv, KeyInv
  <1>2. ~Indexing(t) \/ ~job[t].alone => answered[k] = Unknown
    BY <1>1 DEF Answered
  <1>3. \A u \in On(k) : job[u].alone => On(k) = {u}
    BY <1>1 DEF Progress, AloneProgress
  <1>4. \A u \in On(k) : k \notin disturbed => job[u].alone
    BY <1>1 DEF Progress, UndisturbedProgress
  <1> QED  BY <1>2, <1>3, <1>4

\* The other threads keep everything, and the key is still disturbed if it was.
RestKeep(t, k) ==
  /\ \A u \in Threads \ {t} : pc'[u] = pc[u] /\ job'[u] = job[u]
  /\ k \in disturbed => k \in disturbed'
  /\ k \in surprised' => k \in surprised \/ k \in disturbed'

\* A request goes on to its next statement.
LEMMA GoesOn ==
  ASSUME IInv, Types', NEW t \in Threads, NEW k \in Keys, t \in On(k), On(k)' = On(k),
         Indexing(t) => Answered(k)', RestKeep(t, k), answered' = answered,
         job[t].alone' => job[t].alone,
         job'[t].alone => AloneProgress(t, k)',
         k \notin disturbed' => UndisturbedProgress(t, k)'
  PROVE  KeyInv(k)'
  <1>1. Progress(k)'
    <2> SUFFICES ASSUME NEW u \in On(k), u # t
                 PROVE  /\ job'[u].alone => AloneProgress(u, k)'
                        /\ k \notin disturbed' => UndisturbedProgress(u, k)'
      BY DEF Progress
    <2>1. ~job[u].alone /\ k \in disturbed
      BY Company
    <2>2. u \in Threads
      BY DEF On
    <2> QED  BY <2>1, <2>2 DEF RestKeep
  <1>2. Answered(k)'
    <2>1. CASE Indexing(t)
      BY <2>1
    <2>2. CASE ~Indexing(t)
      <3>1. answered[k] = Unknown
        BY <2>2, Company
      <3> QED  BY <3>1 DEF Answered
    <2> QED  BY <2>1, <2>2
  <1>3. KeyInv(k)
    BY DEF IInv
  <1> QED  BY <1>1, <1>2, <1>3 DEF KeyInv, Answered, RestKeep

\* A request ends.
LEMMA Ends ==
  ASSUME IInv, Types', NEW t \in Threads, NEW k \in Keys, t \in On(k), pc'[t] = "idle",
         RestKeep(t, k),
         ~job[t].alone => answered'[k] = answered[k],
         job[t].alone => Answered(k)',
         k \notin disturbed' => Same(k)'
  PROVE  KeyInv(k)'
  <1>1. On(k)' = On(k) \ {t}
    BY DEF On, RestKeep, Busy
  <1>2. KeyInv(k)
    BY DEF IInv
  <1>3. Progress(k)'
    <2> SUFFICES ASSUME NEW u \in On(k), u # t
                 PROVE  /\ job'[u].alone => AloneProgress(u, k)'
                        /\ k \notin disturbed' => UndisturbedProgress(u, k)'
      BY <1>1 DEF Progress
    <2>1. ~job[u].alone /\ k \in disturbed
      BY Company
    <2>2. u \in Threads
      BY DEF On
    <2> QED  BY <2>1, <2>2 DEF RestKeep
  <1>4. Answered(k)'
    <2>1. CASE job[t].alone
      BY <2>1
    <2>2. CASE ~job[t].alone
      <3>1. answered'[k] = Unknown
        BY <2>2, Company
      <3> QED  BY <3>1 DEF Answered
    <2> QED  BY <2>1, <2>2
  <1> QED  BY <1>2, <1>3, <1>4 DEF KeyInv, RestKeep

LEMMA ReturnEffect ==
  ASSUME ThreadTypes, NEW t \in Threads, Return(t), DOMAIN vaults \subseteq DOMAIN vaults'
  PROVE  /\ ThreadTypes' /\ pc'[t] = "idle"
         /\ \A u \in Threads \ {t} : pc'[u] = pc[u] /\ job'[u] = job[u]
  <1>1. /\ pc' \in [Threads -> {"idle"} \cup Steps] /\ pc'[t] = "idle"
        /\ job' \in [Threads -> Job]
        /\ \A u \in Threads \ {t} : pc'[u] = pc[u] /\ job'[u] = job[u]
    BY NoJobIsJob DEF ThreadTypes, Return
  <1>2. OthersKeep(t)
    BY <1>1 DEF OthersKeep, SameWork
  <1>3. Fits(t)'
    BY <1>1 DEF Fits, SaveFits, DeleteFits, RegisterFits, IndexFits, Saving, Deleting, Registering, Indexing, Busy,
                Saves, Registers, Indexes, Steps
  <1> QED  BY <1>1, <1>2, <1>3, FitsKept

\* What dict and table hold of the key of a busy thread.
LEMMA OwnProgress ==
  ASSUME IInv, NEW t \in Threads, Busy(t)
  PROVE  \E k \in Keys :
           /\ k = job[t].key /\ t \in On(k) /\ Fits(t)
           /\ ~Indexing(t) => answered[k] = Unknown
           /\ job[t].alone => AloneProgress(t, k)
           /\ k \notin disturbed => UndisturbedProgress(t, k) /\ AloneProgress(t, k)
  <1>1. PICK k \in Keys : k = job[t].key /\ t \in On(k) /\ Fits(t)
    BY DEF IInv, Types, ThreadTypes, Fits, On
  <1>2. ~Indexing(t) => answered[k] = Unknown
    BY <1>1, Company
  <1> QED  BY <1>1, <1>2 DEF IInv, KeyInv, Progress, UndisturbedProgress

\* A thread goes from one statement of its request to another.
LEMMA GotoEffect ==
  ASSUME ThreadTypes, NEW t \in Threads, Busy(t), NEW step \in Steps,
         pc' = [pc EXCEPT ![t] = step], job' = job, DOMAIN vaults \subseteq DOMAIN vaults',
         (Fits(t) /\ pc[t] \in Steps) => Fits(t)'
  PROVE  /\ ThreadTypes' /\ pc'[t] = step /\ pc'[t] # "idle"
         /\ \A u \in Threads \ {t} : pc'[u] = pc[u] /\ job'[u] = job[u]
         /\ \A k : On(k)' = On(k)
  <1>1. /\ pc' \in [Threads -> {"idle"} \cup Steps] /\ pc'[t] = step
        /\ \A u \in Threads \ {t} : pc'[u] = pc[u] /\ job'[u] = job[u]
        /\ step # "idle"
    BY DEF ThreadTypes, Saves, Registers, Indexes, Steps
  <1>2. pc[t] \in Steps
    BY DEF ThreadTypes, Busy
  <1>3. ThreadTypes'
    BY <1>1, <1>2, FitsKept DEF OthersKeep, SameWork, ThreadTypes
  <1>4. \A k : On(k)' = On(k)
    BY <1>1 DEF On, Busy
  <1> QED  BY <1>1, <1>3, <1>4

-----------------------------------------------------------------------------
(* The actions, one by one. *)

LEMMA TransactionFailsKeeps ==
  ASSUME IInv, NEW t \in Threads, TransactionFails(t)
  PROVE  IInv'
  <1> PICK k \in Keys : k = job[t].key /\ t \in On(k) /\ answered[k] = Unknown
    BY OwnProgress DEF TransactionFails, Busy, Indexing, Indexes
  <1>1. /\ ThreadTypes' /\ pc'[t] = "idle"
        /\ \A u \in Threads \ {t} : pc'[u] = pc[u] /\ job'[u] = job[u]
    BY ReturnEffect DEF TransactionFails, memory, IInv, Types
  <1>2. Types'
    BY <1>1 DEF TransactionFails, memory, tables, IInv, Types, SearchTypes, VaultTypes, GhostTypes
  <1>3. Only(t, k)
    BY <1>1 DEF Only, TransactionFails, memory, tables
  <1>4. RestKeep(t, k) /\ answered' = answered /\ k \in disturbed'
    BY <1>1 DEF RestKeep, TransactionFails
  <1>5. KeyInv(k)'
    BY <1>1, <1>2, <1>4, Ends DEF Answered
  <1> QED  BY <1>2, <1>3, <1>5, OtherKeys DEF IInv

\* A request raises only on a disturbed key.
LEMMA RaiseKeeps ==
  ASSUME IInv, NEW t \in Threads, pc[t] \in Saves, Raise(t), job[t].key \in disturbed
  PROVE  IInv'
  <1> PICK k \in Keys : k = job[t].key /\ t \in On(k) /\ answered[k] = Unknown
    BY OwnProgress DEF Busy, Saves, Indexing, Indexes
  <1>1. /\ ThreadTypes' /\ pc'[t] = "idle"
        /\ \A u \in Threads \ {t} : pc'[u] = pc[u] /\ job'[u] = job[u]
    BY ReturnEffect DEF Raise, memory, IInv, Types
  <1>2. Types'
    BY <1>1 DEF Raise, memory, tables, bounds, IInv, Types, SearchTypes, VaultTypes, GhostTypes
  <1>3. Only(t, k)
    BY <1>1 DEF Only, Raise, memory, tables
  <1>4. RestKeep(t, k) /\ answered' = answered /\ k \in disturbed'
    BY <1>1 DEF RestKeep, Raise
  <1>5. KeyInv(k)'
    BY <1>1, <1>2, <1>4, Ends DEF Answered
  <1> QED  BY <1>2, <1>3, <1>5, OtherKeys DEF IInv

LEMMA PutKeeps ==
  ASSUME IInv, NEW t \in Threads, Put(t)
  PROVE  IInv'
  <1>1. /\ Busy(t) /\ pc[t] = "drop next" /\ job[t].replaced = {}
        /\ searches' = searches \cup {job[t].search} /\ rows' = rows /\ job' = job
        /\ pc' = [pc EXCEPT ![t] = "save row"]
        /\ vaults' = vaults /\ selected' = selected /\ vaultRows' = vaultRows
        /\ answered' = answered /\ disturbed' = disturbed /\ surprised' = surprised
        /\ requests' = requests
    BY DEF Put, Goto, Busy, tables, ghosts, bounds
  <1> PICK k \in Keys : /\ k = job[t].key /\ t \in On(k) /\ Fits(t)
                        /\ job[t].alone => AloneProgress(t, k)
                        /\ k \notin disturbed => UndisturbedProgress(t, k) /\ AloneProgress(t, k)
    BY <1>1, OwnProgress DEF Indexing, Indexes, Registering, Registers
  <1>2. PICK s \in Searches : s = job[t].search /\ k = KeyOf(s)
    BY <1>1 DEF Fits, SaveFits, Saving, Deleting, Registering, Indexing, Saves, Registers, Indexes, Steps
  <1>3. /\ ThreadTypes' /\ pc'[t] = "save row"
        /\ \A u \in Threads \ {t} : pc'[u] = pc[u] /\ job'[u] = job[u]
        /\ On(k)' = On(k)
    <2>1. Fits(t)' \/ pc'[t] # "save row"
      BY <1>1, <1>2 DEF Fits, SaveFits, DeleteFits, RegisterFits, IndexFits, Saving, Deleting, Registering, Indexing,
           Saves, Registers, Indexes, Steps, Busy
    <2> QED  BY <1>1, <2>1, GotoEffect DEF IInv, Types, ThreadTypes, Saves, Steps
  <1>4. Types'
    BY <1>1, <1>2, <1>3 DEF IInv, Types, SearchTypes, VaultTypes, GhostTypes
  <1>5. Only(t, k)
    BY <1>1, <1>2, <1>3 DEF Only
  <1>6. Under(searches, k)' = Under(searches, k) \cup {s} /\ Under(rows, k)' = Under(rows, k)
    BY <1>1, <1>2 DEF Under
  <1>7. job'[t].alone => AloneProgress(t, k)'
    BY <1>1, <1>2, <1>3, <1>6
    DEF AloneProgress, Saving, Deleting, Registering, Indexing, Saves, Registers, Indexes, Steps
  <1>8. k \notin disturbed' => UndisturbedProgress(t, k)'
    BY <1>1, <1>2, <1>3, <1>6
    DEF AloneProgress, UndisturbedProgress, Saving, Deleting, Registering, Indexing, Saves, Registers, Indexes, Steps
  <1>9. KeyInv(k)'
    BY <1>1, <1>3, <1>4, <1>7, <1>8, GoesOn DEF RestKeep, Indexing, Indexes
  <1> QED  BY <1>4, <1>5, <1>9, OtherKeys DEF IInv

\* A saved row, or an integrity error: then the key was disturbed.
LEMMA SaveRowKeeps ==
  ASSUME IInv, NEW t \in Threads, SaveRow(t)
  PROVE  IInv'
  <1>1. Busy(t) /\ pc[t] = "save row"
    BY DEF SaveRow, Busy
  <1> PICK k \in Keys : /\ k = job[t].key /\ t \in On(k) /\ Fits(t) /\ answered[k] = Unknown
                        /\ job[t].alone => AloneProgress(t, k)
                        /\ k \notin disturbed => UndisturbedProgress(t, k) /\ AloneProgress(t, k)
    BY <1>1, OwnProgress DEF Indexing, Indexes, Registering, Registers
  <1>2. PICK s \in Searches : s = job[t].search /\ k = KeyOf(s)
    BY <1>1 DEF Fits, SaveFits, Saving, Deleting, Registering, Indexing, Saves, Registers, Indexes, Steps
  <1>3. CASE (\E x \in rows : KeyOf(x) = KeyOf(s) /\ x # s) /\ Raise(t)
    <2>1. PICK x \in rows : KeyOf(x) = k /\ x # s
      BY <1>2, <1>3
    <2>2. Saving(t) /\ x \in Under(rows, k)
      BY <1>1, <1>2, <2>1 DEF Saving, Saves, Under
    <2>3. k \in disturbed
      BY <1>1, <1>2, <2>1, <2>2 DEF UndisturbedProgress
    <2> QED  BY <1>1, <1>3, <2>3, RaiseKeeps DEF Saves
  <1>4. CASE /\ \A x \in rows : KeyOf(x) = KeyOf(s) => x = s
             /\ rows' = rows \cup {s}
             /\ Answer(t, [is |-> "saved", search |-> s])
             /\ UNCHANGED <<memory, vaultRows>>
    <2> DEFINE a == [is |-> "saved", search |-> s]
    <2>1. /\ a \in Answers
          /\ Return(t) /\ searches' = searches /\ vaults' = vaults /\ vaultRows' = vaultRows
          /\ selected' = selected /\ disturbed' = disturbed /\ surprised' = surprised
          /\ requests' = requests
          /\ answered' = IF job[t].alone THEN [answered EXCEPT ![k] = a] ELSE answered
      BY <1>4 DEF Answer, memory, bounds, Answers
    <2> HIDE DEF a
    <2>2. /\ ThreadTypes' /\ pc'[t] = "idle"
          /\ \A u \in Threads \ {t} : pc'[u] = pc[u] /\ job'[u] = job[u]
      BY <2>1, ReturnEffect DEF IInv, Types
    <2>3. answered' \in [Keys -> Answers \cup {Unknown}] /\ \A i \in Keys \ {k} : answered'[i] = answered[i]
      BY <2>1 DEF IInv, Types, GhostTypes
    <2>4. Types'
      BY <1>4, <2>1, <2>2, <2>3 DEF IInv, Types, SearchTypes, VaultTypes, GhostTypes
    <2>5. Only(t, k)
      BY <1>2, <1>4, <2>1, <2>2, <2>3 DEF Only
    <2>6. Under(searches, k)' = Under(searches, k) /\ Under(rows, k)' = {s}
      BY <1>2, <1>4, <2>1 DEF Under
    <2>7. ASSUME job[t].alone PROVE Under(searches, k)' = {s} /\ On(k)' = {}
      <3>1. Saving(t)
        BY <1>1, <1>2 DEF Saving, Saves, Steps
      <3>2. On(k) = {t} /\ Under(searches, k) = {s}
        BY <1>1, <1>2, <2>7, <3>1 DEF AloneProgress
      <3>3. On(k)' \subseteq On(k) \ {t}
        BY <2>2 DEF On, Busy
      <3> QED  BY <2>6, <3>2, <3>3
    <2>8. ASSUME job[t].alone PROVE Answered(k)'
      <3>1. answered'[k] = a
        BY <2>1, <2>8 DEF IInv, Types, GhostTypes
      <3>2. Saved(k, s)'
        BY <1>2, <2>6, <2>7, <2>8, <3>1 DEF Saved, a
      <3> QED  BY <2>7, <2>8, <3>2 DEF Answered
    <2>9. k \in SearchKeys
      BY <1>2, SearchKey
    <2>10. k \notin disturbed' => Same(k)'
      BY <2>1, <2>6, <2>7, <2>9 DEF Same, UndisturbedProgress
    <2>11. KeyInv(k)'
      BY <2>1, <2>2, <2>4, <2>8, <2>10, Ends DEF RestKeep
    <2> QED  BY <2>4, <2>5, <2>11, OtherKeys DEF IInv
  <1> QED  BY <1>2, <1>3, <1>4 DEF SaveRow

LEMMA DropNextKeeps ==
  ASSUME IInv, NEW t \in Threads, DropNext(t)
  PROVE  IInv'
  <1>1. Busy(t) /\ pc[t] = "drop next"
    BY DEF DropNext, Busy
  <1> PICK k \in Keys : /\ k = job[t].key /\ t \in On(k) /\ Fits(t) /\ answered[k] = Unknown
                        /\ job[t].alone => AloneProgress(t, k)
                        /\ k \notin disturbed => UndisturbedProgress(t, k) /\ AloneProgress(t, k)
    BY <1>1, OwnProgress DEF Indexing, Indexes, Registering, Registers
  <1>2. Saving(t) /\ job \in [Threads -> Job] /\ job[t] \in Job
    BY <1>1 DEF Fits, Saving, Deleting, Registering, Indexing, Saves, Registers, Indexes, Steps, IInv, Types, ThreadTypes
  <1>3. PICK x \in job[t].replaced :
          \/ /\ x \in searches
             /\ searches' = searches \ {x}
             /\ job' = [job EXCEPT ![t].replaced = @ \ {x}, ![t].row = x]
             /\ Goto(t, "delete row")
             /\ UNCHANGED <<vaults, selected, tables>>
          \/ x \notin searches /\ Raise(t)
    BY DEF DropNext
  <1>4. CASE x \notin searches /\ Raise(t)
    <2>1. k \in disturbed
      BY <1>1, <1>2, <1>3, <1>4 DEF UndisturbedProgress, Under
    <2> QED  BY <1>1, <1>4, <2>1, RaiseKeeps DEF Saves
  <1>5. CASE /\ x \in searches
             /\ searches' = searches \ {x}
             /\ job' = [job EXCEPT ![t].replaced = @ \ {x}, ![t].row = x]
             /\ Goto(t, "delete row")
             /\ UNCHANGED <<vaults, selected, tables>>
    <2>1. x \in Searches /\ KeyOf(x) = k
      BY <1>2, <1>5 DEF Fits, SaveFits, IInv, Types, SearchTypes
    <2>2. /\ pc' = [pc EXCEPT ![t] = "delete row"]
          /\ vaults' = vaults /\ selected' = selected /\ vaultRows' = vaultRows /\ rows' = rows
          /\ answered' = answered /\ disturbed' = disturbed /\ surprised' = surprised
          /\ requests' = requests
      BY <1>5 DEF Goto, tables, ghosts, bounds
    <2>3. /\ job' \in [Threads -> Job]
          /\ \A u \in Threads \ {t} : job'[u] = job[u]
          /\ job'[t].key = k /\ job'[t].search = job[t].search /\ job'[t].row = x
          /\ job'[t].replaced = job[t].replaced \ {x} /\ job'[t].alone = job[t].alone
      <3> DEFINE R == job[t].replaced \ {x}
                 a == [job[t] EXCEPT !.replaced = R]
                 b == [a EXCEPT !.row = x]
                 j1 == [job EXCEPT ![t].replaced = R]
      <3>1. R \in SUBSET Searches
        BY <1>2 DEF Job
      <3>2. a \in Job /\ a.replaced = R /\ a.key = k /\ a.search = job[t].search /\ a.alone = job[t].alone
        BY <1>2, <3>1, SetReplaced, Zenon
      <3>3. j1 \in [Threads -> Job] /\ j1[t] = a /\ \A u \in Threads \ {t} : j1[u] = job[u]
        BY <1>2, <3>2, Zenon
      <3>4. job' = [j1 EXCEPT ![t].row = x]
        BY <1>5, Zenon
      <3> HIDE DEF R, a, j1
      <3>5. /\ b \in Job /\ b.row = x /\ b.replaced = R /\ b.key = k /\ b.search = job[t].search
            /\ b.alone = job[t].alone
        BY <2>1, <3>2, SetRow, Zenon
      <3>6. job' \in [Threads -> Job] /\ job'[t] = b /\ \A u \in Threads \ {t} : job'[u] = j1[u]
        BY <3>3, <3>4, <3>5, Zenon
      <3> HIDE DEF b
      <3> QED  BY <3>3, <3>5, <3>6 DEF R
    <2>4. /\ pc' \in [Threads -> {"idle"} \cup Steps] /\ pc'[t] = "delete row"
          /\ \A u \in Threads \ {t} : pc'[u] = pc[u]
      BY <2>2 DEF IInv, Types, ThreadTypes, Saves, Steps
    <2>5. Fits(t)'
      BY <1>1, <1>2, <2>1, <2>3, <2>4
      DEF Fits, SaveFits, DeleteFits, RegisterFits, IndexFits, Saving, Deleting, Registering, Indexing, Saves, Registers, Indexes, Steps, Busy
    <2>6. ThreadTypes'
      BY <2>2, <2>3, <2>4, <2>5, FitsKept DEF OthersKeep, SameWork, IInv, Types
    <2>7. Types'
      BY <1>5, <2>2, <2>6 DEF IInv, Types, SearchTypes, VaultTypes, GhostTypes
    <2>8. Only(t, k)
      BY <1>5, <2>1, <2>2, <2>3, <2>4 DEF Only
    <2>9. On(k)' = On(k)
      BY <1>1, <2>3, <2>4 DEF On, Busy
    <2>10. Under(searches, k)' = Under(searches, k) \ {x} /\ Under(rows, k)' = Under(rows, k)
           /\ x \in Under(searches, k)
      BY <1>5, <2>1, <2>2 DEF Under
    <2>11. job'[t].alone => AloneProgress(t, k)'
      BY <1>1, <1>2, <2>1, <2>3, <2>4, <2>9, <2>10, NoneAssumption
      DEF AloneProgress, Saving, Deleting, Registering, Indexing, Saves, Registers, Indexes, Steps
    <2>12. k \notin disturbed' => UndisturbedProgress(t, k)'
      BY <1>1, <1>2, <2>1, <2>2, <2>3, <2>4, <2>10
      DEF UndisturbedProgress, Saving, Deleting, Registering, Indexing, Saves, Registers, Indexes, Steps
    <2>13. KeyInv(k)'
      BY <1>1, <2>2, <2>3, <2>4, <2>7, <2>9, <2>11, <2>12, GoesOn DEF RestKeep, Indexing, Indexes
    <2> QED  BY <2>7, <2>8, <2>13, OtherKeys DEF IInv
  <1> QED  BY <1>3, <1>4, <1>5

LEMMA DeleteRowKeeps ==
  ASSUME IInv, NEW t \in Threads, DeleteRow(t)
  PROVE  IInv'
  <1>1. Busy(t) /\ pc[t] = "delete row"
    BY DEF DeleteRow, Busy
  <1> PICK k \in Keys : /\ k = job[t].key /\ t \in On(k) /\ Fits(t) /\ answered[k] = Unknown
                        /\ job[t].alone => AloneProgress(t, k)
                        /\ k \notin disturbed => UndisturbedProgress(t, k) /\ AloneProgress(t, k)
    BY <1>1, OwnProgress DEF Indexing, Indexes, Registering, Registers
  <1>2. PICK x \in Searches : x = job[t].row /\ KeyOf(x) = k
    BY <1>1 DEF Fits, SaveFits, DeleteFits, Saving, Deleting, Registering, Indexing, Registers, Indexes, Steps
  <1>3. /\ rows' = rows \ {x} /\ searches' = searches /\ vaults' = vaults
        /\ selected' = selected /\ vaultRows' = vaultRows
    BY <1>2 DEF DeleteRow, memory
  <1>4. Under(searches, k)' = Under(searches, k) /\ Under(rows, k)' = Under(rows, k) \ {x}
    BY <1>3 DEF Under
  <1>5. k \in SearchKeys
    BY <1>2, SearchKey
  <1>6. CASE job[t].search = None
    <2> DEFINE a == [is |-> "gone", search |-> x]
    <2>1. /\ a \in Answers /\ Return(t)
          /\ answered' = IF job[t].alone THEN [answered EXCEPT ![k] = a] ELSE answered
          /\ disturbed' = disturbed /\ surprised' = surprised /\ requests' = requests
      BY <1>2, <1>6 DEF DeleteRow, Answer, bounds, Answers
    <2> HIDE DEF a
    <2>2. /\ ThreadTypes' /\ pc'[t] = "idle"
          /\ \A u \in Threads \ {t} : pc'[u] = pc[u] /\ job'[u] = job[u]
      BY <1>3, <2>1, ReturnEffect DEF IInv, Types
    <2>3. answered' \in [Keys -> Answers \cup {Unknown}] /\ \A i \in Keys \ {k} : answered'[i] = answered[i]
      BY <2>1 DEF IInv, Types, GhostTypes
    <2>4. Types'
      BY <1>3, <2>1, <2>2, <2>3 DEF IInv, Types, SearchTypes, VaultTypes, GhostTypes
    <2>5. Only(t, k)
      BY <1>2, <1>3, <2>1, <2>2, <2>3 DEF Only
    <2>6. Deleting(t)
      BY <1>1, <1>6 DEF Deleting
    <2>7. ASSUME job[t].alone PROVE Answered(k)'
      <3>1. answered'[k] = a
        BY <2>1, <2>7 DEF IInv, Types, GhostTypes
      <3>2. On(k) = {t} /\ x \notin Under(searches, k)
        BY <1>2, <2>6, <2>7 DEF AloneProgress
      <3>3. On(k)' \subseteq On(k) \ {t}
        BY <2>2 DEF On, Busy
      <3>4. Gone(k, x)'
        BY <1>2, <1>4, <3>1, <3>2 DEF Gone, a
      <3> QED  BY <3>2, <3>3, <3>4 DEF Answered
    <2>8. k \notin disturbed' => Same(k)'
      BY <1>1, <1>2, <1>4, <1>5, <2>1 DEF Same, UndisturbedProgress
    <2>9. KeyInv(k)'
      BY <2>1, <2>2, <2>4, <2>7, <2>8, Ends DEF RestKeep
    <2> QED  BY <2>4, <2>5, <2>9, OtherKeys DEF IInv
  <1>7. CASE job[t].search # None
    <2>1. /\ pc' = [pc EXCEPT ![t] = "drop next"] /\ job' = job
          /\ answered' = answered /\ disturbed' = disturbed /\ surprised' = surprised
          /\ requests' = requests
      BY <1>7 DEF DeleteRow, Goto, ghosts, bounds
    <2>2. Saving(t)
      BY <1>1, <1>7 DEF Fits, Saving, Deleting, Registering, Indexing, Registers, Indexes, Steps
    <2>3. /\ ThreadTypes' /\ pc'[t] = "drop next"
          /\ \A u \in Threads \ {t} : pc'[u] = pc[u] /\ job'[u] = job[u]
          /\ On(k)' = On(k)
      <3>1. Fits(t)' \/ pc'[t] # "drop next"
        BY <1>1, <1>7, <2>1, <2>2 DEF Fits, SaveFits, DeleteFits, RegisterFits, IndexFits, Saving, Deleting,
             Registering, Indexing, Saves, Registers, Indexes, Steps, Busy
      <3> QED  BY <1>1, <1>3, <2>1, <3>1, GotoEffect DEF IInv, Types, ThreadTypes, Saves, Steps
    <2>4. Types'
      BY <1>3, <2>1, <2>3 DEF IInv, Types, SearchTypes, VaultTypes, GhostTypes
    <2>5. Only(t, k)
      BY <1>2, <1>3, <2>1, <2>3 DEF Only
    <2>6. job'[t].alone => AloneProgress(t, k)'
      BY <1>1, <1>4, <2>1, <2>2, <2>3
      DEF AloneProgress, Saving, Deleting, Registering, Indexing, Saves, Registers, Indexes, Steps
    <2>7. k \notin disturbed' => UndisturbedProgress(t, k)'
      BY <1>1, <1>2, <1>4, <2>1, <2>2, <2>3
      DEF UndisturbedProgress, Saving, Deleting, Registering, Indexing, Saves, Registers, Indexes, Steps
    <2>8. KeyInv(k)'
      BY <1>1, <2>1, <2>3, <2>4, <2>6, <2>7, GoesOn DEF RestKeep, Indexing, Indexes
    <2> QED  BY <2>4, <2>5, <2>8, OtherKeys DEF IInv
  <1> QED  BY <1>6, <1>7

\* The vault a registration works on.
LEMMA OwnVault ==
  ASSUME IInv, NEW t \in Threads, Registering(t)
  PROVE  \E v \in Vaults, k \in Keys :
           /\ k = <<v>> /\ k[1] = v /\ k \in VaultKeys /\ k \notin SearchKeys
           /\ k = job[t].key /\ t \in On(k) /\ Fits(t) /\ answered[k] = Unknown
           /\ job[t].alone => AloneProgress(t, k)
           /\ k \notin disturbed => UndisturbedProgress(t, k) /\ AloneProgress(t, k)
           /\ pc[t] = "make state" => v # Default
           /\ pc[t] # "make state" => v \in DOMAIN vaults
           /\ pc[t] \in {"make state", "set root"} \/ v = Default => job[t].root \in Roots
  <1>1. Busy(t)
    BY DEF Registering, Indexing, Registers, Indexes, Steps, Busy
  <1> PICK k \in Keys : /\ k = job[t].key /\ t \in On(k) /\ Fits(t) /\ answered[k] = Unknown
                        /\ job[t].alone => AloneProgress(t, k)
                        /\ k \notin disturbed => UndisturbedProgress(t, k) /\ AloneProgress(t, k)
    BY <1>1, OwnProgress DEF Indexing, Indexes, Registering, Registers
  <1>2. PICK v \in Vaults :
          /\ k = <<v>>
          /\ pc[t] = "make state" => v # Default
          /\ pc[t] # "make state" => v \in DOMAIN vaults
          /\ pc[t] \in {"make state", "set root"} \/ v = Default => job[t].root \in Roots
    BY DEF Fits, RegisterFits, IndexFits
  <1>3. k \in VaultKeys /\ k \notin SearchKeys
    BY <1>2, KeysDiffer DEF VaultKeys
  <1> QED  BY <1>2, <1>3

LEMMA SaveVaultKeeps ==
  ASSUME IInv, NEW t \in Threads, SaveVault(t)
  PROVE  IInv'
  <1>1. Busy(t) /\ pc[t] = "save vault" /\ Registering(t)
    BY DEF SaveVault, Busy, Registering, Indexing, Registers, Indexes, Steps
  <1> PICK v \in Vaults, k \in Keys :
           /\ k = <<v>> /\ k[1] = v /\ k \in VaultKeys /\ k \notin SearchKeys
           /\ k = job[t].key /\ t \in On(k) /\ answered[k] = Unknown
           /\ job[t].alone => AloneProgress(t, k)
           /\ k \notin disturbed => UndisturbedProgress(t, k) /\ AloneProgress(t, k)
           /\ v \in DOMAIN vaults
           /\ v = Default => job[t].root \in Roots
    BY <1>1, OwnVault
  <1>2. PICK r \in AnyRoot : r = job[t].root
    BY DEF IInv, Types, ThreadTypes, Job
  <1> DEFINE a == [is |-> "registered", root |-> r]
  <1>3. /\ a \in Answers /\ Return(t)
        /\ answered' = IF job[t].alone THEN [answered EXCEPT ![k] = a] ELSE answered
        /\ disturbed' = disturbed /\ surprised' = surprised /\ requests' = requests
        /\ searches' = searches /\ rows' = rows /\ vaults' = vaults /\ selected' = selected
        /\ vaultRows' = With(vaultRows, v, r)
    BY <1>2 DEF SaveVault, Answer, bounds, memory, Answers, AnyRoot
  <1> HIDE DEF a
  <1>4. /\ DOMAIN vaultRows' = DOMAIN vaultRows \cup {v} /\ vaultRows'[v] = r
        /\ \A w \in DOMAIN vaultRows : w # v => vaultRows'[w] = vaultRows[w]
        /\ vaultRows' \in [DOMAIN vaultRows' -> AnyRoot]
    BY <1>3 DEF With, IInv, Types, VaultTypes
  <1>5. /\ ThreadTypes' /\ pc'[t] = "idle"
        /\ \A u \in Threads \ {t} : pc'[u] = pc[u] /\ job'[u] = job[u]
    BY <1>3, ReturnEffect DEF IInv, Types
  <1>6. answered' \in [Keys -> Answers \cup {Unknown}] /\ \A i \in Keys \ {k} : answered'[i] = answered[i]
    BY <1>3 DEF IInv, Types, GhostTypes
  <1>7. VaultTypes'
    BY <1>2, <1>3, <1>4 DEF IInv, Types, VaultTypes
  <1>8. Types'
    BY <1>3, <1>5, <1>6, <1>7 DEF IInv, Types, SearchTypes, GhostTypes
  <1>9. Only(t, k)
    BY <1>3, <1>4, <1>5, <1>6 DEF Only
  <1>10. ASSUME job[t].alone PROVE Answered(k)'
    <2>1. answered'[k] = a
      BY <1>3, <1>10 DEF IInv, Types, GhostTypes
    <2>2. On(k) = {t} /\ r = vaults[v].root /\ r \in Roots
      BY <1>1, <1>2, <1>10 DEF AloneProgress
    <2>3. On(k)' \subseteq On(k) \ {t}
      BY <1>5 DEF On, Busy
    <2>4. Registered(k, r)'
      BY <1>3, <1>4, <2>1, <2>2 DEF Registered, a
    <2> QED  BY <2>2, <2>3, <2>4 DEF Answered
  <1>11. k \notin disturbed' => Same(k)'
    <2>1. ASSUME k \notin disturbed' PROVE r = vaults[v].root /\ SavedRoot(v)' = r
      <3>1. r = vaults[v].root /\ r \in Roots
        BY <1>1, <1>2, <1>3, <2>1 DEF AloneProgress
      <3> QED  BY <1>3, <1>4, <3>1, NoneAssumption DEF SavedRoot
    <2> QED  BY <1>3, <2>1 DEF Same
  <1>12. KeyInv(k)'
    BY <1>3, <1>5, <1>8, <1>10, <1>11, Ends DEF RestKeep
  <1> QED  BY <1>8, <1>9, <1>12, OtherKeys DEF IInv

\* The statements before it, the last one first.
LEMMA ReadMetadataKeeps ==
  ASSUME IInv, NEW t \in Threads, ReadMetadata(t)
  PROVE  IInv'
  <1>1. Busy(t) /\ pc[t] = "read metadata" /\ Registering(t)
    BY DEF ReadMetadata, Busy, Registering, Indexing, Registers, Indexes, Steps
  <1> PICK v \in Vaults, k \in Keys :
           /\ k = <<v>> /\ k[1] = v /\ k \in VaultKeys /\ k \notin SearchKeys
           /\ k = job[t].key /\ t \in On(k) /\ answered[k] = Unknown
           /\ job[t].alone => AloneProgress(t, k)
           /\ k \notin disturbed => UndisturbedProgress(t, k) /\ AloneProgress(t, k)
           /\ v \in DOMAIN vaults
    BY <1>1, OwnVault
  <1>2. PICK r \in AnyRoot : r = vaults[v].root
    BY DEF IInv, Types, VaultTypes
  <1>3. /\ pc' = [pc EXCEPT ![t] = "save vault"] /\ job' = [job EXCEPT ![t].root = r]
        /\ searches' = searches /\ rows' = rows /\ vaults' = vaults /\ selected' = selected
        /\ vaultRows' = vaultRows
        /\ answered' = answered /\ disturbed' = disturbed /\ surprised' = surprised
        /\ requests' = requests
    BY <1>2, Zenon DEF ReadMetadata, Goto, memory, tables, ghosts, bounds
  <1>4. /\ pc' \in [Threads -> {"idle"} \cup Steps] /\ pc'[t] = "save vault"
        /\ \A u \in Threads \ {t} : pc'[u] = pc[u]
    BY <1>3 DEF IInv, Types, ThreadTypes, Registers, Indexes, Steps
  <1>5. /\ job' \in [Threads -> Job] /\ \A u \in Threads \ {t} : job'[u] = job[u]
        /\ job'[t].key = k /\ job'[t].root = r /\ job'[t].state = job[t].state
        /\ job'[t].alone = job[t].alone /\ job'[t].search = job[t].search
    <2> DEFINE a == [job[t] EXCEPT !.root = r]
    <2>1. job \in [Threads -> Job] /\ job[t] \in Job
      BY DEF IInv, Types, ThreadTypes
    <2>2. /\ a \in Job /\ a.key = k /\ a.root = r /\ a.state = job[t].state
          /\ a.alone = job[t].alone /\ a.search = job[t].search
      BY <2>1, SetRootOf, Zenon
    <2>3. job' \in [Threads -> Job] /\ job'[t] = a /\ \A u \in Threads \ {t} : job'[u] = job[u]
      BY <1>3, <2>1, <2>2, Zenon
    <2> HIDE DEF a
    <2> QED  BY <2>2, <2>3
  <1> HIDE <1>3
  <1>6. v = Default => r \in Roots
    BY <1>2 DEF IInv, Types, VaultTypes
  <1>7. RegisterFits(t)'
    BY <1>3, <1>4, <1>5, <1>6 DEF RegisterFits, IndexFits
  <1>8. Fits(t)'
    BY <1>4, <1>5, <1>7 DEF Fits, SaveFits, DeleteFits, IndexFits, Saving, Deleting, Registering,
         Indexing, Saves, Registers, Indexes, Steps, Busy
  <1>9. ThreadTypes'
    BY <1>3, <1>4, <1>5, <1>8, FitsKept DEF OthersKeep, SameWork, IInv, Types
  <1>10. Types'
    BY <1>3, <1>9 DEF IInv, Types, SearchTypes, VaultTypes, GhostTypes
  <1>11. Only(t, k)
    BY <1>3, <1>4, <1>5 DEF Only
  <1>12. On(k)' = On(k)
    BY <1>1, <1>4, <1>5 DEF On, Busy
  <1>13. job'[t].alone => AloneProgress(t, k)'
    <2>1. ASSUME job'[t].alone
          PROVE  On(k) = {t} /\ vaults[v].state = job[t].state /\ r \in Roots
      BY <1>1, <1>2, <1>5, <2>1 DEF AloneProgress
    <2> QED
      BY <1>2, <1>3, <1>4, <1>5, <1>12, <2>1
      DEF AloneProgress, Saving, Deleting, Indexing, Saves, Indexes
  <1>14. k \notin disturbed' => UndisturbedProgress(t, k)'
    BY <1>3, <1>4, <1>5 DEF UndisturbedProgress, Saving, Saves, Steps, Indexing, Indexes
  <1>15. KeyInv(k)'
    BY <1>1, <1>3, <1>4, <1>5, <1>10, <1>12, <1>13, <1>14, GoesOn DEF RestKeep, Indexing, Indexes
  <1> QED  BY <1>10, <1>11, <1>15, OtherKeys DEF IInv

LEMMA SetRootKeeps ==
  ASSUME IInv, NEW t \in Threads, SetRoot(t)
  PROVE  IInv'
  <1>1. Busy(t) /\ pc[t] = "set root" /\ Registering(t)
    BY DEF SetRoot, Busy, Registering, Indexing, Registers, Indexes, Steps
  <1> PICK v \in Vaults, k \in Keys :
           /\ k = <<v>> /\ k[1] = v /\ k \in VaultKeys /\ k \notin SearchKeys
           /\ k = job[t].key /\ t \in On(k) /\ Fits(t) /\ answered[k] = Unknown
           /\ job[t].alone => AloneProgress(t, k)
           /\ k \notin disturbed => UndisturbedProgress(t, k) /\ AloneProgress(t, k)
           /\ v \in DOMAIN vaults
           /\ job[t].root \in Roots
    BY <1>1, OwnVault
  <1>2. PICK r \in Roots : r = job[t].root
    OBVIOUS
  <1>3. /\ pc' = [pc EXCEPT ![t] = "read metadata"] /\ job' = job
        /\ searches' = searches /\ rows' = rows /\ selected' = selected
        /\ vaultRows' = vaultRows
        /\ answered' = answered /\ disturbed' = disturbed /\ surprised' = surprised
        /\ requests' = requests
        /\ vaults' = IF vaults[v].state = job[t].state
                       THEN [vaults EXCEPT ![v].root = r] ELSE vaults
    BY <1>2, Zenon DEF SetRoot, Goto, tables, ghosts, bounds
  <1>4. /\ DOMAIN vaults' = DOMAIN vaults
        /\ vaults' \in [DOMAIN vaults -> [root : AnyRoot, state : Nat]]
        /\ \A w \in DOMAIN vaults : w # v => vaults'[w] = vaults[w]
        /\ vaults'[v].state = vaults[v].state
        /\ vaults[v].state = job[t].state => vaults'[v].root = r
        /\ vaults'[v].root = r \/ vaults'[v].root = vaults[v].root
    <2> DEFINE a == [vaults[v] EXCEPT !.root = r]
    <2>1. vaults \in [DOMAIN vaults -> [root : AnyRoot, state : Nat]] /\ r \in AnyRoot
      BY DEF IInv, Types, VaultTypes, AnyRoot
    <2>2. a \in [root : AnyRoot, state : Nat] /\ a.root = r /\ a.state = vaults[v].state
      BY <2>1, Zenon
    <2>3. CASE vaults[v].state = job[t].state
      <3>1. vaults' = [vaults EXCEPT ![v] = a]
        BY <1>3, <2>3, Zenon
      <3> HIDE DEF a
      <3> QED  BY <2>1, <2>2, <3>1
    <2>4. CASE vaults[v].state # job[t].state
      BY <1>3, <2>1, <2>4, Zenon
    <2> QED  BY <2>3, <2>4
  <1>5. /\ pc' = [pc EXCEPT ![t] = "read metadata"] /\ job' = job
        /\ searches' = searches /\ rows' = rows /\ selected' = selected
        /\ vaultRows' = vaultRows
        /\ answered' = answered /\ disturbed' = disturbed /\ surprised' = surprised
        /\ requests' = requests
    BY <1>3
  <1>6. /\ ThreadTypes' /\ pc'[t] = "read metadata"
        /\ \A u \in Threads \ {t} : pc'[u] = pc[u] /\ job'[u] = job[u]
        /\ On(k)' = On(k)
    <2>1. Fits(t)' \/ pc'[t] # "read metadata"
      BY <1>1, <1>2, <1>4, <1>5 DEF Fits, SaveFits, DeleteFits, RegisterFits, IndexFits, Saving, Deleting,
           Registering, Indexing, Saves, Registers, Indexes, Steps, Busy
    <2> QED  BY <1>1, <1>4, <1>5, <2>1, GotoEffect DEF IInv, Types, ThreadTypes, Registers, Indexes, Steps
  <1>7. vaults'[Default].root \in Roots
    BY <1>4 DEF IInv, Types, VaultTypes
  <1>8. Types'
    BY <1>4, <1>5, <1>6, <1>7 DEF IInv, Types, SearchTypes, VaultTypes, GhostTypes
  <1>9. Only(t, k)
    BY <1>4, <1>5, <1>6 DEF Only
  <1>10. job'[t].alone => AloneProgress(t, k)'
    BY <1>1, <1>2, <1>4, <1>5, <1>6
    DEF AloneProgress, Saving, Deleting, Registering, Indexing, Saves, Registers, Indexes, Steps
  <1>11. k \notin disturbed' => UndisturbedProgress(t, k)'
    BY <1>5, <1>6 DEF UndisturbedProgress, Saving, Saves, Steps, Indexing, Indexes
  <1>12. KeyInv(k)'
    BY <1>1, <1>5, <1>6, <1>8, <1>10, <1>11, GoesOn DEF RestKeep, Indexing, Indexes
  <1> QED  BY <1>8, <1>9, <1>12, OtherKeys DEF IInv

LEMMA MakeStateKeeps ==
  ASSUME IInv, NEW t \in Threads, MakeState(t)
  PROVE  IInv'
  <1>1. Busy(t) /\ pc[t] = "make state" /\ Registering(t)
    BY DEF MakeState, Busy, Registering, Indexing, Registers, Indexes, Steps
  <1> PICK v \in Vaults, k \in Keys :
           /\ k = <<v>> /\ k[1] = v /\ k \in VaultKeys /\ k \notin SearchKeys
           /\ k = job[t].key /\ t \in On(k) /\ Fits(t) /\ answered[k] = Unknown
           /\ job[t].alone => AloneProgress(t, k)
           /\ k \notin disturbed => UndisturbedProgress(t, k) /\ AloneProgress(t, k)
           /\ v # Default /\ job[t].root \in Roots
    BY <1>1, OwnVault
  <1> DEFINE a == [root |-> NoRoot, state |-> job[t].state]
  <1>2. /\ pc' = [pc EXCEPT ![t] = "set root"] /\ job' = job
        /\ searches' = searches /\ rows' = rows /\ selected' = selected
        /\ vaultRows' = vaultRows
        /\ answered' = answered /\ disturbed' = disturbed /\ surprised' = surprised
        /\ requests' = requests
        /\ vaults' = With(vaults, v, a)
    BY DEF MakeState, Goto, tables, ghosts, bounds
  <1>3. a \in [root : AnyRoot, state : Nat] /\ a.state = job[t].state
    BY DEF AnyRoot, IInv, Types, ThreadTypes, Job
  <1> HIDE DEF a
  <1>4. /\ DOMAIN vaults' = DOMAIN vaults \cup {v} /\ vaults'[v] = a
        /\ \A w \in DOMAIN vaults : w # v => vaults'[w] = vaults[w]
        /\ vaults' \in [DOMAIN vaults' -> [root : AnyRoot, state : Nat]]
    BY <1>2, <1>3 DEF With, IInv, Types, VaultTypes
  <1>5. /\ ThreadTypes' /\ pc'[t] = "set root"
        /\ \A u \in Threads \ {t} : pc'[u] = pc[u] /\ job'[u] = job[u]
        /\ On(k)' = On(k)
    <2>1. Fits(t)' \/ pc'[t] # "set root"
      BY <1>1, <1>2, <1>4 DEF Fits, SaveFits, DeleteFits, RegisterFits, IndexFits, Saving, Deleting,
           Registering, Indexing, Saves, Registers, Indexes, Steps, Busy
    <2> QED  BY <1>1, <1>2, <1>4, <2>1, GotoEffect DEF IInv, Types, ThreadTypes, Registers, Indexes, Steps
  <1>6. Types'
    BY <1>2, <1>4, <1>5 DEF IInv, Types, SearchTypes, VaultTypes, GhostTypes
  <1>7. Only(t, k)
    BY <1>2, <1>4, <1>5 DEF Only
  <1>8. job'[t].alone => AloneProgress(t, k)'
    BY <1>2, <1>3, <1>4, <1>5, <1>1
    DEF AloneProgress, Saving, Deleting, Registering, Indexing, Saves, Registers, Indexes, Steps
  <1>9. k \notin disturbed' => UndisturbedProgress(t, k)'
    BY <1>2, <1>5 DEF UndisturbedProgress, Saving, Saves, Steps, Indexing, Indexes
  <1>10. KeyInv(k)'
    BY <1>1, <1>2, <1>5, <1>6, <1>8, <1>9, GoesOn DEF RestKeep, Indexing, Indexes
  <1> QED  BY <1>6, <1>7, <1>10, OtherKeys DEF IInv

\* A request is accepted: it shares its key with the requests on it.
Accepted(t, k, step, j) ==
  /\ ~Busy(t) /\ pc' \in [Threads -> {"idle"} \cup Steps] /\ pc'[t] = step
  /\ \A u \in Threads \ {t} : pc'[u] = pc[u]
  /\ job' \in [Threads -> Job] /\ SameWork(job'[t], j) /\ OthersKeep(t)
  /\ \A u \in Threads \ {t} :
       job'[u] = job[u] \/ (Busy(u) /\ job[u].key = k /\ job'[u].key = k)
  /\ On(k)' = On(k) \cup {t} /\ t \notin On(k)
  /\ job'[t].alone = (On(k) = {}) /\ \A u \in On(k) : ~job'[u].alone
  /\ GhostTypes'
  /\ \/ answered'[k] = Unknown
     \/ step = "check root" /\ On(k) = {} /\ answered'[k] = answered[k]
  /\ \A i \in Keys \ {k} : answered'[i] = answered[i]
  /\ disturbed \subseteq disturbed' /\ disturbed' \subseteq disturbed \cup {k}
  /\ On(k) # {} => k \in disturbed'
  /\ surprised' = surprised

LEMMA AcceptEffect ==
  ASSUME IInv, NEW t \in Threads, NEW k \in Keys, NEW step \in Steps,
         NEW j \in Job, j.key = k, Accept(t, step, j)
  PROVE  Accepted(t, k, step, j)
  <1>1. /\ ~Busy(t) /\ pc' = [pc EXCEPT ![t] = step]
        /\ job' = [u \in Threads |->
                     IF u = t THEN [j EXCEPT !.alone = On(k) = {}]
                     ELSE IF u \in On(k) THEN [job[u] EXCEPT !.alone = FALSE]
                     ELSE job[u]]
        /\ answered' = IF step = "check root" /\ On(k) = {} THEN answered
                       ELSE [answered EXCEPT ![k] = Unknown]
        /\ disturbed' = IF On(k) = {} THEN disturbed ELSE disturbed \cup {k}
        /\ surprised' = surprised /\ requests' = requests + 1
    BY Zenon DEF Accept
  <1>2. /\ pc' \in [Threads -> {"idle"} \cup Steps] /\ pc'[t] = step
        /\ \A u \in Threads \ {t} : pc'[u] = pc[u]
        /\ step # "idle" /\ t \notin On(k)
    <2>1. pc \in [Threads -> {"idle"} \cup Steps]
      BY DEF IInv, Types, ThreadTypes
    <2>2. ~Busy(t) /\ pc' = [pc EXCEPT ![t] = step]
      BY <1>1, Zenon
    <2> QED  BY <2>1, <2>2 DEF On, Saves, Registers, Indexes, Steps
  <1> DEFINE b == On(k) = {}
             n == [j EXCEPT !.alone = b]
             m(u) == [job[u] EXCEPT !.alone = FALSE]
  <1>3. n \in Job /\ SameWork(n, j) /\ n.alone = b
    <2>1. b \in BOOLEAN
      OBVIOUS
    <2> HIDE DEF b
    <2> QED  BY <2>1, SetAlone, Zenon DEF SameWork
  <1>4. \A u \in Threads : job[u] \in Job
    BY DEF IInv, Types, ThreadTypes
  <1>5. \A u \in Threads : m(u) \in Job /\ SameWork(m(u), job[u]) /\ ~m(u).alone
    BY <1>4, SetAlone, Zenon DEF SameWork
  <1>6. job' = [u \in Threads |-> IF u = t THEN n ELSE IF u \in On(k) THEN m(u) ELSE job[u]]
    BY <1>1, Zenon
  <1> HIDE DEF n, m
  <1>7. \A u \in Threads : job'[u] = IF u = t THEN n ELSE IF u \in On(k) THEN m(u) ELSE job[u]
    BY <1>6, Zenon
  <1>8. job' \in [Threads -> Job]
    BY <1>3, <1>4, <1>5, <1>6
  <1>9. /\ SameWork(job'[t], j) /\ job'[t].alone = b
        /\ \A u \in On(k) : ~job'[u].alone
    BY <1>2, <1>3, <1>5, <1>7 DEF On
  <1>10. \A u \in Threads \ {t} :
           job'[u] = job[u] \/ (Busy(u) /\ job[u].key = k /\ job'[u].key = k)
    BY <1>5, <1>7 DEF On, SameWork
  <1>11. OthersKeep(t)
    BY <1>2, <1>5, <1>7 DEF OthersKeep, SameWork
  <1>12. On(k)' = On(k) \cup {t}
    BY <1>2, <1>9, <1>11 DEF On, Busy, OthersKeep, SameWork
  <1> HIDE <1>1, <1>6, <1>7
  <1>13. /\ GhostTypes'
         /\ \/ answered'[k] = Unknown
            \/ step = "check root" /\ On(k) = {} /\ answered'[k] = answered[k]
         /\ \A i \in Keys \ {k} : answered'[i] = answered[i]
         /\ disturbed \subseteq disturbed' /\ disturbed' \subseteq disturbed \cup {k}
         /\ On(k) # {} => k \in disturbed'
         /\ surprised' = surprised
    <2>1. /\ answered' = IF step = "check root" /\ On(k) = {} THEN answered
                         ELSE [answered EXCEPT ![k] = Unknown]
          /\ disturbed' = IF On(k) = {} THEN disturbed ELSE disturbed \cup {k}
          /\ surprised' = surprised /\ requests' = requests + 1
      BY <1>1, Zenon
    <2>2. answered \in [Keys -> Answers \cup {Unknown}]
      BY DEF IInv, Types, GhostTypes
    <2>3. /\ answered' \in [Keys -> Answers \cup {Unknown}]
          /\ \A i \in Keys \ {k} : answered'[i] = answered[i]
          /\ \/ answered'[k] = Unknown
             \/ step = "check root" /\ On(k) = {} /\ answered'[k] = answered[k]
      <3>1. CASE step = "check root" /\ On(k) = {}
        BY <2>1, <2>2, <3>1
      <3>2. CASE ~(step = "check root" /\ On(k) = {})
        <4>1. answered' = [answered EXCEPT ![k] = Unknown]
          BY <2>1, <3>2, Zenon
        <4> QED  BY <2>2, <4>1
      <3> QED  BY <3>1, <3>2
    <2>4. /\ disturbed' = IF On(k) = {} THEN disturbed ELSE disturbed \cup {k}
          /\ surprised' = surprised /\ requests' = requests + 1
      BY <2>1, Zenon
    <2> HIDE <2>1
    <2>5. /\ disturbed \subseteq disturbed' /\ disturbed' \subseteq disturbed \cup {k}
          /\ On(k) # {} => k \in disturbed'
      BY <2>4
    <2>6. disturbed \subseteq Keys /\ surprised \subseteq Keys /\ requests \in Nat
      BY DEF IInv, Types, GhostTypes
    <2>7. GhostTypes'
      <3>1. disturbed' \subseteq Keys
        BY <2>5, <2>6, Zenon
      <3>2. surprised' \subseteq Keys /\ requests' \in Nat
        BY <2>4, <2>6
      <3>3. answered' \in [Keys -> Answers \cup {Unknown}]
        BY <2>3
      <3> QED  BY <3>1, <3>2, <3>3, Zenon DEF GhostTypes
    <2> QED  BY <2>3, <2>4, <2>5, <2>7
  <1>14. ~Busy(t)
    BY <1>1, Zenon
  <1> QED  BY <1>2, <1>8, <1>9, <1>10, <1>11, <1>12, <1>13, <1>14 DEF Accepted

LEMMA AcceptedKeeps ==
  ASSUME IInv, Types', NEW t \in Threads, NEW k \in Keys, NEW step, NEW j,
         Accepted(t, k, step, j), Only(t, k),
         On(k) = {} => AloneProgress(t, k)',
         On(k) = {} /\ k \notin disturbed => UndisturbedProgress(t, k)',
         answered'[k] # Unknown => Answered(k)'
  PROVE  IInv'
  <1>1. KeyInv(k)'
    <2>1. KeyInv(k)
      BY DEF IInv
    <2>2. Progress(k)'
      BY DEF Progress, Accepted
    <2> QED  BY <2>1, <2>2 DEF KeyInv, Answered, Accepted
  <1> QED  BY <1>1, OtherKeys DEF IInv

\* With nobody on it, an undisturbed key is the same in dict and table.
LEMMA BeginSaveKeeps ==
  ASSUME IInv, NEW t \in Threads, NEW s \in Searches, BeginSave(t, s)
  PROVE  IInv'
  <1> PICK k \in Keys : k = KeyOf(s) /\ k \in SearchKeys
    BY SearchKey
  <1> DEFINE j == [NoJob EXCEPT !.key = KeyOf(s), !.search = s]
  <1>1. j \in Job /\ j.key = k /\ j.search = s /\ j.replaced = {}
    BY NewSave, Zenon
  <1>2. Accept(t, "look", j)
    BY Zenon DEF BeginSave
  <1> HIDE DEF j
  <1>3. /\ searches' = searches /\ rows' = rows /\ vaults' = vaults /\ selected' = selected
        /\ vaultRows' = vaultRows
    BY DEF BeginSave, memory, tables
  <1>4. Accepted(t, k, "look", j)
    <2>1. "look" \in Steps
      BY DEF Saves, Steps
    <2> QED  BY <1>1, <1>2, <2>1, AcceptEffect
  <1>5. pc'[t] = "look" /\ job'[t].key = k /\ job'[t].search = s /\ job'[t].replaced = {}
    BY <1>1, <1>4 DEF Accepted, SameWork
  <1>6. Fits(t)'
    BY <1>5 DEF Fits, SaveFits, DeleteFits, RegisterFits, IndexFits, Saving, Deleting,
         Registering, Indexing, Saves, Registers, Indexes, Busy
  <1>7. ThreadTypes'
    BY <1>3, <1>4, <1>6, FitsKept DEF Accepted, IInv, Types
  <1>8. Types'
    BY <1>3, <1>4, <1>7 DEF Accepted, IInv, Types, SearchTypes, VaultTypes
  <1>9. Only(t, k)
    BY <1>3, <1>4, <1>5 DEF Accepted, Only, Busy
  <1>10. Under(searches, k)' = Under(searches, k) /\ Under(rows, k)' = Under(rows, k)
    BY <1>3 DEF Under
  <1>11. On(k) = {} => AloneProgress(t, k)'
    BY <1>4, <1>5 DEF Accepted, AloneProgress, Deleting, Registering, Indexing, Registers, Indexes
  <1>12. On(k) = {} /\ k \notin disturbed => UndisturbedProgress(t, k)'
    BY <1>4, <1>5, <1>10
    DEF Accepted, UndisturbedProgress, Indexing, Indexes, IInv, KeyInv, Same
  <1>13. answered'[k] = Unknown
    BY <1>4 DEF Accepted
  <1> QED  BY <1>4, <1>8, <1>9, <1>11, <1>12, <1>13, AcceptedKeeps

LEMMA BeginDeleteKeeps ==
  ASSUME IInv, NEW t \in Threads, NEW s \in Searches, BeginDelete(t, s)
  PROVE  IInv'
  <1> PICK k \in Keys : k = KeyOf(s) /\ k \in SearchKeys
    BY SearchKey
  <1> DEFINE j == [NoJob EXCEPT !.key = KeyOf(s), !.row = s]
  <1>1. j \in Job /\ j.key = k /\ j.row = s /\ j.search = None
    BY NewDelete, Zenon
  <1>2. Accept(t, "delete row", j)
    BY Zenon DEF BeginDelete
  <1> HIDE DEF j
  <1>3. /\ s \in searches /\ searches' = searches \ {s} /\ rows' = rows /\ vaults' = vaults
        /\ selected' = selected /\ vaultRows' = vaultRows
    BY DEF BeginDelete, memory, tables
  <1>4. Accepted(t, k, "delete row", j)
    <2>1. "delete row" \in Steps
      BY DEF Saves, Steps
    <2> QED  BY <1>1, <1>2, <2>1, AcceptEffect
  <1>5. job'[t].key = k /\ job'[t].row = s /\ job'[t].search = None
    BY <1>1, <1>4 DEF Accepted, SameWork
  <1>6. Fits(t)'
    BY <1>4, <1>5, NoneAssumption DEF Fits, SaveFits, DeleteFits, RegisterFits, IndexFits, Saving, Deleting,
         Registering, Indexing, Saves, Registers, Indexes, Steps, Busy, Accepted
  <1>7. ThreadTypes'
    BY <1>3, <1>4, <1>6, FitsKept DEF Accepted, IInv, Types
  <1>8. Types'
    BY <1>3, <1>4, <1>7 DEF Accepted, IInv, Types, SearchTypes, VaultTypes
  <1>9. Only(t, k)
    BY <1>3, <1>4, <1>5 DEF Accepted, Only, Busy
  <1>10. Under(searches, k)' = Under(searches, k) \ {s} /\ Under(rows, k)' = Under(rows, k)
         /\ s \in Under(searches, k)
    BY <1>3 DEF Under
  <1>11. On(k) = {} => AloneProgress(t, k)'
    BY <1>4, <1>5, <1>10, NoneAssumption
    DEF Accepted, AloneProgress, Saving, Deleting, Registering, Indexing, Registers, Indexes, Steps
  <1>12. On(k) = {} /\ k \notin disturbed => UndisturbedProgress(t, k)'
    <2>1. On(k) = {} /\ k \notin disturbed => Under(rows, k) = Under(searches, k)
      BY DEF IInv, KeyInv, Same
    <2>2. pc'[t] = "delete row" /\ ~Saving(t)' /\ job'[t].alone = (On(k) = {})
      BY <1>4, <1>5, NoneAssumption DEF Accepted, Saving
    <2> QED  BY <1>5, <1>10, <2>1, <2>2 DEF UndisturbedProgress, Indexing, Indexes
  <1>13. answered'[k] = Unknown
    BY <1>4 DEF Accepted
  <1> QED  BY <1>4, <1>8, <1>9, <1>11, <1>12, <1>13, AcceptedKeeps

LEMMA BeginRegisterKeeps ==
  ASSUME IInv, NEW t \in Threads, NEW v \in Vaults, NEW r \in Roots, BeginRegister(t, v, r)
  PROVE  IInv'
  <1>0. PICK k \in Keys : k = <<v>> /\ k[1] = v /\ k \in VaultKeys /\ k \notin SearchKeys
    BY KeysDiffer DEF Keys, VaultKeys
  <1>1. /\ searches' = searches /\ rows' = rows /\ vaults' = vaults /\ selected' = selected
        /\ vaultRows' = vaultRows
    BY DEF BeginRegister, memory, tables
  <1>2. PICK n \in Nat : n = IF v \in DOMAIN vaults THEN vaults[v].state ELSE requests + 1
    BY DEF IInv, Types, VaultTypes, GhostTypes
  <1>3. PICK step \in Steps :
          step = IF v \in DOMAIN vaults THEN "set root" ELSE "make state"
    BY DEF Registers, Indexes, Steps
  <1> DEFINE j == RegisterJob(k, r, n)
  <1>4. k \in Keys /\ n \in Nat
    BY <1>0, <1>2
  <1>5. Accept(t, step, j)
    BY <1>0, <1>2, <1>3, Zenon DEF BeginRegister, RegisterJob
  <1>6. j \in Job /\ j.key = k /\ j.root = r /\ j.state = n
    BY <1>4, NewRegister
  <1> HIDE DEF j
  <1>7. Accepted(t, k, step, j)
    BY <1>6, <1>5, AcceptEffect
  <1>8. pc'[t] = step /\ job'[t].key = k /\ job'[t].root = r /\ job'[t].state = n
    BY <1>6, <1>7 DEF Accepted, SameWork
  <1>9. Fits(t)'
    <2>1. v # Default \/ v \in DOMAIN vaults
      BY DEF IInv, Types, VaultTypes
    <2>2. RegisterFits(t)'
      BY <1>0, <1>1, <1>3, <1>8, <2>1 DEF RegisterFits, IndexFits
    <2> QED  BY <1>0, <1>3, <1>8, <2>2 DEF Fits, SaveFits, DeleteFits, IndexFits, Saving, Deleting,
                  Registering, Indexing, Saves, Registers, Indexes, Steps, Busy
  <1>10. ThreadTypes'
    BY <1>0, <1>1, <1>7, <1>9, FitsKept DEF Accepted, IInv, Types
  <1>11. Types'
    BY <1>0, <1>1, <1>7, <1>10 DEF Accepted, IInv, Types, SearchTypes, VaultTypes
  <1>12. Only(t, k)
    BY <1>0, <1>1, <1>7, <1>8 DEF Accepted, Only, Busy
  <1>13. On(k) = {} => AloneProgress(t, k)'
    BY <1>0, <1>1, <1>2, <1>3, <1>7, <1>8
    DEF Accepted, AloneProgress, Saving, Saves, Deleting, Registering, Indexing, Registers, Indexes, Steps
  <1>14. On(k) = {} /\ k \notin disturbed => UndisturbedProgress(t, k)'
    BY <1>0, <1>3, <1>7, <1>8 DEF Accepted, UndisturbedProgress, Saving, Saves, Indexing, Indexes
  <1>15. answered'[k] = Unknown
    BY <1>3, <1>7 DEF Accepted
  <1> QED  BY <1>7, <1>11, <1>12, <1>13, <1>14, <1>15, AcceptedKeeps

-----------------------------------------------------------------------------
(* Indexing writes the registry, but not what an undisturbed vault has in it. *)

LEMMA OwnIndex ==
  ASSUME IInv, NEW t \in Threads, Indexing(t)
  PROVE  \E v \in Vaults, k \in Keys :
           /\ k = <<v>> /\ k[1] = v /\ k \in VaultKeys /\ k \notin SearchKeys
           /\ k = job[t].key /\ t \in On(k) /\ v \in DOMAIN vaults /\ job[t].root \in Roots
           /\ job[t].alone => job[t].root = vaults[v].root
           /\ k \notin disturbed => job[t].alone /\ Same(k)
  <1>1. Busy(t)
    BY DEF Indexing, Indexes, Busy
  <1> PICK k \in Keys : /\ k = job[t].key /\ t \in On(k) /\ Fits(t)
                        /\ job[t].alone => AloneProgress(t, k)
                        /\ k \notin disturbed => UndisturbedProgress(t, k) /\ AloneProgress(t, k)
    BY <1>1, OwnProgress
  <1>2. PICK v \in Vaults : k = <<v>> /\ v \in DOMAIN vaults /\ job[t].root \in Roots
    BY DEF Fits, IndexFits
  <1>3. k \in VaultKeys /\ k \notin SearchKeys
    BY <1>2, KeysDiffer DEF VaultKeys
  <1>4. k[1] = v
    BY <1>2
  <1>5. job[t].alone => job[t].root = vaults[v].root
    BY <1>4 DEF AloneProgress
  <1>6. k \notin disturbed => job[t].alone /\ Same(k)
    BY DEF UndisturbedProgress
  <1> QED  BY <1>2, <1>3, <1>4, <1>5, <1>6

\* What a registration answered before.
LEMMA StillAnswered ==
  ASSUME IInv, NEW t \in Threads, NEW k \in Keys, t \in On(k), Indexing(t),
         k \notin SearchKeys, k[1] \in DOMAIN vaults, answered' = answered,
         On(k)' \subseteq On(k), t \in On(k)' => Indexing(t)' /\ job'[t].alone = job[t].alone,
         job[t].alone => /\ vaults'[k[1]].root = vaults[k[1]].root
                         /\ k[1] \in DOMAIN vaultRows =>
                              k[1] \in DOMAIN vaultRows' /\ vaultRows'[k[1]] = vaultRows[k[1]]
  PROVE  Answered(k)'
  <1> SUFFICES ASSUME answered[k] # Unknown PROVE Answered(k)'
    BY DEF Answered
  <1>1. Answered(k) /\ job[t].alone /\ On(k) = {t}
    BY Company DEF IInv, KeyInv, Progress, AloneProgress
  <1>2. \A u \in On(k)' : Indexing(u)' /\ job'[u].alone
    BY <1>1
  <1>3. PICK r \in Roots : Registered(k, r)
    <2>1. \A s \in Searches : ~Saved(k, s) /\ ~Gone(k, s)
      BY SearchKey DEF Saved, Gone
    <2> QED  BY <1>1, <2>1 DEF Answered
  <1>4. Registered(k, r)'
    BY <1>1, <1>3 DEF Registered
  <1> QED  BY <1>2, <1>4 DEF Answered

\* Indexing ends, with a row for the vault or without.
LEMMA IndexEnds ==
  ASSUME IInv, NEW t \in Threads, Indexing(t), Return(t),
         searches' = searches, rows' = rows, vaults' = vaults, selected' = selected,
         answered' = answered, disturbed' = disturbed, surprised' = surprised,
         requests' = requests,
         vaultRows' = vaultRows
           \/ /\ job[t].key[1] \notin DOMAIN vaultRows
              /\ vaultRows' = With(vaultRows, job[t].key[1], NoRoot)
  PROVE  IInv'
  <1> PICK v \in Vaults, k \in Keys :
           /\ k = <<v>> /\ k[1] = v /\ k \in VaultKeys /\ k \notin SearchKeys
           /\ k = job[t].key /\ t \in On(k) /\ v \in DOMAIN vaults
           /\ k \notin disturbed => Same(k)
    BY OwnIndex
  <1>1. /\ vaultRows' \in [DOMAIN vaultRows' -> AnyRoot]
        /\ DOMAIN vaultRows \subseteq DOMAIN vaultRows' /\ DOMAIN vaultRows' \subseteq DOMAIN vaultRows \cup {v}
        /\ \A w \in DOMAIN vaultRows : vaultRows'[w] = vaultRows[w]
        /\ v \in DOMAIN vaultRows' \ DOMAIN vaultRows => vaultRows'[v] = NoRoot
    BY DEF With, IInv, Types, VaultTypes, AnyRoot
  <1>2. /\ ThreadTypes' /\ pc'[t] = "idle"
        /\ \A u \in Threads \ {t} : pc'[u] = pc[u] /\ job'[u] = job[u]
    BY ReturnEffect DEF IInv, Types
  <1>3. Types'
    BY <1>1, <1>2 DEF IInv, Types, SearchTypes, VaultTypes, GhostTypes
  <1>4. Only(t, k)
    BY <1>1, <1>2 DEF Only
  <1>5. k \notin disturbed' => Same(k)'
    <2>1. SavedRoot(v)' = SavedRoot(v)
      BY <1>1 DEF SavedRoot
    <2> QED  BY <2>1 DEF Same
  <1>6. Answered(k)'
    <2>1. On(k)' \subseteq On(k) /\ t \notin On(k)'
      BY <1>2 DEF On, Busy
    <2> QED  BY <1>1, <2>1, StillAnswered
  <1>7. KeyInv(k)'
    BY <1>2, <1>3, <1>5, <1>6, Ends DEF RestKeep
  <1> QED  BY <1>3, <1>4, <1>7, OtherKeys DEF IInv

LEMMA EnsureRowKeeps ==
  ASSUME IInv, NEW t \in Threads, EnsureRow(t)
  PROVE  IInv'
  BY IndexEnds DEF EnsureRow, Indexing, Indexes, memory, ghosts, bounds

LEMMA IndexFailsKeeps ==
  ASSUME IInv, NEW t \in Threads, IndexFails(t)
  PROVE  IInv'
  BY IndexEnds DEF IndexFails, Indexing, Indexes, memory, tables, ghosts, bounds

LEMMA CheckRootKeeps ==
  ASSUME IInv, NEW t \in Threads, CheckRoot(t)
  PROVE  IInv'
  <1>1. Busy(t) /\ pc[t] = "check root" /\ Indexing(t)
    BY DEF CheckRoot, Busy, Indexing, Indexes
  <1> PICK v \in Vaults, k \in Keys :
           /\ k = <<v>> /\ k[1] = v /\ k \in VaultKeys /\ k \notin SearchKeys
           /\ k = job[t].key /\ t \in On(k) /\ v \in DOMAIN vaults /\ job[t].root \in Roots
           /\ job[t].alone => job[t].root = vaults[v].root
           /\ k \notin disturbed => job[t].alone /\ Same(k)
    BY <1>1, OwnIndex
  <1>2. PICK r \in Roots : r = job[t].root
    OBVIOUS
  <1>3. /\ pc' = [pc EXCEPT ![t] = "ensure row"] /\ job' = job
        /\ searches' = searches /\ rows' = rows /\ selected' = selected
        /\ vaultRows' = vaultRows
        /\ answered' = answered /\ disturbed' = disturbed /\ surprised' = surprised
        /\ requests' = requests
    BY DEF CheckRoot, Goto, tables, ghosts, bounds
  <1>4. /\ DOMAIN vaults' = DOMAIN vaults
        /\ vaults' \in [DOMAIN vaults -> [root : AnyRoot, state : Nat]]
        /\ \A w \in DOMAIN vaults : w # v => vaults'[w] = vaults[w]
        /\ vaults'[v].root = r
    <2> DEFINE a == [vaults[v] EXCEPT !.root = r]
    <2>1. vaults \in [DOMAIN vaults -> [root : AnyRoot, state : Nat]] /\ r \in AnyRoot
      BY DEF IInv, Types, VaultTypes, AnyRoot
    <2>2. a \in [root : AnyRoot, state : Nat] /\ a.root = r
      BY <2>1, Zenon
    <2>3. vaults' = [vaults EXCEPT ![v] = a]
      BY <1>2, Zenon DEF CheckRoot
    <2> HIDE DEF a
    <2> QED  BY <2>1, <2>2, <2>3
  <1>5. vaults'[Default].root \in Roots
    BY <1>4 DEF IInv, Types, VaultTypes
  <1>6. /\ ThreadTypes' /\ pc'[t] = "ensure row"
        /\ \A u \in Threads \ {t} : pc'[u] = pc[u] /\ job'[u] = job[u]
        /\ On(k)' = On(k)
    <2>1. Fits(t)' \/ pc'[t] # "ensure row"
      BY <1>2, <1>3, <1>4 DEF Fits, SaveFits, DeleteFits, RegisterFits, IndexFits, Saving, Deleting,
           Registering, Indexing, Saves, Registers, Indexes, Busy
    <2> QED  BY <1>1, <1>3, <1>4, <2>1, GotoEffect DEF IInv, Types, ThreadTypes, Indexes, Steps
  <1>7. Types'
    BY <1>3, <1>4, <1>5, <1>6 DEF IInv, Types, SearchTypes, VaultTypes, GhostTypes
  <1>8. Only(t, k)
    BY <1>3, <1>4, <1>6 DEF Only
  <1>9. Indexing(t)' /\ ~Saving(t)' /\ ~Deleting(t)' /\ ~Registering(t)'
    BY <1>6 DEF Indexing, Indexes, Saving, Saves, Deleting, Registering, Registers
  <1>10. job[t].alone => vaults'[v].root = vaults[v].root
    BY <1>2, <1>4
  <1>11. job'[t].alone => AloneProgress(t, k)'
    <2>1. ASSUME job[t].alone PROVE On(k) = {t}
      BY <2>1 DEF IInv, KeyInv, Progress, AloneProgress
    <2> QED  BY <1>2, <1>3, <1>4, <1>6, <1>9, <2>1 DEF AloneProgress
  <1>12. k \notin disturbed' => UndisturbedProgress(t, k)'
    <2>1. SavedRoot(v)' = SavedRoot(v)
      BY <1>3 DEF SavedRoot
    <2>2. ASSUME k \notin disturbed PROVE Same(k)'
      BY <1>4, <1>10, <2>1, <2>2 DEF Same
    <2> QED  BY <1>3, <1>6, <1>9, <2>2 DEF UndisturbedProgress
  <1>13. Answered(k)'
    BY <1>1, <1>3, <1>6, <1>9, <1>10, StillAnswered
  <1>14. KeyInv(k)'
    BY <1>3, <1>6, <1>7, <1>11, <1>12, <1>13, GoesOn DEF RestKeep
  <1> QED  BY <1>7, <1>8, <1>14, OtherKeys DEF IInv

LEMMA BeginIndexKeeps ==
  ASSUME IInv, NEW t \in Threads, NEW v \in Vaults, BeginIndex(t, v)
  PROVE  IInv'
  <1>0. PICK k \in Keys : k = <<v>> /\ k[1] = v /\ k \in VaultKeys /\ k \notin SearchKeys
    BY KeysDiffer DEF Keys, VaultKeys
  <1>1. /\ searches' = searches /\ rows' = rows /\ vaults' = vaults /\ selected' = selected
        /\ vaultRows' = vaultRows /\ v \in DOMAIN vaults
    BY DEF BeginIndex, memory, tables
  <1>2. PICK r \in Roots : r = vaults[v].root
    BY <1>1 DEF BeginIndex, IInv, Types, VaultTypes, AnyRoot
  <1> DEFINE j == IndexJob(k, r)
  <1>3. Accept(t, "check root", j)
    BY <1>0, <1>2, Zenon DEF BeginIndex, IndexJob
  <1>4. j \in Job /\ j.key = k /\ j.root = r
    BY NewIndex
  <1> HIDE DEF j
  <1>5. Accepted(t, k, "check root", j)
    <2>1. "check root" \in Steps
      BY DEF Indexes, Steps
    <2> QED  BY <1>3, <1>4, <2>1, AcceptEffect
  <1>6. pc'[t] = "check root" /\ job'[t].key = k /\ job'[t].root = r
    BY <1>4, <1>5 DEF Accepted, SameWork
  <1>7. Indexing(t)' /\ ~Saving(t)' /\ ~Deleting(t)' /\ ~Registering(t)'
    BY <1>6 DEF Indexing, Indexes, Saving, Saves, Deleting, Registering, Registers
  <1>8. Fits(t)'
    BY <1>0, <1>1, <1>6, <1>7 DEF Fits, SaveFits, DeleteFits, RegisterFits, IndexFits
  <1>9. ThreadTypes'
    BY <1>1, <1>5, <1>8, FitsKept DEF Accepted, IInv, Types
  <1>10. Types'
    BY <1>1, <1>5, <1>9 DEF Accepted, IInv, Types, SearchTypes, VaultTypes
  <1>11. Only(t, k)
    BY <1>0, <1>1, <1>5, <1>6 DEF Accepted, Only, Busy
  <1>12. On(k) = {} => AloneProgress(t, k)'
    BY <1>0, <1>1, <1>2, <1>5, <1>6, <1>7 DEF Accepted, AloneProgress
  <1>13. On(k) = {} /\ k \notin disturbed => UndisturbedProgress(t, k)'
    <2>1. On(k) = {} /\ k \notin disturbed => Same(k)
      BY DEF IInv, KeyInv
    <2>2. Same(k) => Same(k)'
      BY <1>0, <1>1 DEF Same, SavedRoot
    <2> QED  BY <1>5, <1>6, <1>7, <2>1, <2>2 DEF Accepted, UndisturbedProgress
  <1>14. answered'[k] # Unknown => Answered(k)'
    <2> SUFFICES ASSUME answered'[k] # Unknown PROVE Answered(k)'
      OBVIOUS
    <2>1. On(k) = {} /\ answered'[k] = answered[k] /\ On(k)' = {t} /\ job'[t].alone
      BY <1>5 DEF Accepted
    <2>2. Answered(k)
      BY DEF IInv, KeyInv
    <2>3. ASSUME NEW s \in Searches PROVE ~Saved(k, s) /\ ~Gone(k, s)
      BY <1>0, SearchKey DEF Saved, Gone
    <2>4. PICK q \in Roots : Registered(k, q)
      BY <2>1, <2>2, <2>3 DEF Answered
    <2>5. Registered(k, q)'
      BY <1>1, <2>1, <2>4 DEF Registered
    <2> QED  BY <1>7, <2>1, <2>5 DEF Answered
  <1> QED  BY <1>5, <1>10, <1>11, <1>12, <1>13, <1>14, AcceptedKeeps

-----------------------------------------------------------------------------
(* Looking for namesakes. *)

LEMMA LookKeeps ==
  ASSUME IInv, Walks, NEW t \in Threads, Look(t)
  PROVE  IInv'
  <1>1. Busy(t) /\ pc[t] = "look" /\ pc[t] \in Steps
    BY DEF Look, Busy, Saves, Steps
  <1> PICK k \in Keys : /\ k = job[t].key /\ t \in On(k) /\ Fits(t) /\ answered[k] = Unknown
                        /\ job[t].alone => AloneProgress(t, k)
                        /\ k \notin disturbed => UndisturbedProgress(t, k) /\ AloneProgress(t, k)
    BY <1>1, OwnProgress DEF Indexing, Indexes
  <1>2. PICK s \in Searches : s = job[t].search /\ k = KeyOf(s)
    BY <1>1 DEF Fits, SaveFits, Saving, Deleting, Registering, Indexing, Saves, Registers, Indexes
  <1>3. /\ searches' = searches /\ rows' = rows /\ vaults' = vaults /\ selected' = selected
        /\ vaultRows' = vaultRows /\ answered' = answered /\ surprised' = surprised
        /\ requests' = requests
    BY DEF Look, memory, tables, bounds
  <1>4. Under(searches, k)' = Under(searches, k) /\ Under(rows, k)' = Under(rows, k)
    BY <1>3 DEF Under
  <1>5. CASE Return(t) /\ disturbed' = disturbed
    <2>1. /\ ThreadTypes' /\ pc'[t] = "idle"
          /\ \A u \in Threads \ {t} : pc'[u] = pc[u] /\ job'[u] = job[u]
      BY <1>3, <1>5, ReturnEffect DEF IInv, Types
    <2>2. Types'
      BY <1>3, <1>5, <2>1 DEF IInv, Types, SearchTypes, VaultTypes, GhostTypes
    <2>3. Only(t, k)
      BY <1>3, <1>5, <2>1 DEF Only
    <2>4. k \notin disturbed' => Same(k)'
      BY <1>1, <1>2, <1>4, <1>5, SearchKey DEF Same, UndisturbedProgress
    <2>5. KeyInv(k)'
      BY <1>3, <1>5, <2>1, <2>2, <2>4, Ends DEF RestKeep, Answered
    <2> QED  BY <2>2, <2>3, <2>5, OtherKeys DEF IInv
  <1>6. ASSUME NEW found \in SUBSET walk[t].seen,
               pc' = [pc EXCEPT ![t] = "drop next"],
               job' = [job EXCEPT ![t].replaced = found, ![t].alone = @ /\ found = NamesakesOf(s)],
               disturbed' = IF found = NamesakesOf(s) THEN disturbed ELSE disturbed \cup {k}
        PROVE  IInv'
    <2>1. /\ found \in SUBSET Searches /\ \A x \in found : KeyOf(x) = k
          /\ job \in [Threads -> Job] /\ job[t] \in Job
      BY <1>1, <1>2 DEF Walks, WalkFits, IInv, Types, ThreadTypes
    <2>2. PICK b \in BOOLEAN : b = (job[t].alone /\ found = NamesakesOf(s))
      OBVIOUS
    <2>3. /\ job' \in [Threads -> Job]
          /\ \A u \in Threads \ {t} : job'[u] = job[u]
          /\ job'[t].key = k /\ job'[t].search = s /\ job'[t].replaced = found
          /\ job'[t].alone = b
      <3> DEFINE a == [job[t] EXCEPT !.replaced = found]
                 c == [a EXCEPT !.alone = b]
                 j1 == [job EXCEPT ![t].replaced = found]
      <3>1. a \in Job /\ a.replaced = found /\ a.key = k /\ a.search = s /\ a.alone = job[t].alone
        BY <1>2, <2>1, SetReplaced, Zenon
      <3>2. j1 \in [Threads -> Job] /\ j1[t] = a /\ \A u \in Threads \ {t} : j1[u] = job[u]
        BY <2>1, <3>1, Zenon
      <3>3. job' = [j1 EXCEPT ![t].alone = @ /\ found = NamesakesOf(s)]
        BY <1>6, Zenon
      <3> HIDE DEF a, j1
      <3>4. c \in Job /\ c.alone = b /\ c.replaced = found /\ c.key = k /\ c.search = s
        BY <2>2, <3>1, SetAlone, Zenon
      <3>5. job' = [j1 EXCEPT ![t] = c]
        BY <2>2, <3>1, <3>2, <3>3, Zenon
      <3> HIDE DEF c
      <3> QED  BY <3>2, <3>4, <3>5
    <2>4. /\ pc' \in [Threads -> {"idle"} \cup Steps] /\ pc'[t] = "drop next"
          /\ \A u \in Threads \ {t} : pc'[u] = pc[u]
      <3>1. pc' = [pc EXCEPT ![t] = "drop next"]
        BY <1>6, Zenon
      <3> QED  BY <3>1 DEF IInv, Types, ThreadTypes, Saves, Steps
    <2>5. Fits(t)'
      BY <1>2, <2>1, <2>3, <2>4 DEF Fits, SaveFits, DeleteFits, RegisterFits, IndexFits, Saving,
         Deleting, Registering, Indexing, Saves, Registers, Indexes, Busy
    <2>6. ThreadTypes'
      BY <1>3, <2>3, <2>4, <2>5, FitsKept DEF OthersKeep, SameWork, IInv, Types
    <2>7. Types'
      BY <1>3, <1>6, <2>6 DEF IInv, Types, SearchTypes, VaultTypes, GhostTypes
    <2>8. Only(t, k)
      BY <1>3, <1>6, <2>3, <2>4 DEF Only
    <2>9. On(k)' = On(k)
      BY <1>1, <2>3, <2>4 DEF On, Busy
    <2>10. Under(searches, k) \subseteq {s} \cup NamesakesOf(s)
           /\ NamesakesOf(s) \subseteq Under(searches, k)
      BY <1>2 DEF Under, NamesakesOf
    <2>11. job'[t].alone => AloneProgress(t, k)'
      <3>1. ASSUME b PROVE On(k) = {t} /\ found = NamesakesOf(s)
        BY <2>2, <3>1 DEF AloneProgress
      <3> QED
        BY <1>4, <2>3, <2>4, <2>9, <2>10, <3>1
        DEF AloneProgress, Deleting, Registering, Indexing, Registers, Indexes
    <2>12. k \notin disturbed' => UndisturbedProgress(t, k)'
      <3>1. ASSUME k \notin disturbed'
            PROVE  b /\ found = NamesakesOf(s) /\ Under(rows, k) = Under(searches, k)
        BY <1>1, <1>6, <2>2, <3>1 DEF UndisturbedProgress
      <3> QED
        BY <1>4, <2>3, <2>4, <2>10, <3>1 DEF UndisturbedProgress, Indexing, Indexes
    <2>13. RestKeep(t, k)
      BY <1>3, <1>6, <2>3, <2>4 DEF RestKeep
    <2>14. KeyInv(k)'
      BY <1>1, <1>3, <2>2, <2>3, <2>7, <2>9, <2>11, <2>12, <2>13, GoesOn DEF Indexing, Indexes
    <2> QED  BY <2>7, <2>8, <2>14, OtherKeys DEF IInv
  <1> QED  BY <1>2, <1>5, <1>6 DEF Look

LEMMA NothingChanges ==
  ASSUME IInv, searches' = searches, rows' = rows, vaults' = vaults, vaultRows' = vaultRows,
         selected' \in DOMAIN vaults, pc' = pc, job' = job,
         answered' = answered, disturbed' = disturbed, surprised' = surprised,
         requests' = requests
  PROVE  IInv'
  <1>1. Types'
    BY DEF IInv, Types, SearchTypes, VaultTypes, ThreadTypes, GhostTypes, Fits, SaveFits,
         DeleteFits, RegisterFits, IndexFits, Saving, Deleting, Registering, Indexing, Busy
  <1>2. ASSUME NEW k \in Keys PROVE KeyInv(k)'
    <2>1. /\ On(k)' = On(k) /\ Under(searches, k)' = Under(searches, k)
          /\ Under(rows, k)' = Under(rows, k)
      BY DEF On, Busy, Under
    <2>4. Same(k) => Same(k)'
      BY DEF Same, Under, SavedRoot
    <2>2. Progress(k) => Progress(k)'
      <3>2. ASSUME NEW t \in Threads, AloneProgress(t, k) PROVE AloneProgress(t, k)'
        BY <2>1, <3>2 DEF AloneProgress, Saving, Deleting, Registering, Indexing
      <3>3. ASSUME NEW t \in Threads, UndisturbedProgress(t, k) PROVE UndisturbedProgress(t, k)'
        BY <2>1, <2>4, <3>3 DEF UndisturbedProgress, Saving, Indexing
      <3> QED  BY <2>1, <3>2, <3>3 DEF Progress, On
    <2>3. Answered(k) => Answered(k)'
      BY <2>1 DEF Answered, Saved, Gone, Registered, Indexing
    <2> QED  BY <2>1, <2>2, <2>3, <2>4 DEF IInv, KeyInv
  <1> QED  BY <1>1, <1>2 DEF IInv

LEMMA SelectKeeps ==
  ASSUME IInv, NEW v \in Vaults, Select(v)
  PROVE  IInv'
  BY NothingChanges DEF Select, tables, ghosts, bounds

LEMMA Loads ==
  ASSUME VaultTypes
  PROVE  /\ DOMAIN LoadedVaults = DOMAIN vaultRows \cup {Default}
         /\ LoadedVaults \in [DOMAIN LoadedVaults -> [root : AnyRoot, state : Nat]]
         /\ \A v \in DOMAIN LoadedVaults : LoadedVaults[v].root = SavedRoot(v)
         /\ LoadedVaults[Default].root \in Roots
  BY DefaultAssumption, NoneAssumption DEF LoadedVaults, VaultTypes, AnyRoot, SavedRoot

\* A restart makes the dicts of the rows, and leaves no request.
LEMMA RestartKeeps ==
  ASSUME IInv, Restart
  PROVE  IInv'
  <1>1. /\ searches' = rows /\ rows' = rows /\ vaults' = LoadedVaults /\ vaultRows' = vaultRows
        /\ selected' = Default
        /\ pc' = [t \in Threads |-> "idle"] /\ job' = [t \in Threads |-> NoJob]
        /\ disturbed' = {} /\ surprised' = {} /\ answered' = answered /\ requests' = requests
    BY DEF Restart, tables
  <1>2. SearchTypes' /\ GhostTypes'
    BY <1>1 DEF IInv, Types, SearchTypes, GhostTypes
  <1>3. VaultTypes'
    BY <1>1, Loads, DefaultAssumption DEF IInv, Types, VaultTypes
  <1>4. ThreadTypes'
    BY <1>1, NoJobIsJob DEF ThreadTypes, Fits, SaveFits, DeleteFits, RegisterFits, IndexFits, Saving, Deleting,
         Registering, Indexing, Busy, Saves, Registers, Indexes, Steps
  <1>5. ASSUME NEW k \in Keys PROVE KeyInv(k)'
    <2>1. On(k)' = {}
      BY <1>1 DEF On, Busy
    <2>2. Under(searches, k)' = Under(rows, k) /\ Under(rows, k)' = Under(rows, k)
      BY <1>1 DEF Under
    <2>3. Answered(k)'
      <3>1. SUFFICES ASSUME answered[k] # Unknown
                     PROVE  (\E s \in Searches : Saved(k, s)' \/ Gone(k, s)')
                            \/ \E r \in Roots : Registered(k, r)'
        BY <1>1, <2>1 DEF Answered
      <3>2. (\E s \in Searches : Saved(k, s) \/ Gone(k, s)) \/ \E r \in Roots : Registered(k, r)
        BY <3>1 DEF IInv, KeyInv, Answered
      <3>3. ASSUME NEW s \in Searches PROVE Saved(k, s) => Saved(k, s)'
        BY <1>1, <2>2 DEF Saved
      <3>4. ASSUME NEW s \in Searches PROVE Gone(k, s) => Gone(k, s)'
        BY <1>1, <2>2 DEF Gone
      <3>5. ASSUME NEW r \in Roots PROVE Registered(k, r) => Registered(k, r)'
        BY <1>1, Loads, NoneAssumption DEF Registered, IInv, Types, SavedRoot
      <3> QED  BY <3>2, <3>3, <3>4, <3>5
    <2>4. Same(k)'
      <3>1. CASE k \in SearchKeys
        BY <2>2, <3>1 DEF Same
      <3>2. CASE k \notin SearchKeys
        BY <1>1, <3>2, Loads DEF Same, IInv, Types, SavedRoot
      <3> QED  BY <3>1, <3>2
    <2> QED  BY <1>1, <2>1, <2>3, <2>4 DEF KeyInv, Progress
  <1> QED  BY <1>2, <1>3, <1>4, <1>5 DEF IInv, Types

LEMMA InitHolds == Init => IInv
  <1> SUFFICES ASSUME Init PROVE IInv
    OBVIOUS
  <1>1. /\ searches = {} /\ rows = {} /\ vaults = LoadedVaults /\ selected = Default
        /\ pc = [t \in Threads |-> "idle"] /\ job = [t \in Threads |-> NoJob]
        /\ answered = [k \in Keys |-> Unknown] /\ disturbed = {} /\ surprised = {} /\ requests = 0
    BY DEF Init
  <1>2. /\ vaultRows \in [DOMAIN vaultRows -> AnyRoot] /\ DOMAIN vaultRows \subseteq {Default}
        /\ \A v \in DOMAIN vaultRows : vaultRows[v] = NoRoot
    BY DEF Init, AnyRoot
  <1>3. /\ DOMAIN vaults = {Default} /\ vaults \in [DOMAIN vaults -> [root : AnyRoot, state : Nat]]
        /\ vaults[Default].root = DefaultRoot
    BY <1>1, <1>2, DefaultAssumption DEF LoadedVaults, AnyRoot
  <1>4. SearchTypes /\ VaultTypes /\ GhostTypes
    BY <1>1, <1>2, <1>3, DefaultAssumption DEF SearchTypes, VaultTypes, GhostTypes
  <1>5. ThreadTypes
    BY <1>1, NoJobIsJob DEF ThreadTypes, Fits, SaveFits, DeleteFits, RegisterFits, IndexFits, Saving, Deleting,
         Registering, Indexing, Busy, Saves, Registers, Indexes, Steps
  <1>6. ASSUME NEW k \in Keys PROVE KeyInv(k)
    <2>1. On(k) = {}
      BY <1>1 DEF On, Busy
    <2>2. Same(k)
      BY <1>1, <1>2, <1>3 DEF Same, Under, SavedRoot
    <2> QED  BY <1>1, <2>1, <2>2 DEF KeyInv, Progress, Answered
  <1> QED  BY <1>4, <1>5, <1>6 DEF IInv, Types

\* What a thread has met while it looks for namesakes stays what it is until
\* another request changes the dict.
LEMMA WalksStay ==
  ASSUME Walks, NEW t \in Threads, pc'[t] # "look", walk' = walk, searches' = searches,
         OthersKeep(t)
  PROVE  Walks'
  BY DEF Walks, WalkFits, NamesakesOf, OthersKeep, SameWork

LEMMA WalksCrossed ==
  ASSUME IInv, Walks, NEW t \in Threads, pc'[t] # "look", OthersCross(t), OthersKeep(t),
         searches' \subseteq Searches
  PROVE  Walks'
  <1> DEFINE seen(u) == walk[u].seen \cup NamesakesOf(job[u].search)'
             a(u) == [walk[u] EXCEPT !.crossed = TRUE]
             b(u) == [a(u) EXCEPT !.seen = seen(u)]
             same(u) == pc[u] # "look" \/ u = t \/ searches' = searches
  <1>1. ASSUME NEW u \in Threads, ~same(u)
        PROVE  /\ job'[u].search = job[u].search /\ pc'[u] = pc[u]
               /\ walk[u] \in Walk /\ walk[u].seen \subseteq Searches
               /\ \A x \in seen(u) : x \in Searches /\ KeyOf(x) = KeyOf(job[u].search)
    BY <1>1 DEF OthersKeep, SameWork, Walks, WalkFits, Walk, NamesakesOf
  <1>2. ASSUME NEW u \in Threads, ~same(u)
        PROVE  b(u) \in Walk /\ b(u).seen = seen(u) /\ b(u).crossed
    <2>1. a(u) \in Walk /\ a(u).crossed
      BY <1>1, <1>2, Zenon DEF Walk
    <2>2. seen(u) \in SUBSET Searches
      BY <1>1, <1>2
    <2> HIDE DEF a, seen
    <2> QED  BY <2>1, <2>2, Zenon DEF Walk
  <1>3. walk' = [u \in Threads |-> IF same(u) THEN walk[u] ELSE b(u)]
    BY DEF OthersCross
  <1> HIDE DEF b, seen
  <1>4. ASSUME NEW u \in Threads PROVE walk'[u] \in Walk /\ WalkFits(u)'
    <2>1. CASE ~same(u)
      <3>1. walk'[u] = b(u)
        BY <1>3, <2>1
      <3> QED  BY <1>1, <1>2, <2>1, <3>1 DEF WalkFits
    <2>2. CASE same(u)
      <3>1. walk'[u] = walk[u]
        BY <1>3, <2>2
      <3> QED  BY <2>2, <3>1 DEF Walks, WalkFits, OthersKeep, SameWork, NamesakesOf
    <2> QED  BY <2>1, <2>2
  <1>5. walk' \in [Threads -> Walk]
    BY <1>3, <1>4
  <1> QED  BY <1>4, <1>5 DEF Walks

LEMMA WalksKeep ==
  ASSUME IInv, IInv', Walks, [Next]_vars
  PROVE  Walks'
  <1>1. ASSUME NEW t \in Threads, NEW s \in Searches, BeginSave(t, s) PROVE Walks'
    <2> DEFINE w == [size |-> Cardinality(searches), seen |-> NamesakesOf(s), crossed |-> FALSE]
    <2>1. w \in Walk /\ w.seen = NamesakesOf(s)
      BY DEF Walk, NamesakesOf, IInv, Types, SearchTypes
    <2> HIDE DEF w
    <2>2. walk' = [walk EXCEPT ![t] = w] /\ searches' = searches
      BY <1>1 DEF BeginSave, memory, w
    <2>3. PICK j \in Job : j = [NoJob EXCEPT !.key = KeyOf(s), !.search = s]
                            /\ j.search = s /\ j.key = KeyOf(s)
      BY NewSave, SearchKey
    <2>4. Accepted(t, KeyOf(s), "look", j)
      <3>1. Accept(t, "look", j)
        BY <1>1, <2>3, Zenon DEF BeginSave
      <3>2. "look" \in Steps /\ KeyOf(s) \in Keys
        BY SearchKey DEF Saves, Steps
      <3> QED  BY <2>3, <3>1, <3>2, AcceptEffect
    <2>5. job'[t].search = s /\ OthersKeep(t)
      BY <2>3, <2>4 DEF Accepted, SameWork
    <2>6. ASSUME NEW u \in Threads PROVE WalkFits(u)'
      <3>1. CASE u = t
        BY <2>1, <2>2, <2>5, <3>1 DEF Walks, WalkFits, NamesakesOf, IInv, Types, SearchTypes
      <3>2. CASE u # t
        BY <2>2, <2>5, <3>2 DEF Walks, WalkFits, NamesakesOf, OthersKeep, SameWork
      <3> QED  BY <3>1, <3>2
    <2> QED  BY <2>1, <2>2, <2>6 DEF Walks
  <1>2. ASSUME NEW t \in Threads, NEW s \in Searches, BeginDelete(t, s) PROVE Walks'
    <2>1. PICK j \in Job : j = [NoJob EXCEPT !.key = KeyOf(s), !.row = s] /\ j.key = KeyOf(s)
      BY NewDelete, SearchKey
    <2>2. Accepted(t, KeyOf(s), "delete row", j)
      <3>1. Accept(t, "delete row", j)
        BY <1>2, <2>1, Zenon DEF BeginDelete
      <3>2. "delete row" \in Steps /\ KeyOf(s) \in Keys
        BY SearchKey DEF Saves, Steps
      <3> QED  BY <2>1, <3>1, <3>2, AcceptEffect
    <2> QED  BY <1>2, <2>2, WalksCrossed DEF Accepted, BeginDelete, IInv, Types, SearchTypes
  <1>3. ASSUME NEW t \in Threads, NEW v \in Vaults,
               BeginIndex(t, v) \/ \E r \in Roots : BeginRegister(t, v, r)
        PROVE  Walks'
    <2>1. /\ searches' = searches /\ walk' = walk
          /\ \E step \in {"set root", "make state", "check root"} : \E j : Accept(t, step, j)
      BY <1>3 DEF BeginIndex, BeginRegister, memory
    <2>2. pc'[t] # "look" /\ OthersKeep(t)
      <3>1. PICK step \in {"set root", "make state", "check root"} : \E j : Accept(t, step, j)
        BY <2>1
      <3> PICK j : Accept(t, step, j)
        BY <3>1
      <3>2. pc'[t] = step /\ \A u \in Threads \ {t} : pc'[u] = pc[u]
        BY DEF Accept, IInv, Types, ThreadTypes
      <3>3. ASSUME NEW u \in Threads \ {t} PROVE SameWork(job'[u], job[u])
        <4>1. job'[u] = job[u] \/ job'[u] = [job[u] EXCEPT !.alone = FALSE]
          BY DEF Accept
        <4>2. job[u] \in Job
          BY DEF IInv, Types, ThreadTypes
        <4> QED  BY <4>1, <4>2, SetAlone DEF SameWork
      <3> QED  BY <3>2, <3>3 DEF OthersKeep
    <2> QED  BY <2>1, <2>2, WalksStay
  <1>4. ASSUME NEW t \in Threads, Put(t) \/ DropNext(t), searches' # searches PROVE Walks'
    <2>1. /\ OthersCross(t) /\ pc'[t] # "look" /\ OthersKeep(t)
      BY <1>4 DEF Put, DropNext, Goto, Raise, memory, IInv, Types, ThreadTypes, OthersKeep, SameWork
    <2> QED  BY <2>1, WalksCrossed DEF IInv, Types, SearchTypes
  <1>5. ASSUME NEW t \in Threads, Step(t), searches' = searches PROVE Walks'
    <2>1. walk' = walk
      <3>1. OthersCross(t) => walk' = walk
        BY <1>5 DEF OthersCross, Walks
      <3> QED
        BY <1>5, <3>1 DEF Step, Look, DropNext, DeleteRow, Put, SaveRow, MakeState, SetRoot,
           ReadMetadata, SaveVault, CheckRoot, EnsureRow, IndexFails, TransactionFails, Raise
    <2>2. pc'[t] # "look" /\ OthersKeep(t)
      BY <1>5 DEF Step, Look, DropNext, DeleteRow, Put, SaveRow, MakeState, SetRoot, Goto, Return,
           ReadMetadata, SaveVault, CheckRoot, EnsureRow, IndexFails, TransactionFails, Raise, Answer,
           IInv, Types, ThreadTypes, OthersKeep, SameWork
    <2> QED  BY <1>5, <2>1, <2>2, WalksStay
  <1>6. ASSUME NEW t \in Threads, Step(t), searches' # searches PROVE Walks'
    <2>1. Put(t) \/ DropNext(t)
      BY <1>6 DEF Step, Look, DeleteRow, SaveRow, MakeState, SetRoot, ReadMetadata, SaveVault,
         CheckRoot, EnsureRow, IndexFails, TransactionFails, Raise, memory
    <2> QED  BY <1>4, <1>6, <2>1
  <1>7. CASE Restart
    <2>1. NoWalk \in Walk
      BY DEF NoWalk, Walk
    <2> QED  BY <1>7, <2>1 DEF Restart, Walks, WalkFits
  <1>8. CASE UNCHANGED vars \/ \E v \in Vaults : Select(v)
    BY <1>8 DEF vars, Select, Walks, WalkFits, NamesakesOf
  <1> QED  BY <1>1, <1>2, <1>3, <1>5, <1>6, <1>7, <1>8 DEF Next, Request

FullInv == IInv /\ Walks

LEMMA StepKeeps == FullInv /\ [Next]_vars => FullInv'
  <1> SUFFICES ASSUME IInv, Walks, [Next]_vars PROVE FullInv'
    BY DEF FullInv
  <1>0. SUFFICES IInv'
    BY WalksKeep DEF FullInv
  <1>1. ASSUME NEW t \in Threads, NEW s \in Searches, BeginSave(t, s) \/ BeginDelete(t, s) PROVE IInv'
    BY <1>1, BeginSaveKeeps, BeginDeleteKeeps
  <1>2. ASSUME NEW t \in Threads, NEW v \in Vaults,
               BeginIndex(t, v) \/ \E r \in Roots : BeginRegister(t, v, r)
        PROVE  IInv'
    BY <1>2, BeginRegisterKeeps, BeginIndexKeeps
  <1>3. ASSUME NEW t \in Threads, Step(t) PROVE IInv'
    BY <1>3, LookKeeps, DropNextKeeps, DeleteRowKeeps, PutKeeps, SaveRowKeeps, MakeStateKeeps,
       SetRootKeeps, ReadMetadataKeeps, SaveVaultKeeps, CheckRootKeeps, EnsureRowKeeps,
       IndexFailsKeeps, TransactionFailsKeeps DEF Step
  <1>4. ASSUME NEW v \in Vaults, Select(v) PROVE IInv'
    BY <1>4, SelectKeeps
  <1>5. CASE Restart
    BY <1>5, RestartKeeps
  <1>6. CASE UNCHANGED vars
    <2>1. /\ searches' = searches /\ rows' = rows /\ vaults' = vaults /\ vaultRows' = vaultRows
          /\ selected' = selected /\ pc' = pc /\ job' = job
          /\ answered' = answered /\ disturbed' = disturbed /\ surprised' = surprised
          /\ requests' = requests
      BY <1>6 DEF vars
    <2> QED  BY <2>1, NothingChanges DEF IInv, Types, VaultTypes
  <1> QED  BY <1>1, <1>2, <1>3, <1>4, <1>5, <1>6 DEF Next, Request

LEMMA Inductive == Spec => []FullInv
  <1>1. Init => FullInv
    <2> SUFFICES ASSUME Init PROVE Walks
      BY InitHolds DEF FullInv
    <2>1. NoWalk \in Walk
      BY DEF NoWalk, Walk
    <2> QED  BY <2>1 DEF Init, Walks, WalkFits
  <1> QED  BY <1>1, StepKeeps, PTL DEF Spec

-----------------------------------------------------------------------------

\* The tables keep their constraints, the selected vault is a registered one and
\* no request looks up a vault that is not in the dict.
THEOREM TypeCorrect == Spec => []TypeOK
  <1>1. IInv => TypeOK
    <2> SUFFICES ASSUME IInv PROVE TypeOK
      OBVIOUS
    <2>1. /\ SearchTypes /\ Default \in DOMAIN vaults /\ DOMAIN vaults \subseteq Vaults
          /\ \A v \in DOMAIN vaults : vaults[v].root \in Roots \cup {NoRoot}
          /\ DOMAIN vaultRows \subseteq DOMAIN vaults /\ selected \in DOMAIN vaults
      BY DEF IInv, Types, VaultTypes, AnyRoot
    <2>2. ASSUME NEW t \in Threads
          PROVE  /\ Busy(t) => job[t].key \in Keys
                 /\ pc[t] \in {"set root", "read metadata", "save vault", "check root", "ensure row"} =>
                      job[t].key[1] \in DOMAIN vaults
      <3>1. Fits(t)
        BY DEF IInv, Types, ThreadTypes
      <3>2. ASSUME pc[t] \in {"set root", "read metadata", "save vault", "check root", "ensure row"}
            PROVE  job[t].key[1] \in DOMAIN vaults
        <4>1. PICK v \in Vaults : job[t].key = <<v>> /\ v \in DOMAIN vaults
          BY <3>1, <3>2 DEF Fits, RegisterFits, IndexFits, Registering, Indexing, Registers, Indexes, Steps
        <4> QED  BY <4>1
      <3> QED  BY <3>1, <3>2 DEF Fits
    <2> QED  BY <2>1, <2>2 DEF IInv, Types, GhostTypes, SearchTypes, TypeOK
  <1> QED  BY <1>1, Inductive, PTL DEF FullInv

\* What a request answered stays true, in memory and in the database, until the
\* next request on the same vault or the same name of a vault.
THEOREM AnswersStayTrue == Spec => []AnswersLast
  <1>1. IInv => AnswersLast
    <2> SUFFICES ASSUME IInv, NEW k \in Keys, answered[k] # Unknown
                 PROVE  Holds(answered[k], k)
      BY DEF AnswersLast
    <2>1. (\E s \in Searches : Saved(k, s) \/ Gone(k, s)) \/ \E r \in Roots : Registered(k, r)
      BY DEF IInv, KeyInv, Answered
    <2>2. ASSUME NEW s \in Searches, Saved(k, s) PROVE Holds(answered[k], k)
      BY <2>2 DEF Saved, Holds
    <2>3. ASSUME NEW s \in Searches, Gone(k, s) PROVE Holds(answered[k], k)
      BY <2>3 DEF Gone, Holds, Under
    <2>4. ASSUME NEW r \in Roots, Registered(k, r) PROVE Holds(answered[k], k)
      BY <2>4 DEF Registered, Holds
    <2> QED  BY <2>1, <2>2, <2>3, <2>4
  <1> QED  BY <1>1, Inductive, PTL DEF FullInv

\* An undisturbed key nobody is at work on is the same in memory and in the database.
THEOREM DictsAreSaved == Spec => []MemoryIsSaved
  <1>1. IInv => MemoryIsSaved
    BY DEF IInv, KeyInv, Same, MemoryIsSaved
  <1> QED  BY <1>1, Inductive, PTL DEF FullInv

\* A healthy request raises only on a key that was disturbed since the start.
THEOREM NoHealthyRequestRaises == Spec => []NoSurprise
  <1>1. IInv => NoSurprise
    BY DEF IInv, KeyInv, NoSurprise, Types, GhostTypes
  <1> QED  BY <1>1, Inductive, PTL DEF FullInv

=============================================================================
