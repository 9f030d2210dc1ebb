-------------------------- MODULE VaultIndexProofs --------------------------
(***************************************************************************)
(* Theorems of VaultIndex, for every vault, every number of threads, and   *)
(* every number of runs, edits, failures and restarts.                     *)
(*                                                                         *)
(* The first half is about lists of notes: what an undisturbed pass builds *)
(* from a list depends only on the notes it has by id, so that lists with  *)
(* the same notes agree (ListBuilds); what _changes reports is the         *)
(* difference of two sets of notes (ReportExact); a merge by an exact      *)
(* report changes nothing (MergeChangesNothing).  The second half is the   *)
(* invariant that a run alone with the index leads from each step to the   *)
(* next.                                                                   *)
(***************************************************************************)
EXTENDS VaultIndex, FiniteSetTheorems, WellFoundedInduction, TLAPS

\* What a note store holds, and what a run's list of notes is: a note is under
\* its own id, at a path with its own id.
StoreOK(st) ==
  /\ DOMAIN st \subseteq Ids
  /\ st = [i \in DOMAIN st |-> st[i]]
  /\ \A i \in DOMAIN st : st[i] \in Note /\ IdOf(st[i]) = i

ListOK(list) ==
  /\ DOMAIN list \subseteq Paths
  /\ list = [p \in DOMAIN list |-> list[p]]
  /\ \A p \in DOMAIN list : list[p] \in Note /\ IdOf(list[p]) = Stem[p]

\* Vectors, graph and snapshots as a function of the notes by id.
VectorsFor(st) == [x \in UNION {ChunkIds(st[i]) : i \in DOMAIN st} |-> st[x[1]].content]
GraphFor(st) == [i \in DOMAIN st |-> Links[st[i].content]]
DanglingFor(st) ==
  UNION {{<<i, l>> : l \in Links[st[i].content] \ DOMAIN st} : i \in DOMAIN st}
SnapFor(st) == [q \in {st[i].path : i \in DOMAIN st} |-> st[Stem[q]].content]

-----------------------------------------------------------------------------
\* Greatest and least positions.

LEMMA PathsInOrder ==
  ASSUME NEW S \in SUBSET Paths, S # {}
  PROVE  /\ S \subseteq Nat
         /\ \E x \in S : \A p \in S : x >= p
         /\ \E x \in S : \A p \in S : x <= p
  <1> DEFINE Less == {p \in Nat \X Nat : p[1] < p[2]}
             R == {NumPaths - p : p \in S}
  <1>1. NumPaths \in Nat /\ S \subseteq Nat /\ \A p \in S : p <= NumPaths
    BY IndexAssumption DEF Paths
  <1>2. \A x, y \in Nat : <<x, y>> \in Less <=> x < y
    OBVIOUS
  <1>3. IsWellFoundedOn(Less, Nat)
    BY NatLessThanWellFounded DEF OpToRel
  <1> HIDE DEF Less
  <1>4. \E x \in S : \A p \in S : x <= p
    <2>1. PICK x \in S : \A p \in S : ~(<<p, x>> \in Less)
      BY <1>1, <1>3, WFMin
    <2>2. \A p \in S : <<p, x>> \in Less <=> p < x
      BY <1>1, <1>2
    <2>3. \A p \in S : x <= p
      <3> TAKE p \in S
      <3>1. x \in Nat /\ p \in Nat /\ ~(p < x)
        BY <1>1, <2>1, <2>2
      <3> QED  BY <3>1
    <2> QED  BY <2>3
  <1>5. \E x \in S : \A p \in S : x >= p
    <2>1. R \subseteq Nat /\ R # {}
      <3>1. \A p \in S : NumPaths - p \in Nat
        <4> TAKE p \in S
        <4>1. p \in Nat /\ p <= NumPaths
          BY <1>1
        <4> QED  BY <1>1, <4>1
      <3>2. R \subseteq Nat
        BY <3>1, Zenon
      <3>3. PICK p \in S : TRUE
        OBVIOUS
      <3>4. NumPaths - p \in R
        BY <3>3, Zenon
      <3> QED  BY <3>2, <3>4, Zenon
    <2>2. \E r \in R : \A q \in R : ~(<<q, r>> \in Less)
      BY <1>3, <2>1, WFMin
    <2>3. PICK x \in S : \A p \in S : ~(<<NumPaths - p, NumPaths - x>> \in Less)
      BY <2>2
    <2>4. \A p \in S : x >= p
      <3> TAKE p \in S
      <3>1. x \in Nat /\ p \in Nat /\ NumPaths - p \in Nat /\ NumPaths - x \in Nat
        BY <1>1
      <3>2. ~(NumPaths - p < NumPaths - x)
        BY <1>2, <2>3, <3>1
      <3> QED  BY <1>1, <3>1, <3>2
    <2> QED  BY <2>4
  <1> QED  BY <1>1, <1>4, <1>5

LEMMA LastIsMember ==
  ASSUME NEW S \in SUBSET Paths, S # {}
  PROVE  Last(S) \in S
  BY PathsInOrder DEF Last, Max

LEMMA LeastIsMember ==
  ASSUME NEW S \in SUBSET Paths, S # {}
  PROVE  Min(S) \in S
  BY PathsInOrder DEF Min

-----------------------------------------------------------------------------
(* Lists of notes. *)

LEMMA ByIdOK ==
  ASSUME NEW list, ListOK(list)
  PROVE  StoreOK(ById(list)) /\ DOMAIN ById(list) = IdsIn(list)
  <1>1. \A i \in IdsIn(list) : /\ Last(WithId(list, i)) \in DOMAIN list
                               /\ IdOf(list[Last(WithId(list, i))]) = i
    <2> TAKE i \in IdsIn(list)
    <2>1. WithId(list, i) # {} /\ WithId(list, i) \in SUBSET Paths
      BY DEF IdsIn, WithId, ListOK
    <2> QED  BY <2>1, LastIsMember DEF WithId
  <1>2. IdsIn(list) \subseteq Ids
    BY DEF IdsIn, ListOK, Ids
  <1> QED  BY <1>1, <1>2 DEF ById, StoreOK, ListOK

\* Where ids are distinct the store has every note of the list.
LEMMA ByIdDistinct ==
  ASSUME NEW list, ListOK(list), DistinctIds(list)
  PROVE  \A p \in DOMAIN list : /\ WithId(list, Stem[p]) = {p} /\ Stem[p] \in IdsIn(list)
                                /\ ById(list)[Stem[p]] = list[p]
  <1> TAKE p \in DOMAIN list
  <1>1. IdOf(list[p]) = Stem[p] /\ Stem[p] \in IdsIn(list)
    BY DEF ListOK, IdsIn
  <1>2. WithId(list, Stem[p]) = {p}
    BY <1>1 DEF WithId, DistinctIds
  <1>3. {p} \in SUBSET Paths
    BY DEF ListOK
  <1>4. Last({p}) = p
    BY <1>3, LastIsMember
  <1> QED  BY <1>1, <1>2, <1>4 DEF ById

\* list_notes of a store is a list of just its notes.
LEMMA ListedIsList ==
  ASSUME NEW st, StoreOK(st)
  PROVE  /\ ListOK(Listed(st)) /\ DistinctIds(Listed(st)) /\ ById(Listed(st)) = st
         /\ (DOMAIN st # {} => Listed(st) # Nothing)
  <1> DEFINE L == Listed(st)
  <1>1. DOMAIN L = {st[i].path : i \in DOMAIN st} /\ L = [p \in DOMAIN L |-> L[p]]
    BY DEF Listed
  <1>2. \A i \in DOMAIN st : /\ st[i].path \in DOMAIN L /\ st[i].path \in Paths
                             /\ Stem[st[i].path] = i /\ L[st[i].path] = st[i]
    BY <1>1 DEF StoreOK, Listed, IdOf, Note
  <1>3. \A p \in DOMAIN L : /\ p \in Paths /\ L[p] \in Note /\ IdOf(L[p]) = Stem[p]
                            /\ L[p].path = p /\ Stem[p] \in DOMAIN st
    BY <1>1, <1>2 DEF StoreOK, IdOf
  <1>4. ListOK(L)
    BY <1>1, <1>3 DEF ListOK
  <1>5. DistinctIds(L)
    <2> SUFFICES ASSUME NEW p \in DOMAIN L, NEW q \in DOMAIN L, IdOf(L[p]) = IdOf(L[q]) PROVE p = q
      BY DEF DistinctIds
    <2>1. PICK i \in DOMAIN st : p = st[i].path
      BY <1>1
    <2>2. PICK j \in DOMAIN st : q = st[j].path
      BY <1>1
    <2> QED  BY <1>2, <1>3, <2>1, <2>2
  <1> HIDE DEF L
  <1>6. IdsIn(L) = DOMAIN st
    <2>1. \A i \in DOMAIN st : i \in IdsIn(L)
      BY <1>2, <1>3 DEF IdsIn
    <2>2. \A i \in IdsIn(L) : i \in DOMAIN st
      BY <1>3 DEF IdsIn
    <2> QED  BY <2>1, <2>2
  <1>7. \A i \in DOMAIN st : ById(L)[i] = st[i]
    BY <1>2, <1>4, <1>5, ByIdDistinct
  <1>8. ById(L) = [i \in DOMAIN st |-> ById(L)[i]]
    BY <1>6 DEF ById
  <1>9. ById(L) = st
    BY <1>7, <1>8 DEF StoreOK
  <1>10. DOMAIN st # {} => L # Nothing
    BY <1>2 DEF Nothing
  <1> QED  BY <1>4, <1>5, <1>9, <1>10 DEF L

\* What is built from a list of distinct notes is a function of the notes by id.
LEMMA ListBuilds ==
  ASSUME NEW list, ListOK(list), DistinctIds(list)
  PROVE  /\ VectorsOf(list) = VectorsFor(ById(list))
         /\ GraphOf(list) = GraphFor(ById(list))
         /\ Dangling(list, IdsIn(list)) = DanglingFor(ById(list))
         /\ Snap(list) = SnapFor(ById(list))
  <1> DEFINE st == ById(list)
  <1>1. StoreOK(st) /\ DOMAIN st = IdsIn(list)
    BY ByIdOK
  <1>2. \A p \in DOMAIN list : /\ WithId(list, Stem[p]) = {p} /\ Stem[p] \in DOMAIN st
                               /\ st[Stem[p]] = list[p] /\ IdOf(list[p]) = Stem[p]
    BY <1>1, ByIdDistinct DEF ListOK
  <1>3. \A i \in DOMAIN st : \E p \in DOMAIN list : i = Stem[p]
    BY <1>1 DEF IdsIn, ListOK
  <1> HIDE DEF st
  <1>4. \A i \in DOMAIN st : LinksFrom(list, i) = Links[st[i].content]
    <2> TAKE i \in DOMAIN st
    <2>1. PICK p \in DOMAIN list : i = Stem[p]
      BY <1>3
    <2>2. WithId(list, i) = {p} /\ st[i] = list[p]
      BY <1>2, <2>1
    <2> QED  BY <2>2 DEF LinksFrom
  <1>5. GraphOf(list) = GraphFor(st)
    <2>1. Register(Nothing, list) = [i \in DOMAIN st |-> {}]
      BY <1>1 DEF Register, Nothing, st
    <2> QED  BY <1>1, <1>4, <2>1 DEF GraphOf, AddLinks, GraphFor, st
  <1>6. Dangling(list, IdsIn(list)) = DanglingFor(st)
    BY <1>1, <1>4 DEF Dangling, DanglingFor, st
  <1>7. Snap(list) = SnapFor(st)
    <2> DEFINE at(q) == CHOOSE p \in DOMAIN list : list[p].path = q
    <2>1. {list[p].path : p \in DOMAIN list} = {st[i].path : i \in DOMAIN st}
      BY <1>2, <1>3
    <2>2. \A q \in {list[p].path : p \in DOMAIN list} : list[at(q)] = st[Stem[q]]
      <3> TAKE q \in {list[p].path : p \in DOMAIN list}
      <3>1. \E p \in DOMAIN list : list[p].path = q
        OBVIOUS
      <3>2. at(q) \in DOMAIN list /\ list[at(q)].path = q
        BY <3>1
      <3> HIDE DEF at
      <3> QED  BY <1>2, <3>2 DEF IdOf
    <2>3. Snap(list) = [q \in {list[p].path : p \in DOMAIN list} |-> list[at(q)].content]
      BY DEF Snap
    <2> HIDE DEF at
    <2> QED  BY <2>1, <2>2, <2>3 DEF SnapFor
  <1>8. VectorsOf(list) = VectorsFor(st)
    <2> DEFINE new == UNION {ChunkIds(list[p]) : p \in DOMAIN list}
               having(x) == {p \in DOMAIN list : x \in ChunkIds(list[p])}
    <2>1. VectorsOf(list) = [x \in new |-> list[Last(having(x))].content]
      BY DEF VectorsOf, AddChunks, Nothing
    <2>2. new = UNION {ChunkIds(st[i]) : i \in DOMAIN st}
      BY <1>2, <1>3
    <2>3. \A x \in new : list[Last(having(x))] = st[x[1]]
      <3> TAKE x \in new
      <3>1. having(x) # {} /\ having(x) \in SUBSET Paths
        BY DEF ListOK
      <3>2. Last(having(x)) \in having(x)
        BY <3>1, LastIsMember
      <3>3. \A p \in having(x) : x[1] = IdOf(list[p])
        BY DEF ChunkIds
      <3> HIDE DEF new
      <3> QED  BY <1>2, <3>2, <3>3
    <2> HIDE DEF new, having
    <2> QED  BY <2>1, <2>2, <2>3 DEF VectorsFor
  <1> QED  BY <1>5, <1>6, <1>7, <1>8 DEF st

-----------------------------------------------------------------------------
(* The report and the merge. *)

\* A list as parse_directory returns it.
ParsedOK(list) == ListOK(list) /\ \A p \in DOMAIN list : list[p].path = p

LEMMA SnapParsed ==
  ASSUME NEW list, ParsedOK(list)
  PROVE  Snap(list) = [p \in DOMAIN list |-> list[p].content]
  <1> DEFINE at(q) == CHOOSE p \in DOMAIN list : list[p].path = q
  <1>1. {list[p].path : p \in DOMAIN list} = DOMAIN list
    BY DEF ParsedOK
  <1>2. \A q \in DOMAIN list : at(q) = q
    BY DEF ParsedOK
  <1>3. Snap(list) = [q \in {list[p].path : p \in DOMAIN list} |-> list[at(q)].content]
    BY DEF Snap
  <1> HIDE DEF at
  <1> QED  BY <1>1, <1>2, <1>3

\* What the report should be.
Difference(list, st) ==
  [added |-> DOMAIN list \ DOMAIN st,
   deleted |-> DOMAIN st \ DOMAIN list,
   changed |-> {i \in DOMAIN list \cap DOMAIN st : list[i] # st[i]}]

\* _changes compares paths and hashes; a note that moved is in both of its lists.
LEMMA ReportExact ==
  ASSUME NEW list, NEW st, ParsedOK(list), DistinctIds(list), StoreOK(st)
  PROVE  Changes(SnapFor(st), Snap(list)) = Difference(ById(list), st)
  <1> DEFINE parsed == ById(list)
             now == DOMAIN list
             before == {st[i].path : i \in DOMAIN st}
             added == {Stem[p] : p \in now \ before}
             deleted == {Stem[p] : p \in before \ now}
             changed == {Stem[p] : p \in {q \in now \cap before : Snap(list)[q] # SnapFor(st)[q]}}
  <1>1. /\ DOMAIN Snap(list) = now /\ DOMAIN SnapFor(st) = before
        /\ \A p \in now : Snap(list)[p] = list[p].content
        /\ \A q \in before : SnapFor(st)[q] = st[Stem[q]].content
    BY SnapParsed DEF SnapFor
  <1>2. DOMAIN parsed = IdsIn(list) /\ StoreOK(parsed)
    BY ByIdOK DEF ParsedOK
  <1>3. \A p \in now : Stem[p] \in DOMAIN parsed /\ parsed[Stem[p]] = list[p] /\ list[p].path = p
    BY <1>2, ByIdDistinct DEF ParsedOK
  <1>4. \A i \in DOMAIN parsed : \E p \in now : i = Stem[p]
    BY <1>2 DEF IdsIn, ParsedOK, ListOK
  <1>5. \A p, q \in now : Stem[p] = Stem[q] => p = q
    BY DEF DistinctIds, ParsedOK, ListOK
  <1>6. \A i \in DOMAIN st : st[i].path \in before /\ Stem[st[i].path] = i
    BY DEF StoreOK, IdOf
  <1>7. \A q \in before : Stem[q] \in DOMAIN st /\ st[Stem[q]].path = q
    BY <1>6
  <1>8. \A i \in DOMAIN parsed \cap DOMAIN st :
          parsed[i] = st[i] <=> parsed[i].path = st[i].path /\ parsed[i].content = st[i].content
    BY <1>2 DEF StoreOK, Note
  <1>9. Changes(SnapFor(st), Snap(list)) =
          [added |-> added \ (added \cap deleted), changed |-> changed \cup (added \cap deleted),
           deleted |-> deleted \ (added \cap deleted)]
    BY <1>1 DEF Changes
  <1> HIDE DEF parsed
  <1>10. \A i : i \in added <=> i \in DOMAIN parsed /\ (i \in DOMAIN st => st[i].path # parsed[i].path)
    BY <1>3, <1>4, <1>5, <1>6, <1>7
  <1>11. \A i : i \in deleted <=> i \in DOMAIN st /\ (i \in DOMAIN parsed => st[i].path # parsed[i].path)
    BY <1>3, <1>4, <1>5, <1>6, <1>7
  <1>12. \A i : i \in changed <=> /\ i \in DOMAIN parsed \cap DOMAIN st
                                  /\ st[i].path = parsed[i].path
                                  /\ st[i].content # parsed[i].content
    <2> TAKE i
    <2>1. ASSUME i \in changed
          PROVE  /\ i \in DOMAIN parsed \cap DOMAIN st /\ st[i].path = parsed[i].path
                 /\ st[i].content # parsed[i].content
      <3>1. PICK p \in now \cap before : Snap(list)[p] # SnapFor(st)[p] /\ i = Stem[p]
        BY <2>1
      <3> QED  BY <1>1, <1>3, <1>7, <3>1
    <2>2. ASSUME i \in DOMAIN parsed \cap DOMAIN st, st[i].path = parsed[i].path,
                 st[i].content # parsed[i].content
          PROVE  i \in changed
      <3>1. PICK p \in now : i = Stem[p]
        BY <1>4, <2>2
      <3>2. p \in before /\ Snap(list)[p] # SnapFor(st)[p]
        BY <1>1, <1>3, <1>6, <2>2, <3>1
      <3> QED  BY <3>1, <3>2
    <2> QED  BY <2>1, <2>2
  <1> HIDE DEF added, deleted, changed, now, before
  <1>13. added \ (added \cap deleted) = DOMAIN parsed \ DOMAIN st
    BY <1>10, <1>11
  <1>14. deleted \ (added \cap deleted) = DOMAIN st \ DOMAIN parsed
    BY <1>10, <1>11
  <1>15. changed \cup (added \cap deleted) = {i \in DOMAIN parsed \cap DOMAIN st : parsed[i] # st[i]}
    BY <1>8, <1>10, <1>11, <1>12
  <1> QED  BY <1>9, <1>13, <1>14, <1>15 DEF Difference, parsed

\* Merging never changes an id ...
LEMMA MergeOK ==
  ASSUME NEW list, NEW changes, NEW st, ListOK(list), StoreOK(st)
  PROVE  ListOK(Merge(list, changes, st)) /\ DOMAIN Merge(list, changes, st) = DOMAIN list
  BY DEF Merge, ListOK, StoreOK

\* ... and with an exact report it changes nothing.
LEMMA MergeChangesNothing ==
  ASSUME NEW list, NEW st, ListOK(list), DistinctIds(list)
  PROVE  Merge(list, Difference(ById(list), st), st) = list
  <1> DEFINE parsed == ById(list)
             found == Difference(parsed, st)
  <1>1. \A p \in DOMAIN list : Stem[p] \in DOMAIN parsed /\ parsed[Stem[p]] = list[p]
                               /\ IdOf(list[p]) = Stem[p]
    BY ByIdOK, ByIdDistinct DEF ListOK
  <1>2. /\ found.added = DOMAIN parsed \ DOMAIN st
        /\ found.changed = {i \in DOMAIN parsed \cap DOMAIN st : parsed[i] # st[i]}
    BY DEF Difference
  <1> HIDE DEF parsed, found
  <1>3. ASSUME NEW p \in DOMAIN list, IdOf(list[p]) \in DOMAIN st \ (found.added \cup found.changed)
        PROVE  st[IdOf(list[p])] = list[p]
    BY <1>1, <1>2, <1>3
  <1>4. Merge(list, found, st) = [p \in DOMAIN list |-> list[p]]
    BY <1>3 DEF Merge
  <1> QED  BY <1>4 DEF ListOK, found, parsed

-----------------------------------------------------------------------------
(* The invariant. *)

\* Where a run has not touched the index yet, and where it has.
Early == {"write", "walk", "merge", "replace"}
Late == {"clear", "add", "reset", "register", "resolve", "snapshot", "save", "answer"}
Places == {"idle"} \cup Early \cup Late

Jobs == [kind : {"none", "full", "incremental", "patch"}, id : Nat, path : Paths,
         content : Contents \cup {NoContent}]

Types ==
  /\ files \in [Paths -> Contents \cup {Absent, Unreadable}]
  /\ StoreOK(store)
  /\ pc \in [Threads -> Places]
  /\ job \in [Threads -> Jobs]
  /\ walk \in [Threads -> Nat]
  /\ listed \in [Threads -> SUBSET Paths]
  /\ notes = [t \in Threads |-> notes[t]]
  /\ report = [t \in Threads |-> report[t]]
  /\ answer = [t \in Threads |-> answer[t]]
  /\ ghost \in [Threads -> Ghost]
  /\ calm \in 0..2

\* What a thread knows, wherever it stands and whoever else is running.
Local(t) ==
  /\ ListOK(notes[t])
  /\ pc[t] \in {"idle", "write"} => notes[t] = Nothing /\ walk[t] = 1 /\ listed[t] = {}
  /\ pc[t] \in {"walk", "merge"} => ParsedOK(notes[t])
  /\ pc[t] \in {"write", "answer"} => job[t].kind = "patch"
  /\ pc[t] = "merge" => job[t].kind # "full"
  /\ job[t].kind = "patch" => Stem[job[t].path] = job[t].id /\ job[t].content \in Contents

\* What it knows of the files, as long as nobody else changes one.
Still(t) == pc[t] # "idle" /\ ghost[t].still =>
  /\ pc[t] = "walk" =>
       /\ \A p \in DOMAIN notes[t] : notes[t][p].content = files[p]
       /\ DOMAIN notes[t] \cup listed[t] = {p \in Paths : Folder[p] < walk[t] /\ files[p] # Absent}
  /\ pc[t] = "merge" => notes[t] = FileList
  /\ job[t].kind = "patch" /\ pc[t] # "write" => files[job[t].path] = job[t].content

Agrees == VectorsAgree /\ GraphAgrees /\ SnapshotsAgree

\* How far it has come with the index.
Built(t) ==
  /\ pc[t] \in Late => store = ById(notes[t])
  /\ pc[t] = "add" => vectors = Nothing
  /\ pc[t] \in {"reset", "register", "resolve", "snapshot", "save", "answer"} =>
       vectors = VectorsOf(notes[t])
  /\ pc[t] = "register" => adj = Nothing /\ dangling = {}
  /\ pc[t] = "resolve" => adj = Register(Nothing, notes[t]) /\ dangling = {}
  /\ pc[t] \in {"snapshot", "save", "answer"} =>
       adj = GraphOf(notes[t]) /\ dangling = Dangling(notes[t], IdsIn(notes[t]))
  /\ pc[t] \in {"save", "answer"} => snapshots = Snap(notes[t])

\* Its list is what a full run would have.
Whole(t) ==
  /\ pc[t] \in {"replace"} \cup Late /\ ghost[t].still /\ DistinctIds(notes[t])
  /\ job[t].kind = "full" \/ ghost[t].base >= 1
  => notes[t] = FileList

\* While nobody overlaps it, what it found is there, and what it built stays.
Alone(t) == pc[t] # "idle" /\ ghost[t].alone =>
  /\ Active = {t}
  /\ pc[t] \in Early /\ ghost[t].base >= 1 => Agrees
  /\ pc[t] \in Early /\ ghost[t].base = 2 /\ ghost[t].still /\ job[t].kind # "patch" =>
       store = ById(FileList)
  /\ pc[t] = "merge" => report[t] = Changes(snapshots, Snap(notes[t]))
  /\ Whole(t)
  /\ Built(t)

Inv == Types /\ (\A t \in Threads : Local(t) /\ Still(t) /\ Alone(t)) /\ Heals

-----------------------------------------------------------------------------
LEMMA NothingOK == ListOK(Nothing) /\ ParsedOK(Nothing) /\ StoreOK(Nothing)
  BY DEF Nothing, ListOK, ParsedOK, StoreOK

LEMMA NoJobIsJob == NoJob \in Jobs /\ NoJob.kind = "none"
  BY IndexAssumption DEF NoJob, Jobs, Paths

LEMMA NoGhostIsGhost == NoGhost \in Ghost /\ NoGhost.base = 0
  BY DEF NoGhost, Ghost

\* Parts that agree when the lists they were built from have the store's notes.
LEMMA BuiltAgrees ==
  ASSUME NEW list, ListOK(list), DistinctIds(list), store = ById(list),
         vectors = VectorsOf(list), adj = GraphOf(list),
         dangling = Dangling(list, IdsIn(list)), snapshots = Snap(list)
  PROVE  Agrees
  <1>1. StoreOK(store)
    BY ByIdOK
  <1>2. /\ ListOK(Listed(store)) /\ DistinctIds(Listed(store))
        /\ ById(Listed(store)) = ById(list)
    BY <1>1, ListedIsList
  <1> QED  BY <1>2, ListBuilds DEF Agrees, VectorsAgree, GraphAgrees, SnapshotsAgree

LEMMA GotoEffect ==
  ASSUME Types, NEW t \in Threads, NEW x \in Places, Goto(t, x)
  PROVE  /\ pc' \in [Threads -> Places] /\ pc'[t] = x
         /\ \A u \in Threads \ {t} : pc'[u] = pc[u]
  BY DEF Types, Goto

\* The other threads, when thread t takes a step.
Others(t) ==
  \A u \in Threads \ {t} :
    /\ pc'[u] = pc[u] /\ job'[u] = job[u] /\ walk'[u] = walk[u] /\ listed'[u] = listed[u]
    /\ notes'[u] = notes[u] /\ report'[u] = report[u]

LEMMA OthersKeep ==
  ASSUME Inv, NEW t \in Threads, Others(t), NEW u \in Threads \ {t}, ghost'[u] \in Ghost,
         pc[u] # "idle" /\ ghost'[u].still => ghost[u].still /\ files' = files
  PROVE  Local(u)' /\ Still(u)'
  <1>1. Local(u) /\ Still(u)
    BY DEF Inv
  <1>2. Local(u)'
    BY <1>1 DEF Others, Local
  <1>3. Still(u)'
    BY <1>1 DEF Others, Still, FileList
  <1> QED  BY <1>2, <1>3

LEMMA OthersNotAlone ==
  ASSUME Inv, NEW t \in Threads, pc[t] # "idle", Others(t), NEW u \in Threads \ {t},
         ghost'[u].alone => ghost[u].alone
  PROVE  Alone(u)'
  <1>1. Alone(u) /\ t \in Active
    BY DEF Inv, Active
  <1> QED  BY <1>1 DEF Alone, Others

\* A step of a run that goes on.
LEMMA RunStep ==
  ASSUME Inv, NEW t \in Threads, pc[t] # "idle", Others(t), Types', pc'[t] # "idle",
         UNCHANGED <<files, ghost>>,
         Local(t)', Still(t)',
         Active' = Active /\ ghost[t].alone => Alone(t)'
  PROVE  Inv'
  <1>1. \A u \in Threads \ {t} : Local(u)' /\ Still(u)' /\ Alone(u)'
    BY OthersKeep, OthersNotAlone DEF Types
  <1>2. Active' = Active /\ Active' # {}
    BY DEF Active, Others, Inv
  <1>3. Alone(t)'
    <2>1. CASE ghost[t].alone
      BY <1>2, <2>1
    <2>2. CASE ~ghost[t].alone
      BY <2>2 DEF Alone
    <2> QED  BY <2>1, <2>2
  <1>4. Heals'
    BY <1>2 DEF Heals
  <1> QED  BY <1>1, <1>3, <1>4 DEF Inv

-----------------------------------------------------------------------------
(* The steps that build the index. *)

\* One that leaves everything but the index alone.
LEMMA BuildStep ==
  ASSUME Inv, NEW t \in Threads, NEW x \in Late, pc[t] \in {"replace"} \cup Late, Goto(t, x),
         UNCHANGED <<files, job, walk, listed, notes, report, answer, ghost, calm>>,
         StoreOK(store'), x = "answer" => job[t].kind = "patch",
         Built(t) => Built(t)'
  PROVE  Inv'
  <1>1. Types /\ Local(t) /\ Still(t) /\ Alone(t) /\ pc[t] # "idle" /\ x \in Places /\ x # "idle"
    BY DEF Inv, Early, Late, Places
  <1>2. /\ pc' \in [Threads -> Places] /\ pc'[t] = x
        /\ \A u \in Threads \ {t} : pc'[u] = pc[u]
    BY <1>1, GotoEffect
  <1>3. Types'
    BY <1>1, <1>2 DEF Types
  <1>4. Others(t)
    BY <1>2 DEF Others
  <1>5. Local(t)'
    BY <1>1, <1>2 DEF Local, Late
  <1>6. Still(t)'
    BY <1>1, <1>2 DEF Still, Late, Early
  <1>7. ASSUME Active' = Active, ghost[t].alone PROVE Alone(t)'
    <2>1. Active' = {t} /\ Whole(t) /\ Built(t)'
      BY <1>1, <1>7 DEF Alone
    <2>2. Whole(t)'
      BY <1>1, <1>2, <2>1 DEF Whole, FileList
    <2>3. pc'[t] \notin Early
      BY <1>2 DEF Late, Early
    <2> QED  BY <2>1, <2>2, <2>3 DEF Alone, Early
  <1> QED  BY <1>1, <1>2, <1>3, <1>4, <1>5, <1>6, <1>7, RunStep

LEMMA BuildKeeps ==
  ASSUME Inv, NEW t \in Threads,
         \/ Replace(t) \/ ClearVectors(t) \/ AddVectors(t) \/ ResetGraph(t)
         \/ RegisterNodes(t) \/ ResolveLinks(t) \/ TakeSnapshots(t)
  PROVE  Inv'
  <1>1. StoreOK(store) /\ ListOK(notes[t]) /\ pc \in [Threads -> Places]
    BY DEF Inv, Types, Local
  <1>2. CASE Replace(t)
    <2>1. StoreOK(store') /\ store' = ById(notes[t])
      BY <1>1, <1>2, ByIdOK DEF Replace
    <2>2. /\ pc[t] \in {"replace"} \cup Late /\ "clear" \in Late /\ Goto(t, "clear")
          /\ pc'[t] = "clear"
          /\ UNCHANGED <<files, job, walk, listed, notes, report, answer, ghost, calm>>
      BY <1>1, <1>2 DEF Replace, Stay, fileVars, ghostVars, Late, Goto
    <2>3. Built(t)'
      BY <2>1, <2>2 DEF Built
    <2> QED  BY <2>1, <2>2, <2>3, BuildStep
  <1>3. CASE ClearVectors(t)
    <2>1. /\ pc[t] \in {"replace"} \cup Late /\ "add" \in Late /\ Goto(t, "add")
          /\ pc[t] \in Late /\ pc'[t] = "add" /\ vectors' = Nothing /\ store' = store
          /\ UNCHANGED <<files, job, walk, listed, notes, report, answer, ghost, calm>>
      BY <1>1, <1>3 DEF ClearVectors, Stay, fileVars, ghostVars, Late, Goto
    <2>2. Built(t) => Built(t)'
      BY <2>1 DEF Built
    <2> QED  BY <1>1, <2>1, <2>2, BuildStep
  <1>4. CASE AddVectors(t)
    <2>1. /\ pc[t] \in {"replace"} \cup Late /\ "reset" \in Late /\ Goto(t, "reset")
          /\ pc[t] \in Late /\ pc[t] = "add" /\ pc'[t] = "reset" /\ store' = store
          /\ vectors' = AddChunks(vectors, notes[t])
          /\ UNCHANGED <<files, job, walk, listed, notes, report, answer, ghost, calm>>
      BY <1>1, <1>4 DEF AddVectors, Stay, fileVars, ghostVars, Late, Goto
    <2>2. Built(t) => Built(t)'
      BY <2>1 DEF Built, VectorsOf
    <2> QED  BY <1>1, <2>1, <2>2, BuildStep
  <1>5. CASE ResetGraph(t)
    <2>1. /\ pc[t] \in {"replace"} \cup Late /\ "register" \in Late /\ Goto(t, "register")
          /\ pc[t] \in Late /\ pc[t] = "reset" /\ pc'[t] = "register"
          /\ store' = store /\ vectors' = vectors /\ adj' = Nothing /\ dangling' = {}
          /\ UNCHANGED <<files, job, walk, listed, notes, report, answer, ghost, calm>>
      BY <1>1, <1>5 DEF ResetGraph, Stay, fileVars, ghostVars, Late, Goto
    <2>2. Built(t) => Built(t)'
      BY <2>1 DEF Built
    <2> QED  BY <1>1, <2>1, <2>2, BuildStep
  <1>6. CASE RegisterNodes(t)
    <2>1. /\ pc[t] \in {"replace"} \cup Late /\ "resolve" \in Late /\ Goto(t, "resolve")
          /\ pc[t] \in Late /\ pc[t] = "register" /\ pc'[t] = "resolve"
          /\ store' = store /\ vectors' = vectors /\ adj' = Register(adj, notes[t])
          /\ dangling' = dangling
          /\ UNCHANGED <<files, job, walk, listed, notes, report, answer, ghost, calm>>
      BY <1>1, <1>6 DEF RegisterNodes, Stay, fileVars, ghostVars, Late, Goto
    <2>2. Built(t) => Built(t)'
      BY <2>1 DEF Built
    <2> QED  BY <1>1, <2>1, <2>2, BuildStep
  <1>7. CASE ResolveLinks(t)
    <2>1. /\ pc[t] \in {"replace"} \cup Late /\ "snapshot" \in Late /\ Goto(t, "snapshot")
          /\ pc[t] \in Late /\ pc[t] = "resolve" /\ pc'[t] = "snapshot"
          /\ store' = store /\ vectors' = vectors
          /\ adj' = AddLinks(adj, notes[t], IdsIn(notes[t]))
          /\ dangling' = dangling \cup Dangling(notes[t], IdsIn(notes[t]))
          /\ UNCHANGED <<files, job, walk, listed, notes, report, answer, ghost, calm>>
      BY <1>1, <1>7 DEF ResolveLinks, Stay, fileVars, ghostVars, Late, Goto
    <2>2. Built(t) => Built(t)'
      BY <2>1 DEF Built, GraphOf
    <2> QED  BY <1>1, <2>1, <2>2, BuildStep
  <1>8. CASE TakeSnapshots(t)
    <2>1. /\ pc[t] \in {"replace"} \cup Late /\ "save" \in Late /\ Goto(t, "save")
          /\ pc[t] \in Late /\ pc[t] = "snapshot" /\ pc'[t] = "save"
          /\ store' = store /\ vectors' = vectors /\ adj' = adj /\ dangling' = dangling
          /\ snapshots' = Snap(notes[t])
          /\ UNCHANGED <<files, job, walk, listed, notes, report, answer, ghost, calm>>
      BY <1>1, <1>8 DEF TakeSnapshots, Stay, fileVars, ghostVars, Late, Goto
    <2>2. Built(t) => Built(t)'
      BY <2>1 DEF Built
    <2> QED  BY <1>1, <2>1, <2>2, BuildStep
  <1> QED  BY <1>2, <1>3, <1>4, <1>5, <1>6, <1>7, <1>8

-----------------------------------------------------------------------------
(* The steps that read the vault. *)

LEMMA ListFolderKeeps ==
  ASSUME Inv, NEW t \in Threads, ListFolder(t)
  PROVE  Inv'
  <1> DEFINE new == {p \in Paths : Folder[p] = walk[t] /\ files[p] # Absent}
  <1>1. /\ Types /\ Local(t) /\ Still(t) /\ Alone(t) /\ pc[t] = "walk" /\ listed[t] = {}
        /\ walk[t] \in Nat
    BY DEF Inv, Types, ListFolder
  <1>2. /\ listed' = [listed EXCEPT ![t] = new] /\ walk' = [walk EXCEPT ![t] = @ + 1]
        /\ UNCHANGED <<files, store, vectors, adj, dangling, snapshots, pc, job, notes, report,
                       answer, ghost, calm>>
    BY DEF ListFolder, fileVars, indexVars, ghostVars
  <1>3. /\ listed'[t] = new /\ walk'[t] = walk[t] + 1 /\ listed' \in [Threads -> SUBSET Paths]
        /\ walk' \in [Threads -> Nat]
        /\ \A u \in Threads \ {t} : listed'[u] = listed[u] /\ walk'[u] = walk[u]
    BY <1>1, <1>2 DEF Types
  <1>4. Types' /\ Others(t) /\ Local(t)'
    BY <1>1, <1>2, <1>3 DEF Types, Others, Local
  <1>5. Still(t)'
    <2> SUFFICES ASSUME ghost[t].still
                 PROVE  DOMAIN notes[t] \cup new =
                          {p \in Paths : Folder[p] < walk[t] + 1 /\ files[p] # Absent}
      BY <1>1, <1>2, <1>3 DEF Still
    <2>1. DOMAIN notes[t] = {p \in Paths : Folder[p] < walk[t] /\ files[p] # Absent}
      BY <1>1 DEF Still
    <2>2. \A p \in Paths : Folder[p] \in Nat
      BY IndexAssumption
    <2> QED  BY <1>1, <2>1, <2>2
  <1>6. ASSUME Active' = Active, ghost[t].alone PROVE Alone(t)'
    BY <1>1, <1>2, <1>6 DEF Alone, Agrees, VectorsAgree, GraphAgrees, SnapshotsAgree, Whole, Built,
                            Late, FileList
  <1> QED  BY <1>1, <1>2, <1>4, <1>5, <1>6, RunStep

LEMMA ReadFileKeeps ==
  ASSUME Inv, NEW t \in Threads, ReadFile(t)
  PROVE  Inv'
  <1> DEFINE p == Min(listed[t])
             new == [q \in DOMAIN notes[t] \cup {p} |->
                       IF q = p THEN [path |-> p, content |-> files[p]] ELSE notes[t][q]]
  <1>1. /\ Types /\ Local(t) /\ Still(t) /\ Alone(t) /\ pc[t] = "walk" /\ listed[t] # {}
        /\ listed[t] \in SUBSET Paths /\ files[p] \in Contents
    BY DEF Inv, Types, ReadFile
  <1>2. /\ notes' = [notes EXCEPT ![t] = new] /\ listed' = [listed EXCEPT ![t] = @ \ {p}]
        /\ UNCHANGED <<files, store, vectors, adj, dangling, snapshots, pc, job, walk, report,
                       answer, ghost, calm>>
    BY DEF ReadFile, fileVars, indexVars, ghostVars
  <1>3. p \in listed[t] /\ p \in Paths
    BY <1>1, LeastIsMember
  <1> HIDE DEF p
  <1>4. /\ DOMAIN new = DOMAIN notes[t] \cup {p} /\ new = [q \in DOMAIN new |-> new[q]]
        /\ new[p] = [path |-> p, content |-> files[p]]
        /\ \A q \in DOMAIN notes[t] : q # p => new[q] = notes[t][q]
    OBVIOUS
  <1> HIDE DEF new
  <1>5. ParsedOK(new)
    <2>1. new[p] \in Note /\ IdOf(new[p]) = Stem[p] /\ new[p].path = p
      BY <1>1, <1>3, <1>4 DEF Note, IdOf
    <2> QED  BY <1>1, <1>3, <1>4, <2>1 DEF ParsedOK, ListOK, Local
  <1>6. /\ notes'[t] = new /\ listed'[t] = listed[t] \ {p}
        /\ listed' \in [Threads -> SUBSET Paths] /\ notes' = [u \in Threads |-> notes'[u]]
        /\ \A u \in Threads \ {t} : listed'[u] = listed[u] /\ notes'[u] = notes[u]
    BY <1>1, <1>2 DEF Types
  <1>7. Types' /\ Others(t)
    BY <1>1, <1>2, <1>6 DEF Types, Others
  <1>8. Local(t)'
    BY <1>1, <1>2, <1>5, <1>6 DEF Local, ParsedOK
  <1>9. Still(t)'
    <2> SUFFICES ASSUME ghost[t].still
                 PROVE  /\ \A q \in DOMAIN new : new[q].content = files[q]
                        /\ DOMAIN new \cup (listed[t] \ {p}) =
                             {q \in Paths : Folder[q] < walk[t] /\ files[q] # Absent}
      BY <1>1, <1>2, <1>6 DEF Still
    <2>1. /\ \A q \in DOMAIN notes[t] : notes[t][q].content = files[q]
          /\ DOMAIN notes[t] \cup listed[t] =
               {q \in Paths : Folder[q] < walk[t] /\ files[q] # Absent}
      BY <1>1 DEF Still
    <2>2. \A q \in DOMAIN new : new[q].content = files[q]
      BY <1>4, <2>1
    <2>3. DOMAIN new \cup (listed[t] \ {p}) = DOMAIN notes[t] \cup listed[t]
      BY <1>3, <1>4
    <2> QED  BY <2>1, <2>2, <2>3
  <1>10. ASSUME Active' = Active, ghost[t].alone PROVE Alone(t)'
    BY <1>1, <1>2, <1>10 DEF Alone, Agrees, VectorsAgree, GraphAgrees, SnapshotsAgree, Whole, Built,
                             Late, FileList
  <1> QED  BY <1>1, <1>2, <1>7, <1>8, <1>9, <1>10, RunStep

\* An undisturbed walk has read the files.
LEMMA WalkIsWhole ==
  ASSUME Inv, NEW t \in Threads, pc[t] = "walk", listed[t] = {}, walk[t] > NumFolders,
         ghost[t].still
  PROVE  notes[t] = FileList
  <1>1. /\ ParsedOK(notes[t]) /\ walk[t] \in Nat
        /\ \A p \in DOMAIN notes[t] : notes[t][p].content = files[p]
        /\ DOMAIN notes[t] = {p \in Paths : Folder[p] < walk[t] /\ files[p] # Absent}
    BY DEF Inv, Types, Local, Still
  <1>2. \A p \in Paths : Folder[p] \in Nat /\ Folder[p] <= NumFolders /\ NumFolders \in Nat
    BY IndexAssumption
  <1>3. DOMAIN notes[t] = {p \in Paths : files[p] # Absent}
    BY <1>1, <1>2
  <1>4. \A p \in DOMAIN notes[t] : notes[t][p] = [path |-> p, content |-> files[p]]
    BY <1>1 DEF ParsedOK, ListOK, Note
  <1>5. notes[t] = [p \in DOMAIN notes[t] |-> notes[t][p]]
    BY <1>1 DEF ParsedOK, ListOK
  <1> QED  BY <1>3, <1>4, <1>5 DEF FileList

LEMMA CompareKeeps ==
  ASSUME Inv, NEW t \in Threads, Compare(t)
  PROVE  Inv'
  <1> DEFINE x == IF job[t].kind = "full" THEN "replace" ELSE "merge"
             new == Changes(snapshots, Snap(notes[t]))
  <1>1. /\ Types /\ Local(t) /\ Still(t) /\ Alone(t) /\ pc[t] = "walk" /\ listed[t] = {}
        /\ walk[t] > NumFolders
    BY DEF Inv, Compare
  <1>2. /\ report' = [report EXCEPT ![t] = new] /\ Goto(t, x) /\ x \in Places /\ x # "idle"
        /\ UNCHANGED <<files, store, vectors, adj, dangling, snapshots, job, walk, listed, notes,
                       answer, ghost, calm>>
    BY DEF Compare, fileVars, indexVars, ghostVars, Places, Early
  <1>3. /\ pc' \in [Threads -> Places] /\ pc'[t] = x
        /\ \A u \in Threads \ {t} : pc'[u] = pc[u]
    BY <1>1, <1>2, GotoEffect
  <1>4. /\ report'[t] = new /\ report' = [u \in Threads |-> report'[u]]
        /\ \A u \in Threads \ {t} : report'[u] = report[u]
    BY <1>1, <1>2 DEF Types
  <1>5. Types' /\ Others(t)
    BY <1>1, <1>2, <1>3, <1>4 DEF Types, Others
  <1>6. Local(t)'
    BY <1>1, <1>2, <1>3 DEF Local
  <1>7. ghost[t].still => notes[t] = FileList
    BY <1>1, WalkIsWhole
  <1>8. Still(t)'
    BY <1>1, <1>2, <1>3, <1>7 DEF Still, FileList
  <1>9. ASSUME Active' = Active, ghost[t].alone PROVE Alone(t)'
    <2>1. Whole(t)' /\ Built(t)'
      BY <1>2, <1>3, <1>7 DEF Whole, Built, FileList, Late
    <2> HIDE DEF new
    <2>2. pc'[t] = "merge" => report'[t] = Changes(snapshots, Snap(notes[t]))'
      BY <1>2, <1>4 DEF new
    <2>3. pc[t] \in Early
      BY <1>1 DEF Early
    <2> QED
      BY <1>1, <1>2, <1>3, <1>9, <2>1, <2>2, <2>3 DEF Alone, Agrees, VectorsAgree, GraphAgrees,
                                                     SnapshotsAgree, FileList
  <1> QED  BY <1>1, <1>2, <1>3, <1>5, <1>6, <1>8, <1>9, RunStep

\* An undisturbed run on an index whose parts agree merges what it has read.
LEMMA MergeIsList ==
  ASSUME Inv, NEW t \in Threads, pc[t] = "merge", ghost[t].alone, ghost[t].base >= 1,
         DistinctIds(notes[t])
  PROVE  /\ report[t] = Difference(ById(notes[t]), store)
         /\ Merge(notes[t], report[t], store) = notes[t]
  <1>1. /\ ParsedOK(notes[t]) /\ ListOK(notes[t]) /\ StoreOK(store) /\ SnapshotsAgree
        /\ report[t] = Changes(snapshots, Snap(notes[t]))
    BY DEF Inv, Types, Local, Alone, Early, Agrees
  <1>2. snapshots = SnapFor(store)
    <2>1. /\ ListOK(Listed(store)) /\ DistinctIds(Listed(store))
          /\ ById(Listed(store)) = store
      BY <1>1, ListedIsList
    <2> QED  BY <1>1, <2>1, ListBuilds DEF SnapshotsAgree
  <1>3. report[t] = Difference(ById(notes[t]), store)
    BY <1>1, <1>2, ReportExact
  <1> QED  BY <1>1, <1>3, MergeChangesNothing

LEMMA MergeNotesKeeps ==
  ASSUME Inv, NEW t \in Threads, MergeNotes(t)
  PROVE  Inv'
  <1> DEFINE new == IF DOMAIN snapshots = {} THEN notes[t] ELSE Merge(notes[t], report[t], store)
  <1>1. /\ Types /\ Local(t) /\ Still(t) /\ Alone(t) /\ pc[t] = "merge"
        /\ ListOK(notes[t]) /\ StoreOK(store) /\ job[t].kind # "full"
    BY DEF Inv, MergeNotes, Local, Types
  <1>2. /\ notes' = [notes EXCEPT ![t] = new] /\ Goto(t, "replace") /\ "replace" \in Places
        /\ UNCHANGED <<files, store, vectors, adj, dangling, snapshots, job, walk, listed, report,
                       answer, ghost, calm>>
    BY DEF MergeNotes, fileVars, indexVars, ghostVars, Places, Early
  <1>3. ListOK(new) /\ DOMAIN new = DOMAIN notes[t]
    BY <1>1, MergeOK
  <1>4. ghost[t].alone /\ ghost[t].base >= 1 /\ DistinctIds(new) => new = notes[t]
    <2> SUFFICES ASSUME ghost[t].alone, ghost[t].base >= 1, DistinctIds(new) PROVE new = notes[t]
      OBVIOUS
    <2> HIDE DEF new
    <2>1. DistinctIds(notes[t])
      BY <1>1, <1>3 DEF DistinctIds, ListOK
    <2>2. Merge(notes[t], report[t], store) = notes[t]
      BY <1>1, <2>1, MergeIsList
    <2> QED  BY <2>2 DEF new
  <1> HIDE DEF new
  <1>5. /\ pc' \in [Threads -> Places] /\ pc'[t] = "replace"
        /\ \A u \in Threads \ {t} : pc'[u] = pc[u]
    BY <1>1, <1>2, GotoEffect
  <1>6. /\ notes'[t] = new /\ notes' = [u \in Threads |-> notes'[u]]
        /\ \A u \in Threads \ {t} : notes'[u] = notes[u]
    BY <1>1, <1>2 DEF Types
  <1>7. Types' /\ Others(t)
    BY <1>1, <1>2, <1>5, <1>6 DEF Types, Others
  <1>8. Local(t)' /\ Still(t)'
    BY <1>1, <1>2, <1>3, <1>5, <1>6 DEF Local, Still
  <1>9. ASSUME Active' = Active, ghost[t].alone PROVE Alone(t)'
    <2>1. Whole(t)'
      <3> SUFFICES ASSUME ghost[t].still, DistinctIds(new), ghost[t].base >= 1
                   PROVE  new = FileList
        BY <1>1, <1>2, <1>5, <1>6 DEF Whole, FileList
      <3>1. notes[t] = FileList
        BY <1>1 DEF Still
      <3> QED  BY <1>4, <1>9, <3>1
    <2>2. Built(t)'
      BY <1>5 DEF Built, Late
    <2>3. pc[t] \in Early
      BY <1>1 DEF Early
    <2> QED
      BY <1>1, <1>2, <1>5, <1>9, <2>1, <2>2, <2>3 DEF Alone, Agrees, VectorsAgree, GraphAgrees,
                                                     SnapshotsAgree, FileList
  <1> QED  BY <1>1, <1>2, <1>5, <1>7, <1>8, <1>9, RunStep

\* One field of a ghost is set.
LEMMA SetAlone ==
  ASSUME NEW g \in Ghost
  PROVE  LET n == [g EXCEPT !.alone = FALSE] IN
         n \in Ghost /\ n.alone = FALSE /\ n.still = g.still /\ n.base = g.base
  BY DEF Ghost
LEMMA SetStill ==
  ASSUME NEW g \in Ghost
  PROVE  LET n == [g EXCEPT !.still = FALSE] IN
         n \in Ghost /\ n.still = FALSE /\ n.alone = g.alone /\ n.base = g.base
  BY DEF Ghost

LEMMA WriteFileKeeps ==
  ASSUME Inv, NEW t \in Threads, WriteFile(t)
  PROVE  Inv'
  <1>1. /\ Types /\ Local(t) /\ Still(t) /\ Alone(t) /\ pc[t] = "write" /\ job[t].kind = "patch"
        /\ job[t] \in Jobs /\ job[t].path \in Paths /\ job[t].content \in Contents
        /\ notes[t] = Nothing /\ walk[t] = 1 /\ listed[t] = {}
    BY DEF Inv, WriteFile, Local, Types, Jobs
  <1>2. /\ files' = [files EXCEPT ![job[t].path] = job[t].content]
        /\ ghost' = [u \in Threads |-> IF u \in Active \ {t} THEN [ghost[u] EXCEPT !.still = FALSE]
                                                          ELSE ghost[u]]
        /\ Goto(t, "walk") /\ "walk" \in Places
        /\ UNCHANGED <<store, vectors, adj, dangling, snapshots, job, walk, listed, notes, report,
                       answer, calm>>
    BY DEF WriteFile, indexVars, Places, Early
  <1>3. /\ pc' \in [Threads -> Places] /\ pc'[t] = "walk"
        /\ \A u \in Threads \ {t} : pc'[u] = pc[u]
    BY <1>1, <1>2, GotoEffect
  <1>4. /\ files' \in [Paths -> Contents \cup {Absent, Unreadable}]
        /\ files'[job[t].path] = job[t].content
    BY <1>1, <1>2 DEF Types
  <1>5. /\ ghost' \in [Threads -> Ghost] /\ ghost'[t] = ghost[t]
        /\ \A u \in Threads \ {t} : /\ ghost'[u].alone => ghost[u].alone
                                    /\ pc[u] # "idle" => ~ghost'[u].still
    <2>1. \A u \in Threads : ghost[u] \in Ghost
      BY <1>1 DEF Types
    <2> QED  BY <1>2, <2>1, SetStill DEF Active
  <1>6. Types' /\ Others(t)
    BY <1>1, <1>2, <1>3, <1>4, <1>5 DEF Types, Others
  <1>7. \A u \in Threads \ {t} : Local(u)' /\ Still(u)' /\ Alone(u)'
    BY <1>1, <1>5, <1>6, OthersKeep, OthersNotAlone
  <1>8. Local(t)'
    BY <1>1, <1>2, <1>3, NothingOK DEF Local
  <1>9. Still(t)'
    <2>1. {p \in Paths : Folder[p] < 1 /\ files'[p] # Absent} = {}
      BY IndexAssumption
    <2>2. DOMAIN Nothing = {}
      BY DEF Nothing
    <2> QED  BY <1>1, <1>2, <1>3, <1>4, <2>1, <2>2 DEF Still
  <1>10. Active' = Active /\ t \in Active
    BY <1>1, <1>3 DEF Active
  <1>11. Alone(t)'
    <2>1. Whole(t)' /\ Built(t)'
      BY <1>3 DEF Whole, Built, Late
    <2>2. pc[t] \in Early
      BY <1>1 DEF Early
    <2> QED
      BY <1>1, <1>2, <1>3, <1>5, <1>10, <2>1, <2>2 DEF Alone, Agrees, VectorsAgree, GraphAgrees,
                                                     SnapshotsAgree
  <1>12. Heals'
    BY <1>10 DEF Heals
  <1> QED  BY <1>6, <1>7, <1>8, <1>9, <1>11, <1>12 DEF Inv

-----------------------------------------------------------------------------
(* Runs end. *)

LEMMA ReturnEffect ==
  ASSUME Types, NEW t \in Threads, Return(t)
  PROVE  /\ pc' \in [Threads -> Places] /\ job' \in [Threads -> Jobs]
         /\ walk' \in [Threads -> Nat] /\ listed' \in [Threads -> SUBSET Paths]
         /\ notes' = [u \in Threads |-> notes'[u]] /\ report' = [u \in Threads |-> report'[u]]
         /\ pc'[t] = "idle" /\ job'[t] = NoJob /\ walk'[t] = 1 /\ listed'[t] = {}
         /\ notes'[t] = Nothing
         /\ Others(t)
  BY NoJobIsJob DEF Types, Return, Goto, Places, Others

\* A run ends, well or badly, and leaves the index that calm' says.
LEMMA EndStep ==
  ASSUME Inv, NEW t \in Threads, pc[t] # "idle", Return(t), ghost' = [ghost EXCEPT ![t] = NoGhost],
         UNCHANGED <<files, store>>, answer' = [u \in Threads |-> answer'[u]], calm' \in 0..2,
         Active = {t} /\ calm' >= 1 => Agrees',
         Active = {t} /\ calm' = 2 => store = ById(FileList)
  PROVE  Inv'
  <1>1. Types
    BY DEF Inv
  <1>2. /\ ghost' \in [Threads -> Ghost] /\ \A u \in Threads \ {t} : ghost'[u] = ghost[u]
    BY <1>1, NoGhostIsGhost DEF Types
  <1>3. Types' /\ Others(t) /\ pc'[t] = "idle"
    BY <1>1, <1>2, ReturnEffect DEF Types
  <1>4. \A u \in Threads \ {t} : Local(u)' /\ Still(u)' /\ Alone(u)'
    BY <1>2, <1>3, OthersKeep, OthersNotAlone DEF Types
  <1>5. Local(t)' /\ Still(t)' /\ Alone(t)'
    BY <1>1, ReturnEffect, NothingOK, NoJobIsJob DEF Local, Still, Alone
  <1>6. Heals'
    <2> SUFFICES ASSUME Active' = {}
                 PROVE  (calm' >= 1 => Agrees') /\ (calm' = 2 => store' = ById(FileList)')
      BY DEF Heals, Agrees
    <2>1. Active = {t}
      BY <1>3 DEF Active, Others
    <2> QED  BY <2>1 DEF FileList
  <1> QED  BY <1>3, <1>4, <1>5, <1>6 DEF Inv

LEMMA MinOne ==
  ASSUME NEW n \in 0..2
  PROVE  Min({n, 1}) \in 0..1 /\ (Min({n, 1}) >= 1 => n >= 1)
  <1>1. \E x \in {n, 1} : \A y \in {n, 1} : x <= y
    BY SMT
  <1>2. Min({n, 1}) \in {n, 1} /\ \A y \in {n, 1} : Min({n, 1}) <= y
    BY <1>1 DEF Min
  <1> QED  BY <1>2

LEMMA GhostFailedEffect ==
  ASSUME Types, NEW t \in Threads, NEW untouched \in BOOLEAN, GhostFailed(t, untouched)
  PROVE  /\ calm' \in 0..2
         /\ calm' >= 1 => untouched /\ ghost[t].alone /\ ghost[t].base >= 1
         /\ calm' = 2 => ghost[t].still /\ job[t].kind # "patch" /\ ghost[t].base = 2
  <1>1. ghost[t].base \in 0..2
    BY DEF Types, Ghost
  <1> QED  BY <1>1, MinOne DEF GhostFailed

LEMMA FailKeeps ==
  ASSUME Inv, NEW t \in Threads,
         WalkRaises(t) \/ ReplaceRaises(t) \/ ResolveRaises(t) \/ SaveRaises(t)
  PROVE  Inv'
  <1> DEFINE untouched == pc[t] \in Early
  <1>1. /\ pc[t] # "idle" /\ Return(t) /\ GhostFailed(t, untouched)
        /\ UNCHANGED <<files, store, answer>>
        /\ untouched => UNCHANGED <<vectors, adj, dangling, snapshots>>
    <2>1. CASE WalkRaises(t) \/ ReplaceRaises(t)
      <3>1. untouched = TRUE
        BY <2>1 DEF WalkRaises, ReplaceRaises, Early
      <3>2. pc[t] # "idle" /\ Fail(t, TRUE) /\ UNCHANGED indexVars
        BY <2>1 DEF WalkRaises, ReplaceRaises
      <3> HIDE DEF untouched
      <3> QED  BY <3>1, <3>2 DEF Fail, fileVars, indexVars
    <2>2. CASE ResolveRaises(t) \/ SaveRaises(t)
      <3>0. pc[t] \in {"resolve", "save"}
        BY <2>2 DEF ResolveRaises, SaveRaises
      <3>1. untouched = FALSE
        BY <3>0 DEF Early
      <3>2. pc[t] # "idle" /\ Fail(t, FALSE) /\ UNCHANGED store
        BY <2>2 DEF ResolveRaises, SaveRaises, indexVars
      <3> HIDE DEF untouched
      <3> QED  BY <3>1, <3>2 DEF Fail, fileVars
    <2> QED  BY <2>1, <2>2
  <1>2. Types /\ Alone(t) /\ untouched \in BOOLEAN
    BY DEF Inv
  <1>3. /\ calm' \in 0..2
        /\ calm' >= 1 => untouched /\ ghost[t].alone /\ ghost[t].base >= 1
        /\ calm' = 2 => ghost[t].still /\ job[t].kind # "patch" /\ ghost[t].base = 2
    BY <1>1, <1>2, GhostFailedEffect
  <1>4. calm' >= 1 => Agrees'
    BY <1>1, <1>2, <1>3 DEF Alone, Agrees, VectorsAgree, GraphAgrees, SnapshotsAgree
  <1>5. calm' = 2 => store = ById(FileList)
    BY <1>1, <1>2, <1>3 DEF Alone
  <1>6. ghost' = [ghost EXCEPT ![t] = NoGhost] /\ answer' = [u \in Threads |-> answer'[u]]
    BY <1>1, <1>2 DEF GhostFailed, Types
  <1> QED  BY <1>1, <1>3, <1>4, <1>5, <1>6, EndStep

\* A run that has done everything, and returns.
LEMMA DoneStep ==
  ASSUME Inv, NEW t \in Threads, pc[t] \in Late, Return(t), GhostDone(t),
         UNCHANGED <<files, store, vectors, adj, dangling, snapshots>>,
         answer' = [u \in Threads |-> answer'[u]],
         pc[t] \in {"save", "answer"}
  PROVE  Inv'
  <1>1. Types /\ Alone(t) /\ ListOK(notes[t]) /\ pc[t] # "idle"
    BY DEF Inv, Local, Late
  <1>2. /\ calm' \in 0..2
        /\ calm' >= 1 => ghost[t].alone /\ DistinctIds(notes[t])
        /\ calm' = 2 => ghost[t].still /\ (job[t].kind = "full" \/ ghost[t].base >= 1)
    BY DEF GhostDone
  <1>3. calm' >= 1 => Agrees
    BY <1>1, <1>2, BuiltAgrees DEF Alone, Built, Late
  <1>4. calm' = 2 => store = ById(FileList)
    BY <1>1, <1>2 DEF Alone, Built, Whole, Late
  <1>5. Agrees => Agrees'
    BY DEF Agrees, VectorsAgree, GraphAgrees, SnapshotsAgree
  <1>6. ghost' = [ghost EXCEPT ![t] = NoGhost]
    BY DEF GhostDone
  <1> QED  BY <1>1, <1>2, <1>3, <1>4, <1>5, <1>6, EndStep

LEMMA SaveKeeps ==
  ASSUME Inv, NEW t \in Threads, Save(t)
  PROVE  Inv'
  <1>1. /\ pc[t] = "save" /\ pc[t] \in Late /\ Types
        /\ UNCHANGED <<files, store, vectors, adj, dangling, snapshots, answer>>
    BY DEF Inv, Save, fileVars, Late
  <1>2. CASE job[t].kind = "patch"
    <2>1. /\ Goto(t, "answer") /\ UNCHANGED <<job, walk, listed, notes, report, ghost, calm>>
          /\ pc'[t] = "answer" /\ "answer" \in Late /\ StoreOK(store')
      BY <1>1, <1>2 DEF Save, Late, ghostVars, Types, Goto
    <2>2. Built(t) => Built(t)'
      BY <1>1, <2>1 DEF Built
    <2> QED  BY <1>1, <1>2, <2>1, <2>2, BuildStep
  <1>3. CASE job[t].kind # "patch"
    <2>1. Return(t) /\ GhostDone(t) /\ answer' = [u \in Threads |-> answer'[u]]
      BY <1>1, <1>3 DEF Save, Types
    <2> QED  BY <1>1, <2>1, DoneStep
  <1> QED  BY <1>2, <1>3

LEMMA AnswerKeeps ==
  ASSUME Inv, NEW t \in Threads, Answer(t)
  PROVE  Inv'
  <1>1. /\ pc[t] = "answer" /\ pc[t] \in Late /\ Types /\ Return(t) /\ GhostDone(t)
        /\ UNCHANGED <<files, store, vectors, adj, dangling, snapshots>>
    BY DEF Inv, Answer, fileVars, indexVars, Late
  <1>2. answer' = [u \in Threads |-> answer'[u]]
    BY <1>1 DEF Answer, Types
  <1> QED  BY <1>1, <1>2, DoneStep

-----------------------------------------------------------------------------
(* Runs begin. *)

\* A run begins; whoever was running is alone no longer.
LEMMA BeginStep ==
  ASSUME Inv, NEW t \in Threads, NEW x \in {"write", "walk"}, NEW j \in Jobs,
         pc[t] = "idle", Goto(t, x), GhostBegin(t), job' = [job EXCEPT ![t] = j],
         answer' = [answer EXCEPT ![t] = NoContent],
         UNCHANGED <<files, store, vectors, adj, dangling, snapshots, walk, listed, notes, report>>,
         x = "write" <=> j.kind = "patch",
         j.kind = "patch" => Stem[j.path] = j.id /\ j.content \in Contents
  PROVE  Inv'
  <1>1. /\ Types /\ Local(t) /\ notes[t] = Nothing /\ walk[t] = 1 /\ listed[t] = {}
        /\ x \in Places /\ calm \in 0..2
    BY DEF Inv, Local, Types, Places, Early
  <1>2. /\ pc' \in [Threads -> Places] /\ pc'[t] = x
        /\ \A u \in Threads \ {t} : pc'[u] = pc[u]
    BY <1>1, GotoEffect
  <1>3. /\ job' \in [Threads -> Jobs] /\ job'[t] = j
        /\ \A u \in Threads \ {t} : job'[u] = job[u]
    BY <1>1 DEF Types
  <1>4. /\ ghost' \in [Threads -> Ghost]
        /\ ghost'[t].alone = (Active = {}) /\ ghost'[t].base = calm
        /\ \A u \in Threads \ {t} : /\ ghost'[u].still = ghost[u].still
                                    /\ pc[u] # "idle" => ~ghost'[u].alone
    <2>1. \A u \in Threads : ghost[u] \in Ghost
      BY <1>1 DEF Types
    <2> QED  BY <1>1, <2>1, SetAlone DEF GhostBegin, Active, Ghost
  <1>5. Types' /\ Others(t)
    <2>1. calm' = 0
      BY DEF GhostBegin
    <2>2. answer' = [u \in Threads |-> answer'[u]]
      BY <1>1 DEF Types
    <2> QED  BY <1>1, <1>2, <1>3, <1>4, <2>1, <2>2 DEF Types, Others
  <1>6. ASSUME NEW u \in Threads \ {t} PROVE Local(u)' /\ Still(u)' /\ Alone(u)'
    <2>1. Local(u)' /\ Still(u)'
      BY <1>4, <1>5, OthersKeep DEF Types
    <2>2. pc'[u] # "idle" => ~ghost'[u].alone
      BY <1>2, <1>4
    <2> QED  BY <2>1, <2>2 DEF Alone
  <1>7. Local(t)'
    BY <1>1, <1>2, <1>3, NothingOK DEF Local
  <1>8. Still(t)'
    <2>1. {p \in Paths : Folder[p] < 1 /\ files[p] # Absent} = {}
      BY IndexAssumption
    <2>2. DOMAIN Nothing = {}
      BY DEF Nothing
    <2> QED  BY <1>1, <1>2, <1>3, <2>1, <2>2 DEF Still
  <1>9. t \in Active' /\ (Active = {} => Active' = {t})
    BY <1>2 DEF Active
  <1>10. Alone(t)'
    <2>1. Whole(t)' /\ Built(t)'
      BY <1>2 DEF Whole, Built, Late
    <2>2. Active = {} => (calm >= 1 => Agrees) /\ (calm = 2 => store = ById(FileList))
      BY DEF Inv, Heals, Agrees
    <2>3. Agrees => Agrees'
      BY DEF Agrees, VectorsAgree, GraphAgrees, SnapshotsAgree
    <2> QED
      BY <1>2, <1>4, <1>9, <2>1, <2>2, <2>3 DEF Alone, FileList
  <1>11. Heals'
    BY <1>9 DEF Heals
  <1> QED  BY <1>5, <1>6, <1>7, <1>8, <1>10, <1>11 DEF Inv

LEMMA BeginKeeps ==
  ASSUME Inv, NEW t \in Threads, Request(t)
  PROVE  Inv'
  <1>1. CASE \E kind \in {"full", "incremental"} : Begin(t, kind)
    <2>1. PICK kind \in {"full", "incremental"} : Begin(t, kind)
      BY <1>1
    <2> DEFINE j == [NoJob EXCEPT !.kind = kind]
    <2>2. j \in Jobs /\ j.kind = kind
      BY NoJobIsJob DEF Jobs
    <2>3. job' = [job EXCEPT ![t] = j] /\ j.kind # "patch"
      BY <2>1, <2>2 DEF Begin
    <2> HIDE DEF j
    <2> QED  BY <2>1, <2>2, <2>3, BeginStep DEF Begin, fileVars, indexVars
  <1>2. CASE \E i \in Ids, c \in Contents : BeginPatch(t, i, c)
    <2>1. PICK i \in Ids, c \in Contents : BeginPatch(t, i, c)
      BY <1>2
    <2> DEFINE j == [kind |-> "patch", id |-> i, path |-> store[i].path, content |-> c]
    <2>2. i \in Nat /\ store[i].path \in Paths /\ Stem[store[i].path] = i
      BY <2>1, IndexAssumption DEF Inv, Types, StoreOK, Note, IdOf, BeginPatch, Ids
    <2>3. j \in Jobs /\ j.kind = "patch" /\ Stem[j.path] = j.id /\ j.content \in Contents
      BY <2>2 DEF Jobs
    <2>4. job' = [job EXCEPT ![t] = j]
      BY <2>1 DEF BeginPatch
    <2> HIDE DEF j
    <2> QED  BY <2>1, <2>3, <2>4, BeginStep DEF BeginPatch, fileVars, indexVars
  <1> QED  BY <1>1, <1>2 DEF Request

-----------------------------------------------------------------------------
(* The world. *)

\* Files change outside a PATCH.
LEMMA ChangeStep ==
  ASSUME Inv, GhostEdit, files' \in [Paths -> Contents \cup {Absent, Unreadable}],
         UNCHANGED <<store, vectors, adj, dangling, snapshots, pc, job, walk, listed, notes, report,
                     answer>>
  PROVE  Inv'
  <1>1. Types /\ calm \in 0..2
    BY DEF Inv, Types
  <1>2. calm' \in 0..1 /\ (calm' >= 1 => calm >= 1)
    BY <1>1, MinOne DEF GhostEdit
  <1>3. /\ ghost' \in [Threads -> Ghost]
        /\ \A u \in Threads : /\ pc[u] # "idle" => ~ghost'[u].still
                              /\ ghost'[u].alone = ghost[u].alone
                              /\ ghost'[u].base = ghost[u].base
    <2>1. \A u \in Threads : ghost[u] \in Ghost
      BY <1>1 DEF Types
    <2> QED  BY <2>1, SetStill DEF GhostEdit, Active
  <1>4. Types'
    <2>1. calm' \in 0..2
      BY <1>2
    <2> QED  BY <1>1, <1>3, <2>1 DEF Types
  <1>5. Agrees => Agrees'
    BY DEF Agrees, VectorsAgree, GraphAgrees, SnapshotsAgree
  <1>6. ASSUME NEW u \in Threads PROVE Local(u)' /\ Still(u)' /\ Alone(u)'
    <2>1. Local(u) /\ Alone(u)
      BY DEF Inv
    <2>2. Local(u)'
      BY <2>1 DEF Local
    <2>3. Still(u)'
      BY <1>3 DEF Still
    <2>4. Active' = Active
      BY DEF Active
    <2>5. Built(u) => Built(u)'
      BY DEF Built
    <2>6. pc[u] # "idle" => Whole(u)'
      BY <1>3 DEF Whole
    <2>7. Alone(u)'
      BY <1>3, <1>5, <2>1, <2>4, <2>5, <2>6 DEF Alone
    <2> QED  BY <2>2, <2>3, <2>7
  <1>7. Heals'
    <2>1. Active' = Active /\ calm' # 2
      BY <1>2 DEF Active
    <2>2. Active = {} /\ calm >= 1 => Agrees
      BY DEF Inv, Heals, Agrees
    <2> QED  BY <1>2, <1>5, <2>1, <2>2 DEF Heals, Agrees
  <1> QED  BY <1>4, <1>6, <1>7 DEF Inv

LEMMA RestartKeeps ==
  ASSUME Inv, Restart
  PROVE  Inv'
  <1> DEFINE list == Listed(store')
  <1>1. Types /\ calm \in 0..2
    BY DEF Inv, Types
  <1>2. StoreOK(store')
    BY <1>1, NothingOK DEF Restart, Types
  <1>3. /\ vectors' = VectorsOf(list) /\ adj' = GraphOf(list)
        /\ dangling' = Dangling(list, IdsIn(list))
        /\ list # Nothing => snapshots' = Snap(list)
        /\ calm' = IF DOMAIN store' # {} THEN 1 ELSE 0
        /\ UNCHANGED <<files, answer>>
    BY DEF Restart, fileVars
  <1>4. /\ pc' = [t \in Threads |-> "idle"] /\ job' = [t \in Threads |-> NoJob]
        /\ walk' = [t \in Threads |-> 1] /\ listed' = [t \in Threads |-> {}]
        /\ notes' = [t \in Threads |-> Nothing] /\ report' = [t \in Threads |-> NoReport]
        /\ ghost' = [t \in Threads |-> NoGhost]
    BY DEF Restart
  <1>5. DOMAIN store' # {} => list # Nothing
    BY <1>2, ListedIsList
  <1>6. calm' >= 1 => Agrees'
    BY <1>3, <1>5 DEF Agrees, VectorsAgree, GraphAgrees, SnapshotsAgree
  <1> HIDE DEF list
  <1>7. calm' \in 0..1
    BY <1>3
  <1>8. Types'
    <2>1. calm' \in 0..2
      BY <1>7
    <2> QED  BY <1>1, <1>2, <1>3, <1>4, <2>1, NoJobIsJob, NoGhostIsGhost DEF Types, Places
  <1>9. ASSUME NEW u \in Threads PROVE Local(u)' /\ Still(u)' /\ Alone(u)'
    BY <1>4, NothingOK, NoJobIsJob DEF Local, Still, Alone
  <1>10. Heals'
    <2>1. calm' # 2
      BY <1>7
    <2> QED  BY <1>6, <2>1 DEF Heals, Agrees
  <1> QED  BY <1>8, <1>9, <1>10 DEF Inv

LEMMA WorldKeeps ==
  ASSUME Inv, World
  PROVE  Inv'
  <1>1. files \in [Paths -> Contents \cup {Absent, Unreadable}]
    BY DEF Inv, Types
  <1>2. CASE \E p \in Paths, c \in Contents \cup {Absent, Unreadable} : EditFile(p, c)
    BY <1>1, <1>2, ChangeStep DEF EditFile, indexVars, threadVars
  <1>3. CASE \E p, q \in Paths : MoveFile(p, q)
    <2>1. PICK p, q \in Paths : MoveFile(p, q)
      BY <1>3
    <2>2. files' \in [Paths -> Contents \cup {Absent, Unreadable}]
      BY <1>1, <2>1 DEF MoveFile
    <2> QED  BY <2>1, <2>2, ChangeStep DEF MoveFile, indexVars, threadVars
  <1>4. CASE Restart
    BY <1>4, RestartKeeps
  <1> QED  BY <1>2, <1>3, <1>4 DEF World

LEMMA InvInit == Init => Inv
  <1> SUFFICES ASSUME Init PROVE Inv
    OBVIOUS
  <1>1. Types
    BY NothingOK, NoJobIsJob, NoGhostIsGhost DEF Init, Types, Places
  <1>2. ASSUME NEW t \in Threads PROVE Local(t) /\ Still(t) /\ Alone(t)
    BY NothingOK, NoJobIsJob DEF Init, Local, Still, Alone
  <1>3. FileList = Nothing /\ Listed(Nothing) = Nothing
    <2>1. {p \in Paths : files[p] # Absent} = {}
      BY DEF Init
    <2>2. FileList = Nothing
      BY <2>1 DEF FileList, Nothing
    <2>3. Listed(Nothing) = Nothing
      BY DEF Listed, Nothing
    <2> QED  BY <2>2, <2>3
  <1>4. IdsIn(Nothing) = {} /\ ById(Nothing) = Nothing
    BY DEF IdsIn, ById, Nothing
  <1>5. /\ VectorsOf(Nothing) = Nothing /\ GraphOf(Nothing) = Nothing
        /\ Dangling(Nothing, {}) = {} /\ Snap(Nothing) = Nothing
    BY <1>4 DEF VectorsOf, AddChunks, GraphOf, AddLinks, Register, Dangling, Snap, Nothing
  <1>6. Heals
    BY <1>3, <1>4, <1>5 DEF Init, Heals, VectorsAgree, GraphAgrees, SnapshotsAgree
  <1> QED  BY <1>1, <1>2, <1>6 DEF Inv

LEMMA InvStep == Inv /\ [Next]_vars => Inv'
  <1> SUFFICES ASSUME Inv, [Next]_vars PROVE Inv'
    OBVIOUS
  <1>1. CASE World
    BY <1>1, WorldKeeps
  <1>2. ASSUME NEW t \in Threads, Request(t) PROVE Inv'
    BY <1>2, BeginKeeps
  <1>3. ASSUME NEW t \in Threads, Step(t) PROVE Inv'
    BY <1>3, WriteFileKeeps, ListFolderKeeps, ReadFileKeeps, FailKeeps, CompareKeeps,
       MergeNotesKeeps, BuildKeeps, SaveKeeps, AnswerKeeps DEF Step
  <1>4. CASE UNCHANGED vars
    <2>1. UNCHANGED <<files, store, vectors, adj, dangling, snapshots, pc, job, walk, listed, notes,
                      report, answer, ghost, calm>>
      BY <1>4 DEF vars
    <2>2. Types' /\ Heals'
      BY <2>1 DEF Inv, Types, Heals, VectorsAgree, GraphAgrees, SnapshotsAgree, FileList, Active
    <2>3. ASSUME NEW t \in Threads PROVE Local(t)' /\ Still(t)' /\ Alone(t)'
      <3>1. Local(t) /\ Still(t) /\ Alone(t)
        BY DEF Inv
      <3>2. Local(t)' /\ Still(t)'
        BY <2>1, <3>1 DEF Local, Still, FileList
      <3>3. (Whole(t) => Whole(t)') /\ (Built(t) => Built(t)') /\ (Agrees => Agrees')
        BY <2>1 DEF Whole, Built, Agrees, VectorsAgree, GraphAgrees, SnapshotsAgree, FileList
      <3> QED  BY <2>1, <3>1, <3>2, <3>3 DEF Alone, Active, FileList
    <2> QED  BY <2>2, <2>3 DEF Inv
  <1> QED  BY <1>1, <1>2, <1>3, <1>4 DEF Next

LEMMA InvAlways == Spec => []Inv
  BY InvInit, InvStep, PTL DEF Spec

\* engine.py:213, index_vault: after an undisturbed run of notes with distinct ids
\* the vectors, the graph and the snapshots are those of the stored notes, whatever
\* runs, failures and restarts did before; after such a full one, or two incremental
\* ones, the notes are those of the files.
THEOREM IndexHeals == Spec => []Heals
  <1>1. Inv => Heals
    BY DEF Inv
  <1> QED  BY <1>1, InvAlways, PTL

\* engine.py, _changes: an undisturbed incremental run from an index whose parts
\* agree reports exactly the notes that differ, each once.
THEOREM ReportsAreExact == Spec => []ReportIsExact
  <1>1. Inv => ReportIsExact
    BY MergeIsList DEF ReportIsExact, Difference
  <1> QED  BY <1>1, InvAlways, PTL

\* engine.py, update_note: an undisturbed PATCH from an index whose parts agree
\* answers with the text it was given.
THEOREM PatchesAnswerNewText == Spec => PatchAnswersNewText
  <1>1. ASSUME Inv, NEW t \in Threads, Answer(t), ghost[t].alone, ghost[t].still, ghost[t].base >= 1,
               DistinctIds(notes[t])
        PROVE  answer'[t] = job[t].content
    <2> DEFINE p == job[t].path
    <2>1. /\ Types /\ pc[t] = "answer" /\ job[t].kind = "patch" /\ ListOK(notes[t])
          /\ store = ById(notes[t]) /\ notes[t] = FileList /\ files[p] = job[t].content
          /\ Stem[p] = job[t].id /\ p \in Paths /\ job[t].content \in Contents
      BY <1>1 DEF Inv, Local, Still, Alone, Whole, Built, Late, Types, Jobs, Answer
    <2>2. p \in DOMAIN FileList /\ FileList[p].content = job[t].content
      BY <2>1, IndexAssumption DEF FileList
    <2> HIDE DEF p
    <2>3. job[t].id \in DOMAIN store /\ store[job[t].id].content = job[t].content
      BY <1>1, <2>1, <2>2, ByIdDistinct, ByIdOK
    <2>4. answer' = [answer EXCEPT ![t] = job[t].content]
      BY <1>1, <2>3 DEF Answer
    <2> QED  BY <2>1, <2>4 DEF Types
  <1>2. Inv /\ [Next]_vars =>
          [\A t \in Threads :
             (/\ Answer(t) /\ ghost[t].alone /\ ghost[t].still /\ ghost[t].base >= 1
              /\ DistinctIds(notes[t]))
               => answer'[t] = job[t].content]_vars
    BY <1>1
  <1> QED  BY <1>2, InvAlways, PTL DEF Spec, PatchAnswersNewText

=============================================================================
