----------------------------- MODULE Retrieval -----------------------------
(***************************************************************************)
(* One request that reads (search, chat, a note with its backlinks, the    *)
(* graph) while runs of the indexer replace the notes, the vectors and the *)
(* graph of its vault, one after the other and without a lock.  Runs may   *)
(* overlap and may raise half way: what they leave then stays until a run  *)
(* that is alone ends well.                                                *)
(*                                                                         *)
(* The query is one word, the same in every request.  A note's text is     *)
(* what the query finds in it: whether its title is the word or has it,    *)
(* how often it occurs, a tag of that name, and the similarity of each     *)
(* chunk; and the notes it links to.  Scores are in tenths.                *)
(***************************************************************************)
EXTENDS Integers, SequencesExt

CONSTANTS Ids,        \* note ids, in order
          Vaults,     \* what a run may find: functions from some ids to texts
          InitVaults, \* what is indexed at the start
          Runners,    \* threads that index
          Limit,
          MaxRuns      \* bound

Text == [title : {"is", "has", "no"}, count : Nat, tagged : BOOLEAN,
         chunks : Seq(Int), links : Seq(Ids)]

ASSUME LimitAssumption == Ids \subseteq Nat /\ Limit \in Nat \ {0}
ASSUME VaultsAssumption ==
  \A v \in Vaults \cup InitVaults :
    v \in [DOMAIN v -> Text] /\ DOMAIN v \subseteq Ids /\ IsFiniteSet(DOMAIN v)

VARIABLES
  pgvector,   \* vectors are in a table; else in a dict of the process
  store,      \* the notes, by id
  vectors,    \* chunks in the order of the dict, or the rows of the table
  graphs,     \* every adjacency dict made so far; the last one is adj_list
  dangling,   \* _dangling
  run,        \* a runner's step, what is left of its loop, and whether it
              \* has been the only one under way
  settled,    \* (history) the last to replace the notes was alone and ended
  read,       \* the request: its step, its local variables, what it answers
  runs

vars == <<pgvector, store, vectors, graphs, dangling, run, settled, read, runs>>
index == <<store, vectors, graphs, dangling>>

-----------------------------------------------------------------------------
(* Ranking. *)

InOrder(S, Before(_, _)) ==
  [k \in 1..Cardinality(S) |->
     CHOOSE i \in S : Cardinality({j \in S : Before(j, i)}) = k - 1]

\* What a comprehension leaves of a list: the items at the positions I.
Select(items, I) ==
  LET order == InOrder(I, <)
  IN  [k \in DOMAIN order |-> items[order[k]]]

NotesOf(vault) ==
  LET ids == InOrder(DOMAIN vault, <)
  IN  [k \in DOMAIN ids |-> [id |-> ids[k], text |-> vault[ids[k]]]]

\* list.sort(reverse=True) keeps equal items in their order.
Ranked(items) ==
  LET Before(i, j) == \/ items[i].score > items[j].score
                      \/ items[i].score = items[j].score /\ i < j
      order == InOrder(DOMAIN items, Before)
  IN  [k \in DOMAIN order |-> items[order[k]]]

Top(items, n) == SubSeq(items, 1, IF n < Len(items) THEN n ELSE Len(items))

Result(note, score, match, snippet) ==
  [id |-> note.id, content |-> note.text, score |-> score, match |-> match, snippet |-> snippet]

Lexical(text) ==
  10 * ( (CASE text.title = "is" -> 100 [] text.title = "has" -> 50 [] OTHER -> 0)
       + 2 * text.count
       + (IF text.title # "no" THEN 5 ELSE 0) + (IF text.tagged THEN 8 ELSE 0) + text.count )

KeywordSearch(notes) ==
  LET scored == [k \in DOMAIN notes |->
                   Result(notes[k], Lexical(notes[k].text), "keyword", notes[k].text)]
  IN  Top(Ranked(Select(scored, {k \in DOMAIN scored : scored[k].score > 0})), Limit)

\* A note without chunks has one vector, of nothing.
ChunksOf(note) ==
  LET scores == IF note.text.chunks = <<>> THEN <<0>> ELSE note.text.chunks
  IN  [k \in DOMAIN scores |->
         [chunk |-> <<note.id, k>>, score |-> scores[k], text |-> note.text]]

AllChunks(notes) == FlattenSeq([k \in DOMAIN notes |-> ChunksOf(notes[k])])

\* (Mutant of Fetched: as many chunks as notes are wanted.)
FetchedNoMore(records) == Top(Ranked(records), Limit)
Fetched(records) == Top(Ranked(records), 4 * Limit)

\* (Mutant of RollUp: every chunk is a result.)
RollUpEveryChunk(notes, hits) ==
  LET known == Select(hits, {i \in DOMAIN hits :
                               \E k \in DOMAIN notes : notes[k].id = hits[i].chunk[1]})
      Of(id) == CHOOSE n \in {notes[k] : k \in DOMAIN notes} : n.id = id
  IN  Top([k \in DOMAIN known |->
             Result(Of(known[k].chunk[1]), known[k].score, "semantic", known[k].text)], Limit)
\* Hits of notes that are not in the list are skipped; of the others the best
\* chunk counts, the earlier one of two that are equal.
RollUp(notes, hits) ==
  LET known == Select(hits, {i \in DOMAIN hits :
                               \E k \in DOMAIN notes : notes[k].id = hits[i].chunk[1]})
      firsts == InOrder({i \in DOMAIN known :
                           \A j \in 1..i-1 : known[j].chunk[1] # known[i].chunk[1]}, <)
      OfNote(id) == {i \in DOMAIN known : known[i].chunk[1] = id}
      Best(id) == known[CHOOSE i \in OfNote(id) :
                          \A j \in OfNote(id) : \/ known[j].score < known[i].score
                                                \/ known[j].score = known[i].score /\ i <= j]
      Of(id) == CHOOSE n \in {notes[k] : k \in DOMAIN notes} : n.id = id
  IN  Top(Ranked([k \in DOMAIN firsts |->
                    LET id == known[firsts[k]].chunk[1]
                    IN  Result(Of(id), Best(id).score, "semantic", Best(id).text)]), Limit)

\* (Mutant of Merged: a note both find counts with its similarity.)
MergedBySimilarity(keyword, semantic) ==
  Top(Ranked(Select(keyword, {i \in DOMAIN keyword :
                               \A k \in DOMAIN semantic : semantic[k].id # keyword[i].id})
             \o semantic), Limit)
Merged(keyword, semantic) ==
  Top(Ranked(keyword
             \o Select(semantic, {i \in DOMAIN semantic :
                                  \A k \in DOMAIN keyword : keyword[k].id # semantic[i].id})),
      Limit)

\* (Mutant of Found: chat knows what the vectors find.)
FoundBySimilarity(kind, notes, hits) ==
  CASE kind = "keyword" -> KeywordSearch(notes)
    [] kind = "hybrid" -> Merged(KeywordSearch(notes), RollUp(notes, hits))
    [] OTHER -> RollUp(notes, hits)
\* What a request makes of its notes and of the chunks its query gave it.
Found(kind, notes, hits) ==
  LET semantic == RollUp(notes, hits)
      keyword == KeywordSearch(notes)
  IN  CASE kind = "keyword" -> keyword
        [] kind = "semantic" -> semantic
        [] kind = "hybrid" -> Merged(keyword, semantic)
        [] OTHER -> IF semantic = <<>> THEN keyword ELSE semantic

-----------------------------------------------------------------------------
(* The indexing runs: replace_all, build_vector_store, build_graph. *)

adj == graphs[Len(graphs)]
IdsOf(items) == {items[k].id : k \in DOMAIN items}
NoRun == [step |-> "idle", vault |-> <<>>, todo |-> <<>>, alone |-> FALSE]
Ran(w, step, todo) == run' = [run EXCEPT ![w].step = step, ![w].todo = todo]
Quiet == \A w \in Runners : run[w].step = "idle"
Reading == read.step \notin {"idle", "done"}

\* A request is marked when a run is under way with it.
BeginRun(w, v) ==
  /\ run[w].step = "idle" /\ runs < MaxRuns
  /\ run' = [u \in Runners |->
               IF u = w THEN [step |-> "replace", vault |-> v, todo |-> <<>>, alone |-> Quiet]
               ELSE [run[u] EXCEPT !.alone = FALSE]]
  /\ runs' = runs + 1
  /\ read' = IF Reading THEN [read EXCEPT !.met = TRUE] ELSE read
  /\ UNCHANGED <<pgvector, index, settled>>

Working == UNCHANGED <<pgvector, read, runs>>
Building == Working /\ UNCHANGED settled

\* The transaction of replace_all, in one step: runs that overlap in it leave
\* no settled store either way.
Replace(w) ==
  /\ run[w].step = "replace"
  /\ store' = run[w].vault /\ settled' = FALSE
  /\ Ran(w, "clear", <<>>)
  /\ UNCHANGED <<vectors, graphs, dangling>> /\ Working

\* (Mutant of ClearVectors: what an earlier run added stays.)
ClearVectorsNot(w) ==
  /\ run[w].step = "clear"
  /\ Ran(w, "add", AllChunks(NotesOf(run[w].vault)))
  /\ UNCHANGED <<store, vectors, graphs, dangling>> /\ Building
ClearVectors(w) ==
  /\ run[w].step = "clear"
  /\ vectors' = <<>>
  /\ Ran(w, "add", AllChunks(NotesOf(run[w].vault)))
  /\ UNCHANGED <<store, graphs, dangling>> /\ Building

\* Keyed by chunk id: a chunk that is there is replaced where it stands.
Added(records, c) ==
  IF \E k \in DOMAIN records : records[k].chunk = c.chunk
    THEN [k \in DOMAIN records |-> IF records[k].chunk = c.chunk THEN c ELSE records[k]]
    ELSE Append(records, c)

AddVector(w) ==
  /\ run[w].step = "add" /\ run[w].todo # <<>>
  /\ vectors' = Added(vectors, Head(run[w].todo))
  /\ Ran(w, "add", Tail(run[w].todo))
  /\ UNCHANGED <<store, graphs, dangling>> /\ Building

\* (Mutant of ResetGraph: the dangling links of the run before stay.)
ResetGraphOnly(w) ==
  /\ run[w].step = "add" /\ run[w].todo = <<>>
  /\ graphs' = Append(graphs, <<>>)
  /\ Ran(w, "register", NotesOf(run[w].vault))
  /\ UNCHANGED <<store, vectors, dangling>> /\ Building
\* adj_list is a new dict; whoever iterates the old one goes on with it, but
\* another run that builds goes on with the new one.
ResetGraph(w) ==
  /\ run[w].step = "add" /\ run[w].todo = <<>>
  /\ graphs' = Append(graphs, <<>>)
  /\ dangling' = {}
  /\ Ran(w, "register", NotesOf(run[w].vault))
  /\ UNCHANGED <<store, vectors>> /\ Building

\* setdefault: a key that another run has put there keeps its links.
Registered(dict, id) ==
  IF id \in IdsOf(dict) THEN dict ELSE Append(dict, [id |-> id, dests |-> {}])

Register(w) ==
  /\ run[w].step = "register" /\ run[w].todo # <<>>
  /\ graphs' = [graphs EXCEPT ![Len(graphs)] = Registered(@, Head(run[w].todo).id)]
  /\ Ran(w, "register", Tail(run[w].todo))
  /\ UNCHANGED <<store, vectors, dangling>> /\ Building

LinksOf(notes) ==
  FlattenSeq([k \in DOMAIN notes |->
    [l \in DOMAIN notes[k].text.links |-> <<notes[k].id, notes[k].text.links[l]>>]])

WithLink(dict, link) ==
  [k \in DOMAIN dict |-> IF dict[k].id = link[1]
                           THEN [dict[k] EXCEPT !.dests = @ \cup {link[2]}] ELSE dict[k]]

AddLink(w) ==
  /\ run[w].step = "link" /\ run[w].todo # <<>> /\ Head(run[w].todo)[1] \in IdsOf(adj)
  /\ graphs' = [graphs EXCEPT ![Len(graphs)] = WithLink(@, Head(run[w].todo))]
  /\ IF Head(run[w].todo)[2] \in DOMAIN run[w].vault
       THEN Ran(w, "link", Tail(run[w].todo)) ELSE Ran(w, "dangling", run[w].todo)
  /\ UNCHANGED <<store, vectors, dangling>> /\ Building

AddDangling(w) ==
  /\ run[w].step = "dangling"
  /\ dangling' = dangling \cup {Head(run[w].todo)}
  /\ Ran(w, "link", Tail(run[w].todo))
  /\ UNCHANGED <<store, vectors, graphs>> /\ Building

EndPass(w) ==
  /\ run[w].todo = <<>>
  /\ \/ /\ run[w].step = "register" /\ Ran(w, "link", LinksOf(NotesOf(run[w].vault)))
        /\ UNCHANGED settled
     \/ run[w].step = "link" /\ run' = [run EXCEPT ![w] = NoRun] /\ settled' = run[w].alone
  /\ UNCHANGED index /\ Working

\* The run raises: before its notes are stored, in the table of vectors, in the
\* provider for a note without chunks, or with KeyError because another run's
\* reset took the key away.
RunRaises(w) ==
  /\ \/ run[w].step = "replace"
     \/ run[w].step = "clear" /\ pgvector
     \/ /\ run[w].step = "add" /\ run[w].todo # <<>>
        /\ pgvector \/ Head(run[w].todo).text.chunks = <<>>
     \/ run[w].step = "link" /\ run[w].todo # <<>> /\ Head(run[w].todo)[1] \notin IdsOf(adj)
  /\ run' = [run EXCEPT ![w] = NoRun]
  /\ UNCHANGED index /\ Building

-----------------------------------------------------------------------------
(* Requests that read. *)

\* "notes" and "settled" are what is so when the request begins; note and graph
\* do not use the notes, and no request sees whether they are settled.
NoRead == [step |-> "idle", kind |-> "", tagged |-> FALSE, notes |-> <<>>, met |-> FALSE,
           settled |-> FALSE,
           seen |-> <<>>, pos |-> 0, size |-> 0, dict |-> 0,
           raised |-> FALSE, mode |-> "", id |-> 0, found |-> <<>>, edges |-> {}, dangling |-> {}]

Aside == UNCHANGED <<pgvector, index, run, settled, runs>>
Begin(kind, notes) ==
  [NoRead EXCEPT !.kind = kind, !.notes = notes, !.met = ~Quiet, !.settled = settled]
Done(r) == read' = [r EXCEPT !.step = "done", !.seen = <<>>, !.pos = 0, !.size = 0, !.dict = 0]
Raise == Done([read EXCEPT !.raised = TRUE, !.found = <<>>, !.edges = {}])

\* (Mutant of BeginSearch: a search with tags asks the shared vectors.)
BeginSearchShared(kind, tagged) ==
  LET all == NotesOf(store)
      notes == IF tagged THEN Select(all, {k \in DOMAIN all : all[k].text.tagged}) ELSE all
  IN
  /\ ~Reading
  /\ tagged => kind # "chat"
  /\ read' = [Begin(kind, notes) EXCEPT
                !.tagged = tagged,
                !.step = IF kind = "keyword" \/ notes = <<>> THEN "answer" ELSE "query"]
  /\ Aside
\* With tags the vectors of the notes that have them are built for the request.
BeginSearch(kind, tagged) ==
  LET all == NotesOf(store)
      notes == IF tagged THEN Select(all, {k \in DOMAIN all : all[k].text.tagged}) ELSE all
      local == kind = "keyword" \/ notes = <<>> \/ tagged
  IN
  /\ ~Reading
  /\ tagged => kind # "chat"
  /\ read' = [Begin(kind, notes) EXCEPT !.tagged = tagged,
                                        !.step = IF local THEN "answer" ELSE "query",
                                        !.seen = IF tagged THEN AllChunks(notes) ELSE <<>>]
  /\ Aside

\* One SELECT: rows at the same distance come in any order, and this or the
\* opposite one stands for all.
QueryTable ==
  /\ read.step = "query" /\ pgvector
  /\ \E rows \in {vectors, Reverse(vectors)} :
       read' = [read EXCEPT !.step = "answer", !.seen = rows]
  /\ Aside

BeginScan ==
  /\ read.step = "query" /\ ~pgvector
  /\ read' = [read EXCEPT !.step = "scan", !.size = Len(vectors)]
  /\ Aside

\* A dict whose size is not the one its iterator began with raises RuntimeError.
Scan ==
  /\ read.step = "scan"
  /\ IF Len(vectors) # read.size THEN Raise
     ELSE IF read.pos = read.size THEN read' = [read EXCEPT !.step = "answer"]
     ELSE read' = [read EXCEPT !.pos = @ + 1, !.seen = Append(@, vectors[read.pos + 1])]
  /\ Aside

\* The provider's text need not cite; the simulated answer cites every note.
Answer ==
  LET results == Found(read.kind, read.notes, Fetched(read.seen))
      modes == IF read.kind # "chat" THEN {""}
               ELSE IF results = <<>> THEN {"refusal"}
               ELSE {"simulated", "llm grounded", "llm not grounded"}
  IN
  /\ read.step = "answer"
  /\ \E mode \in modes : Done([read EXCEPT !.found = results, !.mode = mode])
  /\ Aside

\* A note and, after it, its backlinks; a note that is not there is a 404.
BeginNote(id) ==
  /\ ~Reading
  /\ LET r == [Begin("note", NotesOf(store)) EXCEPT !.id = id]
     IN  IF id \in DOMAIN store THEN read' = [r EXCEPT !.step = "backlinks"]
         ELSE Done([r EXCEPT !.mode = "not found"])
  /\ Aside

BeginGraph ==
  /\ ~Reading
  /\ read' = [Begin("graph", NotesOf(store)) EXCEPT !.step = "edges"]
  /\ Aside

\* items() of adj_list as it is now.
Iterate(r) == [r EXCEPT !.dict = Len(graphs), !.pos = 0, !.size = Len(adj)]

Open ==
  /\ read.step \in {"backlinks", "edges", "nodes"} /\ read.dict = 0
  /\ read' = Iterate(read)
  /\ Aside

Item == graphs[read.dict][read.pos + 1]
Broken == read.dict # 0 /\ Len(graphs[read.dict]) # read.size
More == read.dict # 0 /\ ~Broken /\ read.pos < read.size
Exhausted == read.dict # 0 /\ ~Broken /\ read.pos = read.size

Break ==
  /\ read.step \in {"backlinks", "edges", "nodes"} /\ Broken
  /\ Raise
  /\ Aside

Backlinks ==
  /\ read.step = "backlinks"
  /\ \/ /\ More
        /\ read' = [read EXCEPT !.pos = @ + 1,
                      !.found = IF read.id \in Item.dests THEN Append(@, Item.id) ELSE @]
     \/ Exhausted /\ Done(read)
  /\ Aside

\* The links of one note: their set is iterated too.
Edges ==
  /\ read.step = "edges"
  /\ \/ More /\ read' = [read EXCEPT !.step = "dests", !.seen = <<Cardinality(Item.dests)>>]
     \/ Exhausted /\ read' = [read EXCEPT !.step = "nodes", !.dict = 0]
  /\ Aside

Dests ==
  /\ read.step = "dests"
  /\ IF Cardinality(Item.dests) # read.seen[1] THEN Raise
     ELSE read' = [read EXCEPT !.step = "edges", !.pos = @ + 1, !.seen = <<>>,
                     !.edges = @ \cup {[link |-> <<Item.id, d>>,
                                        dangling |-> <<Item.id, d>> \in dangling] : d \in Item.dests}]
  /\ Aside

Nodes ==
  /\ read.step = "nodes"
  /\ \/ /\ More
        /\ read' = [read EXCEPT !.pos = @ + 1,
                      !.found = Append(@, [id |-> Item.id, out |-> Cardinality(Item.dests),
                        in |-> Cardinality({e \in read.edges : e.link[2] = Item.id})])]
     \/ Exhausted /\ Done([read EXCEPT !.dangling = dangling])
  /\ Aside

-----------------------------------------------------------------------------
Kinds == {"keyword", "semantic", "hybrid", "chat"}

\* What a run that was alone leaves behind.
GraphOf(vault) ==
  LET notes == NotesOf(vault)
  IN  [k \in DOMAIN notes |-> [id |-> notes[k].id, dests |-> ToSet(notes[k].text.links)]]

Init ==
  /\ pgvector \in BOOLEAN
  /\ store \in InitVaults
  /\ vectors = AllChunks(NotesOf(store))
  /\ graphs = <<GraphOf(store)>>
  /\ dangling = {l \in ToSet(LinksOf(NotesOf(store))) : l[2] \notin DOMAIN store}
  /\ run = [w \in Runners |-> NoRun] /\ runs = 0 /\ settled = TRUE
  /\ read = NoRead

Run ==
  \E w \in Runners :
    \/ \E v \in Vaults : BeginRun(w, v)
    \/ Replace(w) \/ ClearVectors(w) \/ AddVector(w)
    \/ ResetGraph(w) \/ Register(w) \/ AddLink(w) \/ AddDangling(w)
    \/ EndPass(w) \/ RunRaises(w)

Request ==
  \/ \E kind \in Kinds, tagged \in BOOLEAN : BeginSearch(kind, tagged)
  \/ QueryTable \/ BeginScan \/ Scan \/ Answer
  \/ \E id \in Ids : BeginNote(id)
  \/ BeginGraph \/ Open \/ Break \/ Backlinks \/ Edges \/ Dests \/ Nodes

Next == Run \/ Request
Spec == Init /\ [][Next]_vars

-----------------------------------------------------------------------------
(* Properties. *)

Answers == read.step = "done" /\ ~read.raised
Search == read.kind \in Kinds
\* No run was under way, and the last one had been alone and ended.
Undisturbed == read.settled /\ ~read.met

\* A search answers at most limit notes, each once, best first, with the
\* content the request read, even when a run clears and refills the vectors
\* while they are scanned.
WellFormedAnswer ==
  Answers /\ Search =>
    /\ Len(read.found) <= Limit
    /\ Cardinality(IdsOf(read.found)) = Len(read.found)
    /\ \A i, j \in DOMAIN read.found : i < j => read.found[i].score >= read.found[j].score
    /\ \A k \in DOMAIN read.found :
         \E n \in ToSet(read.notes) : n.id = read.found[k].id /\ n.text = read.found[k].content

\* A note's own similarity: its best chunk's.
Similarity(note) == Max({c.score : c \in ToSet(ChunksOf(note))})

\* A semantic search that no run disturbed, over an index that no failed or
\* overlapping run was the last to touch, has the notes in the order of their
\* best chunks and with their current text; a note is left out only for better
\* ones, or because the chunks of better ones fill what the query fetched.
SemanticIsRanking ==
  Answers /\ read.kind = "semantic" /\ Undisturbed =>
    LET left == {n \in ToSet(read.notes) : n.id \notin IdsOf(read.found)}
        shown == ToSet(read.notes) \ left
    IN
    /\ \A r \in ToSet(read.found) : \E n \in shown :
         n.id = r.id /\ r.score = Similarity(n) /\ r.snippet = n.text
    /\ \A n \in left : \A r \in ToSet(read.found) : Similarity(n) <= r.score
    /\ left # {} /\ Len(read.found) < Limit =>
         Len(AllChunks(SetToSeq(shown))) >= 4 * Limit

\* A hybrid answer keeps what the words found: a note with the query in it has
\* its lexical score, and is left out only for notes of at least that score.
HybridKeepsKeywords ==
  Answers /\ read.kind = "hybrid" =>
    \A r \in ToSet(KeywordSearch(read.notes)) :
      \/ r \in ToSet(read.found)
      \/ Len(read.found) = Limit /\ \A k \in DOMAIN read.found : read.found[k].score >= r.score

\* Chat does not refuse while a note it read has the words of the question,
\* not even when a run has emptied the vectors.
NoFalseRefusal ==
  Answers /\ read.mode = "refusal" => KeywordSearch(read.notes) = <<>>

\* The graph and the backlinks are those of the stored notes, every link an edge
\* and dangling exactly when its target is no note, unless a run was under way
\* or the last runs failed or overlapped: one run alone mends what they left.
GraphOfTheNotes ==
  Answers /\ Undisturbed =>
    LET ids == {n.id : n \in ToSet(read.notes)}
        links == ToSet(LinksOf(read.notes))
    IN
    /\ read.kind = "graph" =>
         /\ read.edges = {[link |-> l, dangling |-> l[2] \notin ids] : l \in links}
         /\ read.dangling = {l \in links : l[2] \notin ids}
         /\ IdsOf(read.found) = ids
    /\ read.kind = "note" /\ read.id \in ids =>
         ToSet(read.found) = {l[1] : l \in {m \in links : m[2] = read.id}}

\* What a run that was alone ends with is the index of its notes and nothing
\* else, whatever runs that failed or overlapped had left there before it, and
\* it stays so while later runs have not stored their notes.
SettledIndex ==
  settled =>
    /\ vectors = AllChunks(NotesOf(store))
    /\ IdsOf(adj) = DOMAIN store
    /\ \A k \in DOMAIN adj : adj[k].dests = ToSet(store[adj[k].id].links)
    /\ dangling = {l \in ToSet(LinksOf(NotesOf(store))) : l[2] \notin DOMAIN store}

\* Only a run under way makes a request fail, and never one that looks for
\* words, has tags of its own or asks the table.
RaisedByRunsOnly ==
  read.raised => /\ read.met /\ ~read.tagged /\ read.kind # "keyword"
                 /\ read.kind \in {"note", "graph"} \/ ~pgvector
=============================================================================
