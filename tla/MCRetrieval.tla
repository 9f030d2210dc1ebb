---------------------------- MODULE MCRetrieval ----------------------------
(* Instance of Retrieval: the word of the query is in all, one or none of   *)
(* the notes, one note is longer than a query fetches, a note is edited,    *)
(* deleted, linked before it exists, or has no chunks.                      *)
EXTENDS Retrieval

OfText(title, count, tagged, chunks, links) ==
  [title |-> title, count |-> count, tagged |-> tagged, chunks |-> chunks, links |-> links]

Short == OfText("has", 1, TRUE, <<6, 3>>, <<2, 3>>)
Edited == OfText("has", 0, FALSE, <<4>>, <<3>>)
Other == OfText("no", 0, FALSE, <<5>>, <<1>>)
Named == OfText("is", 1, TRUE, <<2>>, <<2>>)
Blank == OfText("no", 0, FALSE, <<>>, <<>>)
Long == OfText("no", 1, FALSE, <<7, 6, 7, 6, 7, 6, 7, 6, 7>>, <<3>>)

Three == 1 :> Short @@ 2 :> Other @@ 3 :> Named
Two == 1 :> Edited @@ 3 :> Named
Wordless == 1 :> Other @@ 2 :> Blank
Crowded == 1 :> Long @@ 2 :> Other

InitOfReads == {Three, Crowded, Wordless}
VaultsOfReads == {Two}
Symmetry == Permutations(Runners)

=============================================================================
