------------------------------ MODULE Chunking ------------------------------
(***************************************************************************)
(* chunk_text of docparse.py: how a note's body becomes the chunks that    *)
(* are embedded.  A text is the lengths of the pieces its separators split *)
(* it into: sentences (semantic), blocks that begin with a heading         *)
(* (structural), or the one piece of a text that is cut by length (fixed). *)
(* White space around a piece is left out.  A chunk is the range of its    *)
(* pieces or, of one piece, the range of its characters.                   *)
(***************************************************************************)
EXTENDS Integers, Sequences

CONSTANTS Texts, Sizes, Overlaps

ASSUME ChunkingAssumption ==
  /\ Texts \subseteq Seq(Nat)
  /\ Sizes \subseteq Nat \ {0}
  /\ Overlaps \subseteq Nat

VARIABLES
  strategy, text, size, overlap,  \* the call: never changed
  next,      \* the piece that is looked at
  start,     \* in the loop of _chunk_fixed: the variable start
  current,   \* in the loop of _chunk_semantic: the variable current
  chunks, pc

call == <<strategy, text, size, overlap>>
chunkingVars == <<strategy, text, size, overlap, next, start, current, chunks, pc>>

Strategies == {"fixed", "semantic", "structural"}
Nothing == [first |-> 1, last |-> 1, len |-> 0]

ChunkingInit ==
  /\ strategy \in Strategies /\ text \in Texts /\ size \in Sizes /\ overlap \in Overlaps
  /\ strategy = "fixed" => Len(text) = 1
  /\ next = 1 /\ start = 0 /\ current = Nothing
  /\ chunks = <<>>
  /\ pc = IF strategy = "semantic" THEN "pack" ELSE "split"

-----------------------------------------------------------------------------
Smaller(a, b) == IF a <= b THEN a ELSE b

Cut(i, from, to) == [first |-> i, last |-> i, from |-> from, to |-> to]
Pack(c) == [first |-> c.first, last |-> c.last, from |-> 0, to |-> c.len]

\* (Mutant of Step: an overlap as long as a chunk is taken as it is.)
StepUnclamped == IF strategy = "structural" THEN size \div 8 ELSE overlap
\* How far the next chunk reaches back: an overlap that would leave no progress
\* is a quarter of the size.
Step ==
  LET wanted == IF strategy = "structural" THEN size \div 8 ELSE overlap
  IN  IF wanted >= size THEN size \div 4 ELSE wanted

\* _chunk_structural keeps a block that fits, and cuts the others; a fixed text
\* is always cut.
Split ==
  /\ pc = "split" /\ next <= Len(text)
  /\ \/ /\ text[next] = 0
        /\ next' = next + 1
        /\ UNCHANGED <<chunks, pc>>
     \/ /\ text[next] > 0 /\ strategy = "structural" /\ text[next] <= size
        /\ chunks' = Append(chunks, Cut(next, 0, text[next]))
        /\ next' = next + 1
        /\ UNCHANGED pc
     \/ /\ text[next] > 0 /\ (strategy = "structural" => text[next] > size)
        /\ pc' = "cut"
        /\ UNCHANGED <<next, chunks>>
  /\ start' = 0
  /\ UNCHANGED <<call, current>>

\* (Mutant of CutOne: the loop ends with the last whole chunk.)
CutWhole ==
  LET end == Smaller(start + size, text[next]) IN
  /\ pc = "cut"
  /\ chunks' = Append(chunks, Cut(next, start, end))
  /\ IF end + size > text[next] THEN pc' = "split" /\ next' = next + 1 /\ start' = 0
     ELSE start' = end - Step /\ UNCHANGED <<pc, next>>
  /\ UNCHANGED <<call, current>>
\* One round of the loop of _chunk_fixed.
CutOne ==
  LET end == Smaller(start + size, text[next]) IN
  /\ pc = "cut"
  /\ chunks' = Append(chunks, Cut(next, start, end))
  /\ IF end >= text[next] THEN pc' = "split" /\ next' = next + 1 /\ start' = 0
     ELSE start' = end - Step /\ UNCHANGED <<pc, next>>
  /\ UNCHANGED <<call, current>>

Joined(i) ==
  IF current.len = 0 THEN [first |-> i, last |-> i, len |-> text[i]]
  ELSE [first |-> current.first, last |-> i,
        len |-> current.len + (IF text[i] = 0 THEN 0 ELSE 1 + text[i])]

\* (Mutant of TooLong: the blank between two sentences is not counted.)
TooLongWithoutBlank(i) == current.len > 0 /\ current.len + text[i] > size
TooLong(i) == current.len > 0 /\ current.len + text[i] + 1 > size

\* One sentence of _chunk_semantic: it joins the current chunk or begins another.
PackOne ==
  /\ pc = "pack" /\ next <= Len(text)
  /\ IF TooLong(next)
       THEN /\ chunks' = Append(chunks, Pack(current))
            /\ current' = [first |-> next, last |-> next, len |-> text[next]]
       ELSE current' = Joined(next) /\ UNCHANGED chunks
  /\ next' = next + 1
  /\ UNCHANGED <<call, start, pc>>

\* (Mutant of Finish: what is left when the sentences are used up is dropped.)
FinishWithoutRest ==
  /\ pc \in {"split", "pack"} /\ next > Len(text)
  /\ pc' = "done" /\ current' = Nothing
  /\ UNCHANGED <<call, next, start, chunks>>
Finish ==
  /\ pc \in {"split", "pack"} /\ next > Len(text)
  /\ chunks' = IF current.len > 0 THEN Append(chunks, Pack(current)) ELSE chunks
  /\ pc' = "done" /\ current' = Nothing
  /\ UNCHANGED <<call, next, start>>

ChunkingNext == Split \/ CutOne \/ PackOne \/ Finish

ChunkingSpec == ChunkingInit /\ [][ChunkingNext]_chunkingVars

-----------------------------------------------------------------------------
(* Properties. *)

Chunk == [first : Nat, last : Nat, from : Nat, to : Nat]

\* Every variable has its type; a piece that is cut is one of the text's and
\* longer than where the loop stands.
TypeOK ==
  /\ strategy \in Strategies /\ text \in Texts /\ size \in Sizes /\ overlap \in Overlaps
  /\ next \in 1..Len(text) + 1
  /\ start \in Nat
  /\ current \in [first : Nat, last : Nat, len : Nat]
  /\ chunks \in Seq(Chunk)
  /\ pc \in {"split", "cut", "pack", "done"}
  /\ pc = "cut" => next <= Len(text) /\ start < text[next]

Covers(c, i, k) == i \in c.first..c.last /\ (c.first = c.last => c.from <= k /\ k < c.to)
Covered(i, k) == \E n \in DOMAIN chunks : Covers(chunks[n], i, k)

\* Every character of the text is in a chunk when the call returns, whatever
\* sizes and overlap it is given: nothing falls between two chunks.
NothingDropped ==
  pc = "done" => \A i \in DOMAIN text : \A k \in 0..text[i] - 1 : Covered(i, k)

\* No chunk is empty, and none is longer than asked, except a sentence that is.
ChunksFit ==
  \A n \in DOMAIN chunks :
    /\ chunks[n].from < chunks[n].to
    /\ \/ chunks[n].to - chunks[n].from <= size
       \/ strategy = "semantic" /\ chunks[n].first = chunks[n].last

\* Every round of the loop of _chunk_fixed begins further on in its piece, whatever
\* the overlap: the loop ends.
Advances ==
  [][pc = "cut" /\ pc' = "cut" => start' > start]_chunkingVars

=============================================================================
