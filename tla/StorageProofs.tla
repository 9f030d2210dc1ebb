---------------------------- MODULE StorageProofs ----------------------------
(***************************************************************************)
(* Theorems about what is stored: Chunking, how a note's text becomes the  *)
(* chunks that are kept, for every text, size and overlap; and Migrations, *)
(* what becomes of the rows of notes and chunks when their tables change,  *)
(* for any vaults, notes and number of commands, crashes and writes.       *)
(***************************************************************************)
EXTENDS Chunking, Migrations, TLAPS

(* Chunking. *)

\* Which loop runs for which strategy.
Loops ==
  /\ strategy = "semantic" => pc \in {"pack", "done"}
  /\ pc = "pack" => strategy = "semantic"
\* What is packed lies before the piece that is looked at, and fits unless it is
\* one sentence.
PackedBefore ==
  current.len > 0 =>
    /\ strategy = "semantic"
    /\ current.first <= current.last /\ current.last < next
    /\ current.len <= size \/ current.first = current.last
\* The pieces passed are in the chunks or in what is packed.
PassedKept ==
  \A i \in DOMAIN text : \A k \in 0..text[i] - 1 :
    i < next => Covered(i, k) \/ (current.len > 0 /\ Covers(Pack(current), i, k))
\* The characters of a piece before the loop's start are in the chunks.
CutKept ==
  pc = "cut" => \A k \in 0..text[next] - 1 : k < start => Covered(next, k)
AllPassed == pc = "done" => next > Len(text) /\ current.len = 0

ChunkingInv ==
  /\ TypeOK /\ Loops /\ PackedBefore /\ PassedKept /\ CutKept /\ AllPassed
  /\ ChunksFit

-----------------------------------------------------------------------------
\* The step back is shorter than a chunk.
LEMMA StepBound == ASSUME size \in Nat \ {0}, overlap \in Nat PROVE Step \in Nat /\ Step < size
  <1>1. size \div 8 \in Nat /\ size \div 8 < size  OBVIOUS
  <1>2. size \div 4 \in Nat /\ size \div 4 < size  OBVIOUS
  <1> QED  BY <1>1, <1>2 DEF Step

\* The types of the parts of a call.
LEMMA CallTypes ==
  ASSUME TypeOK PROVE /\ text \in Seq(Nat) /\ size \in Nat \ {0} /\ overlap \in Nat
                      /\ Len(text) \in Nat /\ next \in Nat
                      /\ \A i \in DOMAIN text : text[i] \in Nat
  BY ChunkingAssumption DEF TypeOK

\* A chunk that is added covers its own characters, and hides none.
LEMMA AppendCovers ==
  ASSUME NEW c \in Chunk, chunks \in Seq(Chunk), chunks' = Append(chunks, c),
         NEW i \in Nat, NEW k \in Nat
  PROVE  /\ Covered(i, k) => Covered(i, k)'
         /\ Covers(c, i, k) => Covered(i, k)'
  <1>1. /\ Len(chunks) \in Nat /\ DOMAIN chunks = 1..Len(chunks)
        /\ DOMAIN chunks' = 1..Len(chunks) + 1
        /\ \A n \in DOMAIN chunks : chunks'[n] = chunks[n]
        /\ chunks'[Len(chunks) + 1] = c
    OBVIOUS
  <1> QED  BY <1>1 DEF Covered, Covers

\* A chunk that fits can be added to chunks that fit.
LEMMA AppendFits ==
  ASSUME NEW c \in Chunk, chunks \in Seq(Chunk), chunks' = Append(chunks, c),
         UNCHANGED call, ChunksFit, c.from < c.to,
         c.to - c.from <= size \/ (strategy = "semantic" /\ c.first = c.last)
  PROVE  ChunksFit' /\ chunks' \in Seq(Chunk)
  <1>1. /\ Len(chunks) \in Nat /\ DOMAIN chunks = 1..Len(chunks)
        /\ DOMAIN chunks' = 1..Len(chunks) + 1
        /\ \A n \in DOMAIN chunks : chunks'[n] = chunks[n]
        /\ chunks'[Len(chunks) + 1] = c
    OBVIOUS
  <1>2. ChunksFit'  BY <1>1 DEF ChunksFit, call
  <1> QED  BY <1>2

\* What is packed is a chunk once it is handed over.
LEMMA PackIsChunk ==
  ASSUME TypeOK PROVE Pack(current) \in Chunk
  BY DEF TypeOK, Pack, Chunk

-----------------------------------------------------------------------------
LEMMA ChunkingStarts == ChunkingInit => ChunkingInv
  <1> SUFFICES ASSUME ChunkingInit PROVE ChunkingInv
    OBVIOUS
  <1>1. text \in Seq(Nat) /\ Len(text) \in Nat /\ DOMAIN text = 1..Len(text)
    BY ChunkingAssumption DEF ChunkingInit
  <1>2. chunks \in Seq(Chunk) /\ DOMAIN chunks = {}
    BY DEF ChunkingInit
  <1>3. TypeOK
    BY <1>1, <1>2 DEF ChunkingInit, TypeOK, Nothing
  <1>4. Loops /\ PackedBefore /\ CutKept /\ AllPassed
    BY DEF ChunkingInit, Loops, PackedBefore, CutKept, AllPassed, Nothing, Strategies
  <1>5. PassedKept
    BY <1>1 DEF ChunkingInit, PassedKept
  <1>6. ChunksFit
    BY <1>2 DEF ChunksFit
  <1> QED  BY <1>3, <1>4, <1>5, <1>6 DEF ChunkingInv

LEMMA SplitKeeps == ChunkingInv /\ Split => ChunkingInv'
  <1> SUFFICES ASSUME ChunkingInv, Split PROVE ChunkingInv'
    OBVIOUS
  <1>0. TypeOK /\ UNCHANGED <<strategy, text, size, overlap, current>> /\ start' = 0
    BY DEF ChunkingInv, Split, call
  <1>t. /\ text \in Seq(Nat) /\ size \in Nat \ {0} /\ Len(text) \in Nat /\ next \in Nat
        /\ \A i \in DOMAIN text : text[i] \in Nat
        /\ DOMAIN text = 1..Len(text) /\ next \in DOMAIN text /\ chunks \in Seq(Chunk)
    BY <1>0, CallTypes DEF Split, TypeOK
  <1>s. pc = "split" /\ strategy # "semantic" /\ current.len = 0 
    BY <1>0 DEF Split, ChunkingInv, Loops, PackedBefore, TypeOK
  <1>1. CASE text[next] = 0 /\ next' = next + 1 /\ UNCHANGED <<chunks, pc>>
    <2>1. TypeOK'
      BY <1>0, <1>1, <1>t, <1>s DEF TypeOK
    <2>2. (Loops /\ PackedBefore /\ CutKept /\ AllPassed)'
      BY <1>0, <1>1, <1>s DEF ChunkingInv, Loops, PackedBefore, CutKept, AllPassed
    <2>3. PassedKept'
      BY <1>0, <1>1, <1>s, <1>t DEF ChunkingInv, PassedKept, Covered, Covers, Pack
    <2>4. ChunksFit'
      BY <1>0, <1>1 DEF ChunkingInv, ChunksFit
    <2> QED  BY <2>1, <2>2, <2>3, <2>4 DEF ChunkingInv
  <1>2. CASE /\ text[next] > 0 /\ text[next] <= size
             /\ chunks' = Append(chunks, Cut(next, 0, text[next]))
             /\ next' = next + 1 /\ UNCHANGED pc
    <2>1. Cut(next, 0, text[next]) \in Chunk
      BY <1>t DEF Cut, Chunk
    <2>2. ChunksFit' /\ chunks' \in Seq(Chunk)
      BY <1>0, <1>2, <1>t, <2>1, AppendFits DEF ChunkingInv, Cut, call
    <2>3. TypeOK'
      BY <1>0, <1>2, <1>t, <1>s, <2>2 DEF TypeOK
    <2>4. (Loops /\ PackedBefore /\ CutKept /\ AllPassed)'
      BY <1>0, <1>2, <1>s DEF ChunkingInv, Loops, PackedBefore, CutKept, AllPassed
    <2>5. PassedKept'
      <3> SUFFICES ASSUME NEW i \in DOMAIN text, NEW k \in 0..text[i] - 1, i < next + 1
                   PROVE  Covered(i, k)'
        BY <1>0, <1>2 DEF PassedKept
      <3>1. i \in Nat /\ k \in Nat
        BY <1>t
      <3>2. CASE i < next
        BY <1>2, <1>s, <1>t, <2>1, <3>1, <3>2, AppendCovers DEF ChunkingInv, PassedKept
      <3>3. CASE i = next
        <4>1. Covers(Cut(next, 0, text[next]), i, k)
          BY <1>t, <3>1, <3>3 DEF Covers, Cut
        <4> QED  BY <1>2, <1>t, <2>1, <3>1, <4>1, AppendCovers
      <3> QED  BY <1>t, <3>2, <3>3
    <2> QED  BY <2>2, <2>3, <2>4, <2>5 DEF ChunkingInv
  <1>3. CASE text[next] > 0 /\ pc' = "cut" /\ UNCHANGED <<next, chunks>>
    <2>1. TypeOK'
      BY <1>0, <1>3, <1>t DEF TypeOK
    <2>2. (Loops /\ PackedBefore /\ AllPassed)'
      BY <1>0, <1>3, <1>s DEF ChunkingInv, Loops, PackedBefore, AllPassed
    <2>3. CutKept'
      BY <1>0, <1>3, <1>t DEF CutKept
    <2>4. PassedKept' /\ ChunksFit'
      BY <1>0, <1>3 DEF ChunkingInv, PassedKept, ChunksFit, Covered
    <2> QED  BY <2>1, <2>2, <2>3, <2>4 DEF ChunkingInv
  <1> QED  BY <1>1, <1>2, <1>3 DEF Split

LEMMA CutOneKeeps == ChunkingInv /\ CutOne => ChunkingInv' /\ (pc' = "cut" => start' > start)
  <1> SUFFICES ASSUME ChunkingInv, CutOne PROVE ChunkingInv' /\ (pc' = "cut" => start' > start)
    OBVIOUS
  <1> DEFINE end == Smaller(start + size, text[next])
             c == Cut(next, start, end)
  <1>0. /\ TypeOK /\ UNCHANGED <<strategy, text, size, overlap, current>>
        /\ pc = "cut" /\ chunks' = Append(chunks, c)
    BY DEF ChunkingInv, CutOne, call
  <1>t. /\ text \in Seq(Nat) /\ size \in Nat \ {0} /\ Len(text) \in Nat /\ next \in Nat
        /\ \A i \in DOMAIN text : text[i] \in Nat
        /\ DOMAIN text = 1..Len(text) /\ next \in DOMAIN text /\ chunks \in Seq(Chunk)
        /\ start \in Nat /\ start < text[next] /\ text[next] \in Nat
    <2>1. next <= Len(text) /\ start < text[next]
      BY <1>0 DEF TypeOK
    <2> QED  BY <1>0, <2>1, CallTypes DEF TypeOK
  <1>s. strategy # "semantic" /\ current.len = 0
    BY <1>0 DEF ChunkingInv, Loops, PackedBefore, TypeOK
  <1>e. end \in Nat /\ start < end /\ end <= text[next] /\ end - start <= size
    BY <1>t DEF Smaller
  <1>c. c \in Chunk /\ c.from = start /\ c.to = end /\ c.first = next /\ c.last = next
    BY <1>e, <1>t DEF Cut, Chunk
  <1>f. ChunksFit' /\ chunks' \in Seq(Chunk)
    <2> HIDE DEF c, end
    <2> QED  BY <1>0, <1>t, <1>e, <1>c, AppendFits DEF ChunkingInv, call
  \* Up to the end of the new chunk the piece is covered.
  <1>k. ASSUME NEW i \in DOMAIN text, i = next, NEW k \in 0..text[i] - 1, k < end
        PROVE  Covered(i, k)'
    <2>0. k \in Nat
      BY <1>t, <1>k
    <2>1. CASE k < start
      <3>1. Covered(i, k)
        BY <1>0, <1>k, <2>1 DEF ChunkingInv, CutKept
      <3> HIDE DEF c
      <3> QED  BY <1>0, <1>c, <1>t, <1>k, <2>0, <3>1, AppendCovers
    <2>2. CASE start <= k
      <3>1. Covers(c, i, k)
        BY <1>c, <1>t, <1>k, <2>0, <2>2 DEF Covers
      <3> HIDE DEF c
      <3> QED  BY <1>0, <1>c, <1>t, <1>k, <2>0, <3>1, AppendCovers
    <2> QED  BY <1>t, <2>0, <2>1, <2>2
  <1>p. ASSUME NEW i \in DOMAIN text, NEW k \in 0..text[i] - 1, i < next
        PROVE  Covered(i, k)'
    <2>1. i \in Nat /\ k \in Nat /\ Covered(i, k)
      BY <1>p, <1>s, <1>t DEF ChunkingInv, PassedKept
    <2> HIDE DEF c
    <2> QED  BY <1>0, <1>c, <1>t, <2>1, AppendCovers
  <1> HIDE DEF c
  <1>1. CASE end >= text[next] /\ pc' = "split" /\ next' = next + 1 /\ start' = 0
    <2> HIDE DEF end
    <2>1. TypeOK'
      BY <1>0, <1>1, <1>f, <1>t DEF TypeOK
    <2>2. (Loops /\ PackedBefore /\ CutKept /\ AllPassed)'
      BY <1>0, <1>1, <1>s DEF Loops, PackedBefore, CutKept, AllPassed
    <2>3. PassedKept'
      <3> SUFFICES ASSUME NEW i \in DOMAIN text, NEW k \in 0..text[i] - 1, i < next + 1
                   PROVE  Covered(i, k)'
        BY <1>0, <1>1 DEF PassedKept
      <3>1. CASE i < next
        BY <1>p, <3>1
      <3>2. CASE i = next
        BY <1>1, <1>e, <1>k, <1>t, <3>2
      <3> QED  BY <1>t, <3>1, <3>2
    <2> QED  BY <1>1, <1>f, <2>1, <2>2, <2>3 DEF ChunkingInv
  <1>2. CASE end < text[next] /\ start' = end - Step /\ UNCHANGED <<pc, next>>
    <2>1. Step \in Nat /\ Step < size
      BY <1>0, CallTypes, StepBound
    <2>2. end = start + size
      BY <1>2, <1>t DEF Smaller
    <2> HIDE DEF end
    <2>3. start' \in Nat /\ start < start' /\ start' <= end
      BY <1>2, <1>t, <2>1, <2>2
    <2>4. TypeOK'
      BY <1>0, <1>2, <1>f, <1>t, <1>e, <2>3 DEF TypeOK
    <2>5. (Loops /\ PackedBefore /\ AllPassed)'
      BY <1>0, <1>2, <1>s DEF ChunkingInv, Loops, PackedBefore, AllPassed
    <2>6. CutKept'
      BY <1>0, <1>2, <1>e, <1>k, <1>t, <2>3 DEF CutKept
    <2>7. PassedKept'
      BY <1>0, <1>2, <1>p DEF PassedKept
    <2> QED  BY <1>f, <2>3, <2>4, <2>5, <2>6, <2>7 DEF ChunkingInv
  <1>3. \/ end >= text[next] /\ pc' = "split" /\ next' = next + 1 /\ start' = 0
        \/ ~(end >= text[next]) /\ start' = end - Step /\ UNCHANGED <<pc, next>>
    BY DEF CutOne
  <1> HIDE DEF end
  <1> QED  BY <1>1, <1>2, <1>3, <1>e, <1>t

LEMMA PackOneKeeps == ChunkingInv /\ PackOne => ChunkingInv'
  <1> SUFFICES ASSUME ChunkingInv, PackOne PROVE ChunkingInv'
    OBVIOUS
  <1>0. /\ TypeOK /\ UNCHANGED <<strategy, text, size, overlap, start, pc>>
        /\ pc = "pack" /\ strategy = "semantic" /\ next' = next + 1
    BY DEF ChunkingInv, Loops, PackOne, call
  <1>t. /\ text \in Seq(Nat) /\ size \in Nat \ {0} /\ Len(text) \in Nat /\ next \in Nat
        /\ \A i \in DOMAIN text : text[i] \in Nat
        /\ DOMAIN text = 1..Len(text) /\ next \in DOMAIN text /\ chunks \in Seq(Chunk)
        /\ text[next] \in Nat /\ current \in [first : Nat, last : Nat, len : Nat]
    <2>1. next <= Len(text)
      BY DEF PackOne
    <2> QED  BY <1>0, <2>1, CallTypes DEF TypeOK
  <1>l. (Loops /\ CutKept /\ AllPassed)'
    BY <1>0 DEF Loops, CutKept, AllPassed
  <1>1. CASE /\ TooLong(next) /\ chunks' = Append(chunks, Pack(current))
             /\ current' = [first |-> next, last |-> next, len |-> text[next]]
    <2>1. /\ current.len > 0
          /\ current.len <= size \/ current.first = current.last
      BY <1>1 DEF ChunkingInv, PackedBefore, TooLong
    <2>2. /\ Pack(current) \in Chunk /\ Pack(current).from = 0
          /\ Pack(current).to = current.len
          /\ Pack(current).first = current.first /\ Pack(current).last = current.last
      BY <1>t DEF Pack, Chunk
    <2>3. ChunksFit' /\ chunks' \in Seq(Chunk)
      <3>1. /\ Pack(current).from < Pack(current).to
            /\ \/ Pack(current).to - Pack(current).from <= size
               \/ strategy = "semantic" /\ Pack(current).first = Pack(current).last
        BY <1>0, <1>t, <2>1, <2>2
      <3> QED  BY <1>0, <1>1, <1>t, <2>2, <3>1, AppendFits DEF ChunkingInv, call
    <2>4. TypeOK'
      BY <1>0, <1>1, <1>t, <2>3 DEF TypeOK
    <2>5. PackedBefore'
      BY <1>0, <1>1, <1>t DEF PackedBefore
    <2>6. PassedKept'
      <3> SUFFICES ASSUME NEW i \in DOMAIN text, NEW k \in 0..text[i] - 1, i < next + 1
                   PROVE  Covered(i, k)' \/ (current.len > 0 /\ Covers(Pack(current), i, k))'
        BY <1>0 DEF PassedKept
      <3>1. i \in Nat /\ k \in Nat
        BY <1>t
      <3>2. CASE i < next
        <4>1. Covered(i, k) \/ Covers(Pack(current), i, k)
          BY <3>2 DEF ChunkingInv, PassedKept
        <4> QED  BY <1>1, <1>t, <2>2, <3>1, <4>1, AppendCovers
      <3>3. CASE i = next
        <4>1. text[next] > 0 /\ k < text[next]
          BY <1>t, <3>1, <3>3
        <4> QED  BY <1>1, <1>t, <3>1, <3>3, <4>1 DEF Covers, Pack
      <3> QED  BY <1>t, <3>2, <3>3
    <2> QED  BY <1>l, <2>3, <2>4, <2>5, <2>6 DEF ChunkingInv
  <1>2. CASE ~TooLong(next) /\ current' = Joined(next) /\ UNCHANGED chunks
    <2>1. CASE current.len = 0
      <3>1. current' = [first |-> next, last |-> next, len |-> text[next]]
        BY <1>2, <2>1 DEF Joined
      <3>2. TypeOK' /\ ChunksFit'
        BY <1>0, <1>2, <1>t, <3>1 DEF ChunkingInv, TypeOK, ChunksFit
      <3>3. PackedBefore'
        BY <1>0, <1>t, <3>1 DEF PackedBefore
      <3>4. PassedKept'
        <4> SUFFICES ASSUME NEW i \in DOMAIN text, NEW k \in 0..text[i] - 1, i < next + 1
                     PROVE  Covered(i, k)' \/ (current.len > 0 /\ Covers(Pack(current), i, k))'
          BY <1>0 DEF PassedKept
        <4>1. CASE i < next
          BY <1>2, <2>1, <4>1 DEF ChunkingInv, PassedKept, Covered
        <4>2. CASE i = next
          BY <1>t, <3>1, <4>2 DEF Covers, Pack
        <4> QED  BY <1>t, <4>1, <4>2
      <3> QED  BY <1>l, <3>2, <3>3, <3>4 DEF ChunkingInv
    <2>2. CASE current.len > 0
      <3>1. /\ current.first <= current.last /\ current.last < next
            /\ current.len + text[next] + 1 <= size
        BY <1>2, <1>t, <2>2 DEF ChunkingInv, PackedBefore, TooLong
      <3>2. /\ current'.first = current.first /\ current'.last = next
            /\ current'.len \in Nat /\ current'.len > 0 /\ current'.len <= size
            /\ current' \in [first : Nat, last : Nat, len : Nat]
        <4>1. current' = [first |-> current.first, last |-> next,
                          len |-> current.len + (IF text[next] = 0 THEN 0 ELSE 1 + text[next])]
          BY <1>2, <1>t, <2>2 DEF Joined
        <4> QED  BY <1>t, <2>2, <3>1, <4>1
      <3>3. TypeOK' /\ ChunksFit'
        BY <1>0, <1>2, <1>t, <3>2 DEF ChunkingInv, TypeOK, ChunksFit
      <3>4. PackedBefore'
        BY <1>0, <1>t, <3>1, <3>2 DEF PackedBefore
      <3>5. PassedKept'
        <4> SUFFICES ASSUME NEW i \in DOMAIN text, NEW k \in 0..text[i] - 1, i < next + 1
                     PROVE  Covered(i, k)' \/ (current.len > 0 /\ Covers(Pack(current), i, k))'
          BY <1>0 DEF PassedKept
        <4>1. CASE Covered(i, k)
          BY <1>2, <4>1 DEF Covered
        <4>2. CASE ~Covered(i, k)
          <5>1. current.first <= i /\ i <= next
            BY <1>t, <3>1, <4>2 DEF ChunkingInv, PassedKept, Covers, Pack
          <5> QED  BY <1>t, <3>1, <3>2, <5>1 DEF Covers, Pack
        <4> QED  BY <4>1, <4>2
      <3> QED  BY <1>l, <3>3, <3>4, <3>5 DEF ChunkingInv
    <2> QED  BY <1>t, <2>1, <2>2
  <1> QED  BY <1>1, <1>2 DEF PackOne

LEMMA FinishKeeps == ChunkingInv /\ Finish => ChunkingInv'
  <1> SUFFICES ASSUME ChunkingInv, Finish PROVE ChunkingInv'
    OBVIOUS
  <1>0. /\ TypeOK /\ UNCHANGED <<strategy, text, size, overlap, start, next>>
        /\ next > Len(text) /\ pc' = "done" /\ current' = Nothing
    BY DEF ChunkingInv, Finish, call
  <1>t. /\ text \in Seq(Nat) /\ size \in Nat \ {0} /\ Len(text) \in Nat /\ next \in Nat
        /\ \A i \in DOMAIN text : text[i] \in Nat
        /\ DOMAIN text = 1..Len(text) /\ chunks \in Seq(Chunk)
        /\ current \in [first : Nat, last : Nat, len : Nat]
    BY <1>0, CallTypes DEF TypeOK
  <1>1. (Loops /\ PackedBefore /\ CutKept /\ AllPassed)'
    BY <1>0 DEF Loops, PackedBefore, CutKept, AllPassed, Nothing
  <1>2. /\ Pack(current) \in Chunk /\ Pack(current).from = 0
        /\ Pack(current).to = current.len
        /\ Pack(current).first = current.first /\ Pack(current).last = current.last
    BY <1>t DEF Pack, Chunk
  <1>3. ChunksFit' /\ chunks' \in Seq(Chunk)
    <2>1. CASE current.len > 0
      <3>1. /\ Pack(current).from < Pack(current).to
            /\ \/ Pack(current).to - Pack(current).from <= size
               \/ strategy = "semantic" /\ Pack(current).first = Pack(current).last
        BY <1>t, <1>2, <2>1 DEF ChunkingInv, PackedBefore
      <3>2. chunks' = Append(chunks, Pack(current))
        BY <2>1 DEF Finish
      <3> QED  BY <1>0, <1>t, <1>2, <3>1, <3>2, AppendFits DEF ChunkingInv, call
    <2>2. CASE ~(current.len > 0)
      BY <1>0, <1>t, <2>2 DEF ChunkingInv, ChunksFit, Finish
    <2> QED  BY <2>1, <2>2
  <1>4. TypeOK'
    BY <1>0, <1>t, <1>3 DEF TypeOK, Nothing
  <1>5. PassedKept'
    <2> SUFFICES ASSUME NEW i \in DOMAIN text, NEW k \in 0..text[i] - 1
                 PROVE  Covered(i, k)'
      BY <1>0 DEF PassedKept
    <2>1. i \in Nat /\ k \in Nat /\ i < next
      BY <1>0, <1>t
    <2>2. CASE current.len > 0
      <3>1. Covered(i, k) \/ Covers(Pack(current), i, k)
        BY <2>1 DEF ChunkingInv, PassedKept
      <3>2. chunks' = Append(chunks, Pack(current))
        BY <2>2 DEF Finish
      <3> QED  BY <1>t, <1>2, <2>1, <3>1, <3>2, AppendCovers
    <2>3. CASE ~(current.len > 0)
      <3>1. chunks' = chunks /\ Covered(i, k)
        BY <2>1, <2>3 DEF ChunkingInv, PassedKept, Finish
      <3> QED  BY <3>1 DEF Covered
    <2> QED  BY <2>2, <2>3
  <1> QED  BY <1>1, <1>3, <1>4, <1>5 DEF ChunkingInv

LEMMA ChunkingKeeps == ChunkingInv /\ [ChunkingNext]_chunkingVars => ChunkingInv'
  <1> SUFFICES ASSUME ChunkingInv, [ChunkingNext]_chunkingVars PROVE ChunkingInv'
    OBVIOUS
  <1>1. CASE UNCHANGED chunkingVars
    BY <1>1 DEF chunkingVars, ChunkingInv, TypeOK, Loops, PackedBefore, PassedKept, CutKept, AllPassed,
                ChunksFit, Covered
  <1> QED  BY <1>1, SplitKeeps, CutOneKeeps, PackOneKeeps, FinishKeeps DEF ChunkingNext

LEMMA AlwaysChunkingInv == ChunkingSpec => []ChunkingInv
  BY ChunkingStarts, ChunkingKeeps, PTL DEF ChunkingSpec

-----------------------------------------------------------------------------
\* The variables keep their types; the loop of _chunk_fixed stays inside its piece.
THEOREM TypeCorrect == ChunkingSpec => []TypeOK
  <1>1. ChunkingInv => TypeOK
    BY DEF ChunkingInv
  <1> QED  BY <1>1, AlwaysChunkingInv, PTL

\* chunk_text returns chunks that are not empty and no longer than asked, a
\* sentence that is longer by itself excepted.
THEOREM ChunksAlwaysFit == ChunkingSpec => []ChunksFit
  <1>1. ChunkingInv => ChunksFit
    BY DEF ChunkingInv
  <1> QED  BY <1>1, AlwaysChunkingInv, PTL

\* Every character of the text is in a chunk when chunk_text returns.
THEOREM NoCharacterDropped == ChunkingSpec => []NothingDropped
  <1>1. ChunkingInv => NothingDropped
    <2> SUFFICES ASSUME ChunkingInv, pc = "done", NEW i \in DOMAIN text, NEW k \in 0..text[i] - 1
                 PROVE  Covered(i, k)
      BY DEF NothingDropped
    <2>1. text \in Seq(Nat) /\ Len(text) \in Nat /\ next > Len(text) /\ current.len = 0
      BY CallTypes DEF ChunkingInv, AllPassed
    <2>2. i < next
      <3>1. i \in 1..Len(text) /\ next \in Nat
        BY <2>1, CallTypes DEF ChunkingInv
      <3> QED  BY <2>1, <3>1
    <2> QED  BY <2>1, <2>2 DEF ChunkingInv, PassedKept
  <1> QED  BY <1>1, AlwaysChunkingInv, PTL

\* Every round of the loop of _chunk_fixed begins further on, for every overlap and
\* every size above zero: the loop ends.
THEOREM LoopAdvances == ChunkingSpec => Advances
  <1>1. ChunkingInv /\ [ChunkingNext]_chunkingVars => [pc = "cut" /\ pc' = "cut" => start' > start]_chunkingVars
    <2> SUFFICES ASSUME ChunkingInv, ChunkingNext, pc = "cut", pc' = "cut" PROVE start' > start
      OBVIOUS
    <2>1. CutOne
      BY DEF ChunkingNext, Split, PackOne, Finish
    <2> QED  BY <2>1, CutOneKeeps
  <1> QED  BY <1>1, AlwaysChunkingInv, PTL DEF ChunkingSpec, Advances

-----------------------------------------------------------------------------
(* Migrations.  A command is a script of statements: a lemma per statement  *)
(* says what it does to a database, a lemma per script what the statements  *)
(* before the n last have done, and the invariant what of the rows to keep  *)
(* the database has at that point.                                          *)

Stages == NoteTables \cup ChunkTables
Watched == {"ix_notes_vault_note", "ix_chunks_vault_note"}

Has(d, t) == t \in DOMAIN d.tables
HasKey(d, t, key) == Has(d, t) /\ d.tables[t].key = key
IndexOn(d, i, t) == i \in DOMAIN d.indexes => d.indexes[i] = t /\ HasKey(d, t, ScopedKey)

Shaped(d) ==
  /\ DOMAIN d = {"tables", "indexes", "version"}
  /\ d.version \in {Base, Revision1, Revision2}
  /\ \A t \in DOMAIN d.tables : DOMAIN d.tables[t] = {"key", "refs", "rows"}

\* A row of the first release is the default vault's, a scoped one its vault's.
Keyed(d, t) ==
  Has(d, t) =>
    \/ d.tables[t].key = {"note"} /\ \A r \in d.tables[t].rows : r.id[1] = Default
    \/ d.tables[t].key = ScopedKey /\ \A r \in d.tables[t].rows : r.vault = r.id[1]

Behind(d) ==
  d.version # Revision2 /\ (\E t \in Stages : HasKey(d, t, ScopedKey)) => Has(d, "vaults")
AtHead(d) ==
  d.version = Revision2 =>
    /\ ~Has(d, "notes_legacy") /\ ~Has(d, "note_chunks_legacy")
    /\ IndexOn(d, "ix_notes_vault_note", "notes")
    /\ IndexOn(d, "ix_chunks_vault_note", "note_chunks")
Sound(d) ==
  Shaped(d) /\ (\A t \in Stages : Keyed(d, t)) /\ Behind(d) /\ AtHead(d)

-----------------------------------------------------------------------------
(* What a statement does to a database. *)

\* e has the table u as d has it; its references may have followed a rename.
SameTable(d, e, u) ==
  /\ Has(e, u) <=> Has(d, u)
  /\ Has(d, u) => e.tables[u].key = d.tables[u].key /\ e.tables[u].rows = d.tables[u].rows
NoNewIndex(d, e, i) ==
  i \in DOMAIN e.indexes => i \in DOMAIN d.indexes /\ e.indexes[i] = d.indexes[i]

LEMMA CreateTableEffect ==
  ASSUME NEW d, NEW t, NEW key, NEW refs, Shaped(d), ~Has(d, t),
         NEW e, e = After(d, CreateTable(t, key, refs))
  PROVE  /\ Shaped(e) /\ e.version = d.version /\ e.indexes = d.indexes
         /\ HasKey(e, t, key) /\ e.tables[t].rows = {}
         /\ \A u : u # t => SameTable(d, e, u)
  <1> DEFINE T == With(d.tables, t, [key |-> key, refs |-> refs, rows |-> {}])
  <1>1. e = [d EXCEPT !.tables = T]
    BY DEF After, CreateTable
  <1>2. e.tables = T /\ e.version = d.version /\ e.indexes = d.indexes
        /\ DOMAIN e = {"tables", "indexes", "version"}
    BY <1>1 DEF Shaped
  <1>3. /\ DOMAIN T = DOMAIN d.tables \cup {t}
        /\ T[t] = [key |-> key, refs |-> refs, rows |-> {}]
        /\ \A u \in DOMAIN d.tables : u # t => T[u] = d.tables[u]
    BY DEF With
  <1> HIDE DEF T
  <1>4. DOMAIN T[t] = {"key", "refs", "rows"} /\ T[t].key = key /\ T[t].rows = {}
    BY <1>3
  <1>5. \A u \in DOMAIN e.tables : DOMAIN e.tables[u] = {"key", "refs", "rows"}
    BY <1>2, <1>3, <1>4 DEF Shaped
  <1>6. \A u : u # t => SameTable(d, e, u)
    BY <1>2, <1>3 DEF SameTable, Has
  <1> QED  BY <1>2, <1>3, <1>4, <1>5, <1>6 DEF Shaped, HasKey, Has

LEMMA CreateIndexEffect ==
  ASSUME NEW d, NEW t, NEW i, Shaped(d), NEW e, e = After(d, CreateIndex(i, t))
  PROVE  /\ Shaped(e) /\ e.version = d.version /\ e.tables = d.tables
         /\ DOMAIN e.indexes = DOMAIN d.indexes \cup {i} /\ e.indexes[i] = t
         /\ \A j : j # i => NoNewIndex(d, e, j)
  <1>1. e = [d EXCEPT !.indexes = With(d.indexes, i, t)]
    BY DEF After, CreateIndex
  <1>2. e.tables = d.tables /\ e.version = d.version /\ e.indexes = With(d.indexes, i, t)
        /\ DOMAIN e = {"tables", "indexes", "version"}
    BY <1>1 DEF Shaped
  <1> QED  BY <1>2 DEF Shaped, With, NoNewIndex

LEMMA DropIndexEffect ==
  ASSUME NEW d, NEW i, Shaped(d), NEW e, e = After(d, DropIndex(i))
  PROVE  /\ Shaped(e) /\ e.version = d.version /\ e.tables = d.tables
         /\ i \notin DOMAIN e.indexes
         /\ \A j : NoNewIndex(d, e, j)
  <1>1. e = [d EXCEPT !.indexes = Without(d.indexes, {i})]
    BY DEF After, DropIndex
  <1>2. e.tables = d.tables /\ e.version = d.version /\ e.indexes = Without(d.indexes, {i})
        /\ DOMAIN e = {"tables", "indexes", "version"}
    BY <1>1 DEF Shaped
  <1> QED  BY <1>2 DEF Shaped, Without, NoNewIndex

LEMMA DropTableEffect ==
  ASSUME NEW d, NEW t, Shaped(d), NEW e, e = After(d, DropTable(t))
  PROVE  /\ Shaped(e) /\ e.version = d.version /\ ~Has(e, t)
         /\ \A u : u # t => SameTable(d, e, u)
         /\ \A j : NoNewIndex(d, e, j)
  <1> DEFINE T == Without(d.tables, {t})
             I == Without(d.indexes, {i \in DOMAIN d.indexes : d.indexes[i] = t})
  <1>1. e = [d EXCEPT !.tables = T, !.indexes = I]
    BY DEF After, DropTable
  <1>2. /\ DOMAIN T = DOMAIN d.tables \ {t}
        /\ \A u \in DOMAIN T : T[u] = d.tables[u]
        /\ \A j : j \in DOMAIN I => j \in DOMAIN d.indexes /\ I[j] = d.indexes[j]
    BY DEF Without
  <1> HIDE DEF T, I
  <1>3. e.tables = T /\ e.version = d.version /\ e.indexes = I
        /\ DOMAIN e = {"tables", "indexes", "version"}
    BY <1>1 DEF Shaped
  <1> QED  BY <1>2, <1>3 DEF Shaped, Has, SameTable, NoNewIndex

LEMMA StampEffect ==
  ASSUME NEW d, NEW v \in {Base, Revision1, Revision2}, Shaped(d), NEW e, e = After(d, Stamp(v))
  PROVE  /\ Shaped(e) /\ e.version = v /\ e.tables = d.tables /\ e.indexes = d.indexes
  <1>1. e = [d EXCEPT !.version = v]
    BY DEF After, Stamp
  <1> QED  BY <1>1 DEF Shaped

LEMMA RenameEffect ==
  ASSUME NEW d, NEW t, NEW new, Shaped(d), Has(d, t), ~Has(d, new),
         NEW e, e = After(d, Rename(t, new))
  PROVE  /\ Shaped(e) /\ e.version = d.version
         /\ ~Has(e, t) /\ Has(e, new)
         /\ e.tables[new].key = d.tables[t].key /\ e.tables[new].rows = d.tables[t].rows
         /\ \A u : u \notin {t, new} => SameTable(d, e, u)
         /\ DOMAIN e.indexes = DOMAIN d.indexes
  <1> DEFINE old(u) == d.tables[IF u = new THEN t ELSE u]
             T == [u \in (DOMAIN d.tables \ {t}) \cup {new} |->
                     IF t \in DOMAIN old(u).refs
                       THEN [old(u) EXCEPT !.refs = Renamed(old(u).refs, t, new)]
                       ELSE old(u)]
             I == [i \in DOMAIN d.indexes |-> IF d.indexes[i] = t THEN new ELSE d.indexes[i]]
  <1>1. e = [d EXCEPT !.tables = T, !.indexes = I]
    BY DEF After, Rename
  <1>2. DOMAIN T = (DOMAIN d.tables \ {t}) \cup {new} /\ DOMAIN I = DOMAIN d.indexes
    OBVIOUS
  <1>3. \A u \in DOMAIN T : /\ DOMAIN T[u] = {"key", "refs", "rows"}
                            /\ T[u].key = old(u).key /\ T[u].rows = old(u).rows
    <2> TAKE u \in DOMAIN T
    <2> DEFINE o == old(u)
               R == Renamed(o.refs, t, new)
    <2>1. DOMAIN o = {"key", "refs", "rows"}
      BY DEF Shaped, Has
    <2>2. T[u] = IF t \in DOMAIN o.refs THEN [o EXCEPT !.refs = R] ELSE o
      OBVIOUS
    <2> HIDE DEF o, R, T
    <2>3. T[u].key = o.key /\ T[u].rows = o.rows /\ DOMAIN T[u] = {"key", "refs", "rows"}
      BY <2>1, <2>2
    <2> QED  BY <2>3 DEF o
  <1>4. new # t /\ new \in DOMAIN T
    BY <1>2 DEF Has
  <1> HIDE DEF T, I
  <1>5. e.tables = T /\ e.version = d.version /\ e.indexes = I
        /\ DOMAIN e = {"tables", "indexes", "version"}
    BY <1>1 DEF Shaped
  <1>6. Shaped(e)
    BY <1>3, <1>5 DEF Shaped
  <1>7. \A u : u \notin {t, new} => SameTable(d, e, u)
    BY <1>2, <1>3, <1>5 DEF SameTable, Has
  <1>8. ~Has(e, t) /\ Has(e, new)
    BY <1>2, <1>4, <1>5 DEF Has
  <1>9. e.tables[new].key = d.tables[t].key /\ e.tables[new].rows = d.tables[t].rows
    BY <1>3, <1>4, <1>5
  <1> QED  BY <1>2, <1>5, <1>6, <1>7, <1>8, <1>9

\* A statement that adds rows.
LEMMA RowsEffect ==
  ASSUME NEW d, NEW s, s.op \in {"insert", "copy_as_default", "copy_of_default"},
         Shaped(d), Has(d, s.name), NEW e, e = After(d, s)
  PROVE  /\ Shaped(e) /\ e.version = d.version /\ e.indexes = d.indexes
         /\ Has(e, s.name) /\ e.tables[s.name].key = d.tables[s.name].key
         /\ e.tables[s.name].rows = d.tables[s.name].rows \cup RowsOf(d, s)
         /\ \A u : u # s.name => SameTable(d, e, u)
  <1> DEFINE n == s.name
             R == RowsOf(d, s)
             T == [d.tables EXCEPT ![n].rows = @ \cup R]
  <1>1. e = [d EXCEPT !.tables = T]
    BY DEF After
  <1>2. /\ DOMAIN T = DOMAIN d.tables
        /\ T[n] = [d.tables[n] EXCEPT !.rows = @ \cup R]
        /\ \A u \in DOMAIN d.tables : u # n => T[u] = d.tables[u]
    BY DEF Has
  <1>3. DOMAIN d.tables[n] = {"key", "refs", "rows"}
    BY DEF Shaped, Has
  <1> HIDE DEF T, R, n
  <1>4. /\ T[n].key = d.tables[n].key /\ T[n].rows = d.tables[n].rows \cup R
        /\ DOMAIN T[n] = {"key", "refs", "rows"}
    BY <1>2, <1>3
  <1>5. e.tables = T /\ e.version = d.version /\ e.indexes = d.indexes
        /\ DOMAIN e = {"tables", "indexes", "version"}
    BY <1>1 DEF Shaped
  <1>6. Shaped(e)
    BY <1>2, <1>4, <1>5 DEF Shaped
  <1>7. \A u : u # n => SameTable(d, e, u)
    BY <1>2, <1>5 DEF SameTable, Has
  <1>8. Has(e, n)
    BY <1>2, <1>5 DEF Has, n
  <1> QED  BY <1>4, <1>5, <1>6, <1>7, <1>8 DEF n, R

\* e has the stages of notes and chunks as d has them, and no watched index more.
Alike(d, e) ==
  /\ Shaped(e) /\ e.version = d.version
  /\ Has(d, "vaults") => Has(e, "vaults")
  /\ \A t \in Stages : SameTable(d, e, t)
  /\ \A i \in Watched : NoNewIndex(d, e, i)

\* Statements that touch no stage.
Minor(s) ==
  \/ \E t, key, refs : s = CreateTable(t, key, refs) /\ t \notin Stages
  \/ \E i, t : s = CreateIndex(i, t) /\ i \notin Watched
  \/ \E i : s = DropIndex(i)
  \/ \E t : s = DropTable(t) /\ t \notin Stages \cup {"vaults"}
  \/ \E row : s = Insert("vaults", row)

LEMMA Names ==
  /\ \A t \in Stages : t # "vaults"
  /\ "notes" \in Stages /\ "notes_legacy" \in Stages /\ "notes_scoped" \in Stages
  /\ "note_chunks" \in Stages /\ "note_chunks_legacy" \in Stages
  /\ "note_chunks_scoped" \in Stages
  BY DEF Stages, NoteTables, ChunkTables

LEMMA MinorAlike ==
  ASSUME NEW d, NEW s, Minor(s), Shaped(d),
         s.op = "create_table" => ~Has(d, s.name), s.op = "insert" => Has(d, s.name),
         NEW e, e = After(d, s)
  PROVE  Alike(d, e)
  <1>1. ASSUME NEW t, NEW key, NEW refs, s = CreateTable(t, key, refs), t \notin Stages
        PROVE  Alike(d, e)
    <2>1. ~Has(d, t)
      BY <1>1 DEF CreateTable
    <2>2. /\ Shaped(e) /\ e.version = d.version /\ e.indexes = d.indexes /\ Has(e, t)
          /\ \A u : u # t => SameTable(d, e, u)
      BY <1>1, <2>1, CreateTableEffect DEF HasKey
    <2>3. Has(d, "vaults") => Has(e, "vaults")
      BY <2>2 DEF SameTable
    <2> QED  BY <1>1, <2>2, <2>3 DEF Alike, NoNewIndex
  <1>2. ASSUME NEW i, NEW t, s = CreateIndex(i, t), i \notin Watched
        PROVE  Alike(d, e)
    <2>1. /\ Shaped(e) /\ e.version = d.version /\ e.tables = d.tables
          /\ \A j : j # i => NoNewIndex(d, e, j)
      BY <1>2, CreateIndexEffect
    <2> QED  BY <1>2, <2>1 DEF Alike, SameTable, Has
  <1>3. ASSUME NEW i, s = DropIndex(i)
        PROVE  Alike(d, e)
    <2>1. /\ Shaped(e) /\ e.version = d.version /\ e.tables = d.tables
          /\ \A j : NoNewIndex(d, e, j)
      BY <1>3, DropIndexEffect
    <2> QED  BY <2>1 DEF Alike, SameTable, Has
  <1>4. ASSUME NEW t, s = DropTable(t), t \notin Stages \cup {"vaults"}
        PROVE  Alike(d, e)
    <2>1. /\ Shaped(e) /\ e.version = d.version
          /\ \A u : u # t => SameTable(d, e, u)
          /\ \A j : NoNewIndex(d, e, j)
      BY <1>4, DropTableEffect
    <2>2. Has(d, "vaults") => Has(e, "vaults")
      BY <1>4, <2>1 DEF SameTable
    <2> QED  BY <1>4, <2>1, <2>2 DEF Alike
  <1>5. ASSUME NEW row, s = Insert("vaults", row)
        PROVE  Alike(d, e)
    <2>1. s.op = "insert" /\ s.name = "vaults"
      BY <1>5 DEF Insert
    <2>2. Has(d, s.name)
      BY <2>1
    <2>3. /\ Shaped(e) /\ e.version = d.version /\ e.indexes = d.indexes /\ Has(e, "vaults")
          /\ \A u : u # "vaults" => SameTable(d, e, u)
      BY <2>1, <2>2, RowsEffect
    <2> QED  BY <2>3, Names DEF Alike, NoNewIndex
  <1> QED  BY <1>1, <1>2, <1>3, <1>4, <1>5 DEF Minor

LEMMA AlikeSound ==
  ASSUME NEW d, NEW e, Sound(d), Alike(d, e)
  PROVE  Sound(e)
  <1>1. \A t \in Stages : Keyed(e, t)
    BY DEF Sound, Alike, SameTable, Keyed
  <1>2. \A key : \A t \in Stages : HasKey(e, t, key) <=> HasKey(d, t, key)
    BY DEF Alike, SameTable, HasKey
  <1>3. Behind(e)
    BY <1>2 DEF Sound, Alike, Behind
  <1>4. \A i \in Watched, t \in Stages : IndexOn(d, i, t) => IndexOn(e, i, t)
    BY <1>2 DEF Alike, NoNewIndex, IndexOn
  <1>5. AtHead(e)
    BY <1>4, Names DEF Sound, Alike, AtHead, SameTable, Watched
  <1> QED  BY <1>1, <1>3, <1>5 DEF Sound, Alike

LEMMA SameIds ==
  ASSUME NEW d, NEW e, NEW t, SameTable(d, e, t)
  PROVE  IdsIn(e, t) = IdsIn(d, t)
  BY DEF SameTable, IdsIn, Has

-----------------------------------------------------------------------------
(* The scripts, counted from their ends. *)

\* The names of tables and indexes.
Words ==
  {"vaults", "notes", "notes_legacy", "notes_scoped", "note_chunks", "note_chunks_legacy",
   "note_chunks_scoped", "file_snapshots", "saved_searches", "flashcards",
   "flashcard_review_state", "watcher_state", "knowledge_events",
   "ix_vaults_vault_id", "ix_notes_vault_note", "ix_notes_vault_id", "ix_notes_note_id",
   "ix_notes_content_hash", "ix_chunks_vault_note", "ix_note_chunks_vault_id",
   "ix_note_chunks_chunk_id", "ix_note_chunks_note_id", "ix_note_chunks_content_hash",
   "ix_snapshot_vault_hash", "ix_events_vault_created", "ix_knowledge_events_event_type"}
FirstRow == [id |-> <<Default>>, vault |-> Default]
Statement ==
  {CreateTable(t, key, refs) :
     t \in Words, key \in {{"note"}, VaultKey, ScopedKey},
     refs \in {NoRefs, InVault, OfNote, OfCard, [t \in {"notes"} |-> {"note"}]}}
  \cup {CreateIndex(i, t) : i \in Words, t \in Words}
  \cup {DropIndex(i) : i \in Words}
  \cup {DropTable(t) : t \in Words}
  \cup {Rename(t, new) : t \in Words, new \in Words}
  \cup {Insert("vaults", FirstRow)}
  \cup {CopyAsDefault(t, from) : t \in Words, from \in Words}
  \cup {CopyOfDefault(t, from) : t \in Words, from \in Words}
  \cup {Stamp(v) : v \in {Base, Revision1, Revision2}}

FromEnd(p, n) == p[Len(p) + 1 - n]

LEMMA StatementTypes ==
  /\ \A t \in Words : \A key \in {{"note"}, VaultKey, ScopedKey} :
       \A refs \in {NoRefs, InVault, OfNote, OfCard, [u \in {"notes"} |-> {"note"}]} :
         CreateTable(t, key, refs) \in Statement
  /\ \A i, t \in Words : /\ CreateIndex(i, t) \in Statement /\ DropIndex(i) \in Statement
                          /\ DropTable(t) \in Statement /\ Rename(i, t) \in Statement
                          /\ CopyAsDefault(i, t) \in Statement
                          /\ CopyOfDefault(i, t) \in Statement
  /\ Insert("vaults", FirstRow) \in Statement
  /\ \A v \in {Base, Revision1, Revision2} : Stamp(v) \in Statement
  BY DEF Statement

LEMMA WordsAre ==
  /\ "vaults" \in Words /\ "notes" \in Words /\ "notes_legacy" \in Words
  /\ "notes_scoped" \in Words /\ "note_chunks" \in Words /\ "note_chunks_legacy" \in Words
  /\ "note_chunks_scoped" \in Words /\ "file_snapshots" \in Words
  /\ "saved_searches" \in Words /\ "flashcards" \in Words
  /\ "flashcard_review_state" \in Words /\ "watcher_state" \in Words
  /\ "knowledge_events" \in Words /\ "ix_vaults_vault_id" \in Words
  /\ "ix_notes_vault_note" \in Words /\ "ix_notes_vault_id" \in Words
  /\ "ix_notes_note_id" \in Words /\ "ix_notes_content_hash" \in Words
  /\ "ix_chunks_vault_note" \in Words /\ "ix_note_chunks_vault_id" \in Words
  /\ "ix_note_chunks_chunk_id" \in Words /\ "ix_note_chunks_note_id" \in Words
  /\ "ix_note_chunks_content_hash" \in Words /\ "ix_snapshot_vault_hash" \in Words
  /\ "ix_events_vault_created" \in Words /\ "ix_knowledge_events_event_type" \in Words
  BY DEF Words

\* The end of two scripts, one after the other, is the end of the second, then
\* that of the first.
Concatenated(r, p, q) ==
  /\ r \in Seq(Statement) /\ Len(r) = Len(p) + Len(q)
  /\ \A n \in 1..Len(p) + Len(q) :
       FromEnd(r, n) = IF n <= Len(q) THEN FromEnd(q, n) ELSE FromEnd(p, n - Len(q))

LEMMA EndOfBoth ==
  ASSUME NEW p \in Seq(Statement), NEW q \in Seq(Statement)
  PROVE  Concatenated(p \o q, p, q)
  <1>1. /\ p \o q \in Seq(Statement) /\ Len(p \o q) = Len(p) + Len(q)
        /\ Len(p) \in Nat /\ Len(q) \in Nat
        /\ \A k \in 1..Len(p) + Len(q) :
             (p \o q)[k] = IF k <= Len(p) THEN p[k] ELSE q[k - Len(p)]
    OBVIOUS
  <1> DEFINE pq == p \o q
  <1> HIDE DEF pq
  <1>2. \A n \in 1..Len(p) + Len(q) :
          FromEnd(pq, n) = IF n <= Len(q) THEN FromEnd(q, n) ELSE FromEnd(p, n - Len(q))
    <2> TAKE n \in 1..Len(p) + Len(q)
    <2>1. CASE n <= Len(q)
      <3>1. Len(pq) + 1 - n \in 1..Len(p) + Len(q) /\ Len(pq) + 1 - n > Len(p)
            /\ Len(pq) + 1 - n - Len(p) = Len(q) + 1 - n
        BY <1>1, <2>1 DEF pq
      <3> QED  BY <1>1, <2>1, <3>1 DEF FromEnd, pq
    <2>2. CASE n > Len(q)
      <3>1. Len(pq) + 1 - n \in 1..Len(p) /\ Len(pq) + 1 - n = Len(p) + 1 - (n - Len(q))
        BY <1>1, <2>2 DEF pq
      <3> QED  BY <1>1, <2>2, <3>1 DEF FromEnd, pq
    <2> QED  BY <1>1, <2>1, <2>2
  <1> QED  BY <1>1, <1>2 DEF pq, Concatenated

\* Short lists.
LEMMA OneEnd ==
  ASSUME NEW S, NEW a \in S
  PROVE  <<a>> \in Seq(S) /\ Len(<<a>>) = 1 /\ FromEnd(<<a>>, 1) = a
  BY DEF FromEnd

LEMMA TwoEnd ==
  ASSUME NEW S, NEW a \in S, NEW b \in S
  PROVE  /\ <<a, b>> \in Seq(S) /\ Len(<<a, b>>) = 2
         /\ FromEnd(<<a, b>>, 1) = b /\ FromEnd(<<a, b>>, 2) = a
  <1> DEFINE p == <<a, b>>
  <1>1. p \in Seq(S) /\ Len(p) = 2 /\ p[1] = a /\ p[2] = b
    OBVIOUS
  <1> HIDE DEF p
  <1>2. FromEnd(p, 1) = p[2] /\ FromEnd(p, 2) = p[1]
    BY <1>1 DEF FromEnd
  <1> QED  BY <1>1, <1>2 DEF p

LEMMA ThreeEnd ==
  ASSUME NEW S, NEW a \in S, NEW b \in S, NEW c \in S
  PROVE  /\ <<a, b, c>> \in Seq(S) /\ Len(<<a, b, c>>) = 3
         /\ FromEnd(<<a, b, c>>, 1) = c /\ FromEnd(<<a, b, c>>, 2) = b
         /\ FromEnd(<<a, b, c>>, 3) = a
  <1> DEFINE p == <<a, b, c>>
  <1>1. p \in Seq(S) /\ Len(p) = 3 /\ p[1] = a /\ p[2] = b /\ p[3] = c
    OBVIOUS
  <1> HIDE DEF p
  <1>2. FromEnd(p, 1) = p[3] /\ FromEnd(p, 2) = p[2] /\ FromEnd(p, 3) = p[1]
    BY <1>1 DEF FromEnd
  <1> QED  BY <1>1, <1>2 DEF p

LEMMA FourEnd ==
  ASSUME NEW S, NEW a \in S, NEW b \in S, NEW c \in S, NEW f \in S
  PROVE  /\ <<a, b, c, f>> \in Seq(S) /\ Len(<<a, b, c, f>>) = 4
         /\ FromEnd(<<a, b, c, f>>, 1) = f /\ FromEnd(<<a, b, c, f>>, 2) = c
         /\ FromEnd(<<a, b, c, f>>, 3) = b /\ FromEnd(<<a, b, c, f>>, 4) = a
  <1> DEFINE p == <<a, b, c, f>>
  <1>1. p \in Seq(S) /\ Len(p) = 4 /\ p[1] = a /\ p[2] = b /\ p[3] = c /\ p[4] = f
    OBVIOUS
  <1> HIDE DEF p
  <1>2. /\ FromEnd(p, 1) = p[4] /\ FromEnd(p, 2) = p[3]
        /\ FromEnd(p, 3) = p[2] /\ FromEnd(p, 4) = p[1]
    BY <1>1 DEF FromEnd
  <1> QED  BY <1>1, <1>2 DEF p

LEMMA MinorKinds ==
  /\ \A t, key, refs : t \notin Stages => Minor(CreateTable(t, key, refs))
  /\ \A i, t : i \notin Watched => Minor(CreateIndex(i, t))
  /\ \A i : Minor(DropIndex(i))
  /\ \A t : t \notin Stages \cup {"vaults"} => Minor(DropTable(t))
  /\ \A row : Minor(Insert("vaults", row))
  BY DEF Minor

ChunkRefs == [t \in {"notes"} |-> {"note"}]

Down == Downgrade2 \o <<Stamp(Revision1)>>

LEMMA Upgrade1End ==
  /\ Upgrade1 \in Seq(Statement) /\ Len(Upgrade1) = 7
  /\ FromEnd(Upgrade1, 4) = CreateTable("note_chunks", {"note"}, ChunkRefs)
  /\ FromEnd(Upgrade1, 7) = CreateTable("notes", {"note"}, NoRefs)
  /\ \A n \in (1..3) \cup {5, 6} : Minor(FromEnd(Upgrade1, n))
  <1> DEFINE
    p1 == <<CreateTable("notes", {"note"}, NoRefs)>>
    p2 == <<CreateIndex("ix_notes_note_id", "notes"),
            CreateIndex("ix_notes_content_hash", "notes")>>
    p3 == <<CreateTable("note_chunks", {"note"}, ChunkRefs)>>
    p4 == <<CreateIndex("ix_note_chunks_chunk_id", "note_chunks"),
            CreateIndex("ix_note_chunks_note_id", "note_chunks"),
            CreateIndex("ix_note_chunks_content_hash", "note_chunks")>>
    r2 == p1 \o p2
    r3 == r2 \o p3
  <1>e1. Indexes("notes", <<"ix_notes_note_id", "ix_notes_content_hash">>) = p2
    BY DEF Indexes
  <1>e2. Indexes("note_chunks", <<"ix_note_chunks_chunk_id",
              "ix_note_chunks_note_id", "ix_note_chunks_content_hash">>) = p4
    BY DEF Indexes
  <1>1. Upgrade1 = r3 \o p4
    BY <1>e1, <1>e2, Zenon DEF Upgrade1, ChunkRefs
  <1>2. /\ p1 \in Seq(Statement) /\ Len(p1) = 1
        /\ FromEnd(p1, 1) = CreateTable("notes", {"note"}, NoRefs)
    <2>1. /\ CreateTable("notes", {"note"}, NoRefs) \in Statement
      BY StatementTypes, WordsAre
    <2> QED  BY <2>1, OneEnd
  <1>3. /\ p2 \in Seq(Statement) /\ Len(p2) = 2
        /\ FromEnd(p2, 2) = CreateIndex("ix_notes_note_id", "notes")
        /\ FromEnd(p2, 1) = CreateIndex("ix_notes_content_hash", "notes")
    <2>1. /\ CreateIndex("ix_notes_note_id", "notes") \in Statement
          /\ CreateIndex("ix_notes_content_hash", "notes") \in Statement
      BY StatementTypes, WordsAre
    <2> QED  BY <2>1, TwoEnd
  <1>4. /\ p3 \in Seq(Statement) /\ Len(p3) = 1
        /\ FromEnd(p3, 1) = CreateTable("note_chunks", {"note"}, ChunkRefs)
    <2>1. /\ CreateTable("note_chunks", {"note"}, ChunkRefs) \in Statement
      BY StatementTypes, WordsAre DEF ChunkRefs
    <2> QED  BY <2>1, OneEnd
  <1>5. /\ p4 \in Seq(Statement) /\ Len(p4) = 3
        /\ FromEnd(p4, 3) = CreateIndex("ix_note_chunks_chunk_id", "note_chunks")
        /\ FromEnd(p4, 2) = CreateIndex("ix_note_chunks_note_id", "note_chunks")
        /\ FromEnd(p4, 1) = CreateIndex("ix_note_chunks_content_hash", "note_chunks")
    <2>1. /\ CreateIndex("ix_note_chunks_chunk_id", "note_chunks") \in Statement
          /\ CreateIndex("ix_note_chunks_note_id", "note_chunks") \in Statement
          /\ CreateIndex("ix_note_chunks_content_hash", "note_chunks") \in Statement
      BY StatementTypes, WordsAre
    <2> QED  BY <2>1, ThreeEnd
  <1>6. /\ Minor(FromEnd(p2, 1))
        /\ Minor(FromEnd(p2, 2))
        /\ Minor(FromEnd(p4, 1))
        /\ Minor(FromEnd(p4, 2))
        /\ Minor(FromEnd(p4, 3))
    BY <1>3, <1>5, MinorKinds DEF Watched, Stages, NoteTables, ChunkTables
  <1> HIDE DEF p1, p2, p3, p4
  <1>7. Concatenated(r2, p1, p2)
    BY <1>2, <1>3, EndOfBoth DEF Concatenated
  <1> HIDE DEF r2
  <1>8. Concatenated(r3, r2, p3)
    BY <1>7, <1>4, EndOfBoth DEF Concatenated
  <1> HIDE DEF r3
  <1>9. Concatenated(Upgrade1, r3, p4)
    BY <1>1, <1>8, <1>5, EndOfBoth DEF Concatenated
  <1>10. /\ Upgrade1 \in Seq(Statement)
        /\ Len(p1) = 1 /\ Len(p2) = 2 /\ Len(p3) = 1 /\ Len(p4) = 3 /\ Len(r2) = 3
        /\ Len(r3) = 4 /\ Len(Upgrade1) = 7
    BY <1>2, <1>3, <1>4, <1>5, <1>7, <1>8, <1>9 DEF Concatenated
  <1>11. /\ FromEnd(Upgrade1, 1) = FromEnd(p4, 1)
        /\ FromEnd(Upgrade1, 2) = FromEnd(p4, 2)
        /\ FromEnd(Upgrade1, 3) = FromEnd(p4, 3)
    BY <1>9, <1>10 DEF Concatenated
  <1>12. /\ FromEnd(Upgrade1, 4) = FromEnd(p3, 1)
    BY <1>8, <1>9, <1>10 DEF Concatenated
  <1>13. /\ FromEnd(Upgrade1, 5) = FromEnd(p2, 1)
        /\ FromEnd(Upgrade1, 6) = FromEnd(p2, 2)
    BY <1>7, <1>8, <1>9, <1>10 DEF Concatenated
  <1>14. /\ FromEnd(Upgrade1, 7) = FromEnd(p1, 1)
    BY <1>7, <1>8, <1>9, <1>10 DEF Concatenated
  <1> QED  BY <1>2, <1>3, <1>4, <1>5, <1>6, <1>10, <1>11, <1>12, <1>13, <1>14


LEMMA PutAsideEnd ==
  /\ PutAside \in Seq(Statement) /\ Len(PutAside) = 7
  /\ FromEnd(PutAside, 1) = Rename("notes", "notes_legacy")
  /\ FromEnd(PutAside, 2) = Rename("note_chunks", "note_chunks_legacy")
  /\ \A n \in 3..7 : Minor(FromEnd(PutAside, n))
  <1> DEFINE
    p1 == <<DropIndex("ix_note_chunks_chunk_id"), DropIndex("ix_note_chunks_note_id"),
            DropIndex("ix_note_chunks_content_hash"), DropIndex("ix_notes_note_id"),
            DropIndex("ix_notes_content_hash")>>
    p2 == <<Rename("note_chunks", "note_chunks_legacy"), Rename("notes", "notes_legacy")>>
  <1>e1. DropIndexes(<<"ix_note_chunks_chunk_id", "ix_note_chunks_note_id",
              "ix_note_chunks_content_hash", "ix_notes_note_id",
              "ix_notes_content_hash">>) = p1
    BY DEF DropIndexes
  <1>1. PutAside = p1 \o p2
    BY <1>e1, Zenon DEF PutAside
  <1>2. /\ p1 \in Seq(Statement) /\ Len(p1) = 5
        /\ FromEnd(p1, 5) = DropIndex("ix_note_chunks_chunk_id")
        /\ FromEnd(p1, 4) = DropIndex("ix_note_chunks_note_id")
        /\ FromEnd(p1, 3) = DropIndex("ix_note_chunks_content_hash")
        /\ FromEnd(p1, 2) = DropIndex("ix_notes_note_id")
        /\ FromEnd(p1, 1) = DropIndex("ix_notes_content_hash")
    <2>1. /\ DropIndex("ix_note_chunks_chunk_id") \in Statement
          /\ DropIndex("ix_note_chunks_note_id") \in Statement
          /\ DropIndex("ix_note_chunks_content_hash") \in Statement
          /\ DropIndex("ix_notes_note_id") \in Statement
          /\ DropIndex("ix_notes_content_hash") \in Statement
      BY StatementTypes, WordsAre
    <2>2. /\ p1 \in Seq(Statement) /\ Len(p1) = 5
          /\ p1[1] = DropIndex("ix_note_chunks_chunk_id")
          /\ p1[2] = DropIndex("ix_note_chunks_note_id")
          /\ p1[3] = DropIndex("ix_note_chunks_content_hash")
          /\ p1[4] = DropIndex("ix_notes_note_id")
          /\ p1[5] = DropIndex("ix_notes_content_hash")
      BY <2>1
    <2> HIDE DEF p1
    <2> QED  BY <2>2 DEF FromEnd
  <1>3. /\ p2 \in Seq(Statement) /\ Len(p2) = 2
        /\ FromEnd(p2, 2) = Rename("note_chunks", "note_chunks_legacy")
        /\ FromEnd(p2, 1) = Rename("notes", "notes_legacy")
    <2>1. /\ Rename("note_chunks", "note_chunks_legacy") \in Statement
          /\ Rename("notes", "notes_legacy") \in Statement
      BY StatementTypes, WordsAre
    <2> QED  BY <2>1, TwoEnd
  <1>4. /\ Minor(FromEnd(p1, 1))
        /\ Minor(FromEnd(p1, 2))
        /\ Minor(FromEnd(p1, 3))
        /\ Minor(FromEnd(p1, 4))
        /\ Minor(FromEnd(p1, 5))
    BY <1>2, MinorKinds DEF Watched, Stages, NoteTables, ChunkTables
  <1> HIDE DEF p1, p2
  <1>5. Concatenated(PutAside, p1, p2)
    BY <1>1, <1>2, <1>3, EndOfBoth DEF Concatenated
  <1>6. /\ PutAside \in Seq(Statement)
        /\ Len(p1) = 5 /\ Len(p2) = 2 /\ Len(PutAside) = 7
    BY <1>2, <1>3, <1>5 DEF Concatenated
  <1>7. /\ FromEnd(PutAside, 1) = FromEnd(p2, 1)
        /\ FromEnd(PutAside, 2) = FromEnd(p2, 2)
    BY <1>5, <1>6 DEF Concatenated
  <1>8. /\ FromEnd(PutAside, 3) = FromEnd(p1, 1)
        /\ FromEnd(PutAside, 4) = FromEnd(p1, 2)
        /\ FromEnd(PutAside, 5) = FromEnd(p1, 3)
        /\ FromEnd(PutAside, 6) = FromEnd(p1, 4)
        /\ FromEnd(PutAside, 7) = FromEnd(p1, 5)
    BY <1>5, <1>6 DEF Concatenated
  <1> QED  BY <1>2, <1>3, <1>4, <1>6, <1>7, <1>8


LEMMA ScopedNotesEnd ==
  /\ ScopedNotes \in Seq(Statement) /\ Len(ScopedNotes) = 6
  /\ FromEnd(ScopedNotes, 1) = CopyAsDefault("notes", "notes_legacy")
  /\ FromEnd(ScopedNotes, 3) = CreateIndex("ix_notes_vault_note", "notes")
  /\ FromEnd(ScopedNotes, 6) = CreateTable("notes", ScopedKey, InVault)
  /\ \A n \in {2, 4, 5} : Minor(FromEnd(ScopedNotes, n))
  <1> DEFINE
    p1 == <<CreateTable("notes", ScopedKey, InVault)>>
    p2 == <<CreateIndex("ix_notes_vault_id", "notes"),
            CreateIndex("ix_notes_note_id", "notes"),
            CreateIndex("ix_notes_vault_note", "notes"),
            CreateIndex("ix_notes_content_hash", "notes")>>
    p3 == <<CopyAsDefault("notes", "notes_legacy")>>
    r2 == p1 \o p2
  <1>e1. Indexes("notes", <<"ix_notes_vault_id", "ix_notes_note_id",
              "ix_notes_vault_note", "ix_notes_content_hash">>) = p2
    BY DEF Indexes
  <1>1. ScopedNotes = r2 \o p3
    BY <1>e1, Zenon DEF ScopedNotes
  <1>2. /\ p1 \in Seq(Statement) /\ Len(p1) = 1
        /\ FromEnd(p1, 1) = CreateTable("notes", ScopedKey, InVault)
    <2>1. /\ CreateTable("notes", ScopedKey, InVault) \in Statement
      BY StatementTypes, WordsAre
    <2> QED  BY <2>1, OneEnd
  <1>3. /\ p2 \in Seq(Statement) /\ Len(p2) = 4
        /\ FromEnd(p2, 4) = CreateIndex("ix_notes_vault_id", "notes")
        /\ FromEnd(p2, 3) = CreateIndex("ix_notes_note_id", "notes")
        /\ FromEnd(p2, 2) = CreateIndex("ix_notes_vault_note", "notes")
        /\ FromEnd(p2, 1) = CreateIndex("ix_notes_content_hash", "notes")
    <2>1. /\ CreateIndex("ix_notes_vault_id", "notes") \in Statement
          /\ CreateIndex("ix_notes_note_id", "notes") \in Statement
          /\ CreateIndex("ix_notes_vault_note", "notes") \in Statement
          /\ CreateIndex("ix_notes_content_hash", "notes") \in Statement
      BY StatementTypes, WordsAre
    <2> QED  BY <2>1, FourEnd
  <1>4. /\ p3 \in Seq(Statement) /\ Len(p3) = 1
        /\ FromEnd(p3, 1) = CopyAsDefault("notes", "notes_legacy")
    <2>1. /\ CopyAsDefault("notes", "notes_legacy") \in Statement
      BY StatementTypes, WordsAre
    <2> QED  BY <2>1, OneEnd
  <1>5. /\ Minor(FromEnd(p2, 1))
        /\ Minor(FromEnd(p2, 3))
        /\ Minor(FromEnd(p2, 4))
    BY <1>3, MinorKinds DEF Watched, Stages, NoteTables, ChunkTables
  <1> HIDE DEF p1, p2, p3
  <1>6. Concatenated(r2, p1, p2)
    BY <1>2, <1>3, EndOfBoth DEF Concatenated
  <1> HIDE DEF r2
  <1>7. Concatenated(ScopedNotes, r2, p3)
    BY <1>1, <1>6, <1>4, EndOfBoth DEF Concatenated
  <1>8. /\ ScopedNotes \in Seq(Statement)
        /\ Len(p1) = 1 /\ Len(p2) = 4 /\ Len(p3) = 1 /\ Len(r2) = 5
        /\ Len(ScopedNotes) = 6
    BY <1>2, <1>3, <1>4, <1>6, <1>7 DEF Concatenated
  <1>9. /\ FromEnd(ScopedNotes, 1) = FromEnd(p3, 1)
    BY <1>7, <1>8 DEF Concatenated
  <1>10. /\ FromEnd(ScopedNotes, 2) = FromEnd(p2, 1)
        /\ FromEnd(ScopedNotes, 3) = FromEnd(p2, 2)
        /\ FromEnd(ScopedNotes, 4) = FromEnd(p2, 3)
        /\ FromEnd(ScopedNotes, 5) = FromEnd(p2, 4)
    BY <1>6, <1>7, <1>8 DEF Concatenated
  <1>11. /\ FromEnd(ScopedNotes, 6) = FromEnd(p1, 1)
    BY <1>6, <1>7, <1>8 DEF Concatenated
  <1> QED  BY <1>2, <1>3, <1>4, <1>5, <1>8, <1>9, <1>10, <1>11


LEMMA ScopedChunksEnd ==
  /\ ScopedChunks \in Seq(Statement) /\ Len(ScopedChunks) = 7
  /\ FromEnd(ScopedChunks, 1) = CopyAsDefault("note_chunks", "note_chunks_legacy")
  /\ FromEnd(ScopedChunks, 3) = CreateIndex("ix_chunks_vault_note", "note_chunks")
  /\ FromEnd(ScopedChunks, 7) = CreateTable("note_chunks", ScopedKey, OfNote)
  /\ \A n \in (4..6) \cup {2} : Minor(FromEnd(ScopedChunks, n))
  <1> DEFINE
    p1 == <<CreateTable("note_chunks", ScopedKey, OfNote)>>
    p2 == <<CreateIndex("ix_note_chunks_vault_id", "note_chunks"),
            CreateIndex("ix_note_chunks_chunk_id", "note_chunks"),
            CreateIndex("ix_note_chunks_note_id", "note_chunks"),
            CreateIndex("ix_chunks_vault_note", "note_chunks"),
            CreateIndex("ix_note_chunks_content_hash", "note_chunks")>>
    p3 == <<CopyAsDefault("note_chunks", "note_chunks_legacy")>>
    r2 == p1 \o p2
  <1>e1. Indexes("note_chunks", <<"ix_note_chunks_vault_id",
              "ix_note_chunks_chunk_id", "ix_note_chunks_note_id",
              "ix_chunks_vault_note", "ix_note_chunks_content_hash">>) = p2
    BY DEF Indexes
  <1>1. ScopedChunks = r2 \o p3
    BY <1>e1, Zenon DEF ScopedChunks, ChunkIndexes
  <1>2. /\ p1 \in Seq(Statement) /\ Len(p1) = 1
        /\ FromEnd(p1, 1) = CreateTable("note_chunks", ScopedKey, OfNote)
    <2>1. /\ CreateTable("note_chunks", ScopedKey, OfNote) \in Statement
      BY StatementTypes, WordsAre
    <2> QED  BY <2>1, OneEnd
  <1>3. /\ p2 \in Seq(Statement) /\ Len(p2) = 5
        /\ FromEnd(p2, 5) = CreateIndex("ix_note_chunks_vault_id", "note_chunks")
        /\ FromEnd(p2, 4) = CreateIndex("ix_note_chunks_chunk_id", "note_chunks")
        /\ FromEnd(p2, 3) = CreateIndex("ix_note_chunks_note_id", "note_chunks")
        /\ FromEnd(p2, 2) = CreateIndex("ix_chunks_vault_note", "note_chunks")
        /\ FromEnd(p2, 1) = CreateIndex("ix_note_chunks_content_hash", "note_chunks")
    <2>1. /\ CreateIndex("ix_note_chunks_vault_id", "note_chunks") \in Statement
          /\ CreateIndex("ix_note_chunks_chunk_id", "note_chunks") \in Statement
          /\ CreateIndex("ix_note_chunks_note_id", "note_chunks") \in Statement
          /\ CreateIndex("ix_chunks_vault_note", "note_chunks") \in Statement
          /\ CreateIndex("ix_note_chunks_content_hash", "note_chunks") \in Statement
      BY StatementTypes, WordsAre
    <2>2. /\ p2 \in Seq(Statement) /\ Len(p2) = 5
          /\ p2[1] = CreateIndex("ix_note_chunks_vault_id", "note_chunks")
          /\ p2[2] = CreateIndex("ix_note_chunks_chunk_id", "note_chunks")
          /\ p2[3] = CreateIndex("ix_note_chunks_note_id", "note_chunks")
          /\ p2[4] = CreateIndex("ix_chunks_vault_note", "note_chunks")
          /\ p2[5] = CreateIndex("ix_note_chunks_content_hash", "note_chunks")
      BY <2>1
    <2> HIDE DEF p2
    <2> QED  BY <2>2 DEF FromEnd
  <1>4. /\ p3 \in Seq(Statement) /\ Len(p3) = 1
        /\ FromEnd(p3, 1) = CopyAsDefault("note_chunks", "note_chunks_legacy")
    <2>1. /\ CopyAsDefault("note_chunks", "note_chunks_legacy") \in Statement
      BY StatementTypes, WordsAre
    <2> QED  BY <2>1, OneEnd
  <1>5. /\ Minor(FromEnd(p2, 1))
        /\ Minor(FromEnd(p2, 3))
        /\ Minor(FromEnd(p2, 4))
        /\ Minor(FromEnd(p2, 5))
    BY <1>3, MinorKinds DEF Watched, Stages, NoteTables, ChunkTables
  <1> HIDE DEF p1, p2, p3
  <1>6. Concatenated(r2, p1, p2)
    BY <1>2, <1>3, EndOfBoth DEF Concatenated
  <1> HIDE DEF r2
  <1>7. Concatenated(ScopedChunks, r2, p3)
    BY <1>1, <1>6, <1>4, EndOfBoth DEF Concatenated
  <1>8. /\ ScopedChunks \in Seq(Statement)
        /\ Len(p1) = 1 /\ Len(p2) = 5 /\ Len(p3) = 1 /\ Len(r2) = 6
        /\ Len(ScopedChunks) = 7
    BY <1>2, <1>3, <1>4, <1>6, <1>7 DEF Concatenated
  <1>9. /\ FromEnd(ScopedChunks, 1) = FromEnd(p3, 1)
    BY <1>7, <1>8 DEF Concatenated
  <1>10. /\ FromEnd(ScopedChunks, 2) = FromEnd(p2, 1)
        /\ FromEnd(ScopedChunks, 3) = FromEnd(p2, 2)
        /\ FromEnd(ScopedChunks, 4) = FromEnd(p2, 3)
        /\ FromEnd(ScopedChunks, 5) = FromEnd(p2, 4)
        /\ FromEnd(ScopedChunks, 6) = FromEnd(p2, 5)
    BY <1>6, <1>7, <1>8 DEF Concatenated
  <1>11. /\ FromEnd(ScopedChunks, 7) = FromEnd(p1, 1)
    BY <1>6, <1>7, <1>8 DEF Concatenated
  <1> QED  BY <1>2, <1>3, <1>4, <1>5, <1>8, <1>9, <1>10, <1>11


LEMMA MilestoneTablesEnd ==
  /\ MilestoneTables \in Seq(Statement) /\ Len(MilestoneTables) = 9
  /\ \A n \in 1..9 : Minor(FromEnd(MilestoneTables, n))
  <1> DEFINE
    p1 == <<CreateTable("file_snapshots", ScopedKey, InVault),
            CreateIndex("ix_snapshot_vault_hash", "file_snapshots"),
            CreateTable("saved_searches", ScopedKey, InVault),
            CreateTable("flashcards", ScopedKey, OfNote),
            CreateTable("flashcard_review_state", ScopedKey, OfCard),
            CreateTable("watcher_state", VaultKey, InVault),
            CreateTable("knowledge_events", ScopedKey, InVault)>>
    p2 == <<CreateIndex("ix_knowledge_events_event_type", "knowledge_events"),
            CreateIndex("ix_events_vault_created", "knowledge_events")>>
  <1>e1. Indexes("knowledge_events", <<"ix_knowledge_events_event_type",
              "ix_events_vault_created">>) = p2
    BY DEF Indexes
  <1>1. MilestoneTables = p1 \o p2
    BY <1>e1, Zenon DEF MilestoneTables
  <1>2. /\ p1 \in Seq(Statement) /\ Len(p1) = 7
        /\ FromEnd(p1, 7) = CreateTable("file_snapshots", ScopedKey, InVault)
        /\ FromEnd(p1, 6) = CreateIndex("ix_snapshot_vault_hash", "file_snapshots")
        /\ FromEnd(p1, 5) = CreateTable("saved_searches", ScopedKey, InVault)
        /\ FromEnd(p1, 4) = CreateTable("flashcards", ScopedKey, OfNote)
        /\ FromEnd(p1, 3) = CreateTable("flashcard_review_state", ScopedKey, OfCard)
        /\ FromEnd(p1, 2) = CreateTable("watcher_state", VaultKey, InVault)
        /\ FromEnd(p1, 1) = CreateTable("knowledge_events", ScopedKey, InVault)
    <2>1. /\ CreateTable("file_snapshots", ScopedKey, InVault) \in Statement
          /\ CreateIndex("ix_snapshot_vault_hash", "file_snapshots") \in Statement
          /\ CreateTable("saved_searches", ScopedKey, InVault) \in Statement
          /\ CreateTable("flashcards", ScopedKey, OfNote) \in Statement
          /\ CreateTable("flashcard_review_state", ScopedKey, OfCard) \in Statement
          /\ CreateTable("watcher_state", VaultKey, InVault) \in Statement
          /\ CreateTable("knowledge_events", ScopedKey, InVault) \in Statement
      BY StatementTypes, WordsAre
    <2>2. /\ p1 \in Seq(Statement) /\ Len(p1) = 7
          /\ p1[1] = CreateTable("file_snapshots", ScopedKey, InVault)
          /\ p1[2] = CreateIndex("ix_snapshot_vault_hash", "file_snapshots")
          /\ p1[3] = CreateTable("saved_searches", ScopedKey, InVault)
          /\ p1[4] = CreateTable("flashcards", ScopedKey, OfNote)
          /\ p1[5] = CreateTable("flashcard_review_state", ScopedKey, OfCard)
          /\ p1[6] = CreateTable("watcher_state", VaultKey, InVault)
          /\ p1[7] = CreateTable("knowledge_events", ScopedKey, InVault)
      BY <2>1
    <2> HIDE DEF p1
    <2> QED  BY <2>2 DEF FromEnd
  <1>3. /\ p2 \in Seq(Statement) /\ Len(p2) = 2
        /\ FromEnd(p2, 2) = CreateIndex("ix_knowledge_events_event_type", "knowledge_events")
        /\ FromEnd(p2, 1) = CreateIndex("ix_events_vault_created", "knowledge_events")
    <2>1. /\ CreateIndex("ix_knowledge_events_event_type", "knowledge_events") \in Statement
          /\ CreateIndex("ix_events_vault_created", "knowledge_events") \in Statement
      BY StatementTypes, WordsAre
    <2> QED  BY <2>1, TwoEnd
  <1>4. /\ Minor(FromEnd(p1, 1))
        /\ Minor(FromEnd(p1, 2))
        /\ Minor(FromEnd(p1, 3))
        /\ Minor(FromEnd(p1, 4))
        /\ Minor(FromEnd(p1, 5))
        /\ Minor(FromEnd(p1, 6))
        /\ Minor(FromEnd(p1, 7))
        /\ Minor(FromEnd(p2, 1))
        /\ Minor(FromEnd(p2, 2))
    BY <1>2, <1>3, MinorKinds DEF Watched, Stages, NoteTables, ChunkTables
  <1> HIDE DEF p1, p2
  <1>5. Concatenated(MilestoneTables, p1, p2)
    BY <1>1, <1>2, <1>3, EndOfBoth DEF Concatenated
  <1>6. /\ MilestoneTables \in Seq(Statement)
        /\ Len(p1) = 7 /\ Len(p2) = 2 /\ Len(MilestoneTables) = 9
    BY <1>2, <1>3, <1>5 DEF Concatenated
  <1>7. /\ FromEnd(MilestoneTables, 1) = FromEnd(p2, 1)
        /\ FromEnd(MilestoneTables, 2) = FromEnd(p2, 2)
    BY <1>5, <1>6 DEF Concatenated
  <1>8. /\ FromEnd(MilestoneTables, 3) = FromEnd(p1, 1)
        /\ FromEnd(MilestoneTables, 4) = FromEnd(p1, 2)
        /\ FromEnd(MilestoneTables, 5) = FromEnd(p1, 3)
        /\ FromEnd(MilestoneTables, 6) = FromEnd(p1, 4)
        /\ FromEnd(MilestoneTables, 7) = FromEnd(p1, 5)
        /\ FromEnd(MilestoneTables, 8) = FromEnd(p1, 6)
        /\ FromEnd(MilestoneTables, 9) = FromEnd(p1, 7)
    BY <1>5, <1>6 DEF Concatenated
  <1> QED  BY <1>2, <1>3, <1>4, <1>6, <1>7, <1>8


LEMMA DownEnd ==
  /\ Down \in Seq(Statement) /\ Len(Down) = 33
  /\ FromEnd(Down, 1) = Stamp(Revision1)
  /\ FromEnd(Down, 2) = DropTable("vaults")
  /\ FromEnd(Down, 3) = DropTable("notes_scoped")
  /\ FromEnd(Down, 4) = DropTable("note_chunks_scoped")
  /\ FromEnd(Down, 5) = CopyOfDefault("note_chunks", "note_chunks_scoped")
  /\ FromEnd(Down, 9) = CreateTable("note_chunks", {"note"}, ChunkRefs)
  /\ FromEnd(Down, 10) = CopyOfDefault("notes", "notes_scoped")
  /\ FromEnd(Down, 13) = CreateTable("notes", {"note"}, NoRefs)
  /\ FromEnd(Down, 14) = Rename("notes", "notes_scoped")
  /\ FromEnd(Down, 15) = Rename("note_chunks", "note_chunks_scoped")
  /\ FromEnd(Down, 17) = DropIndex("ix_notes_vault_note")
  /\ FromEnd(Down, 21) = DropIndex("ix_chunks_vault_note")
  /\ \A n \in (6..8) \cup (18..20) \cup (22..33) \cup {11, 12, 16} : Minor(FromEnd(Down, n))
  <1> DEFINE
    p1 == <<DropIndex("ix_events_vault_created"),
            DropIndex("ix_knowledge_events_event_type")>>
    p2 == <<DropTable("knowledge_events"), DropTable("watcher_state"),
            DropTable("flashcard_review_state"), DropTable("flashcards"),
            DropTable("saved_searches"), DropIndex("ix_snapshot_vault_hash"),
            DropTable("file_snapshots")>>
    p3 == <<DropIndex("ix_note_chunks_vault_id"), DropIndex("ix_note_chunks_chunk_id"),
            DropIndex("ix_note_chunks_note_id"), DropIndex("ix_chunks_vault_note"),
            DropIndex("ix_note_chunks_content_hash")>>
    p4 == <<DropIndex("ix_notes_vault_id"), DropIndex("ix_notes_note_id"),
            DropIndex("ix_notes_vault_note"), DropIndex("ix_notes_content_hash")>>
    p5 == <<Rename("note_chunks", "note_chunks_scoped"),
            Rename("notes", "notes_scoped"), CreateTable("notes", {"note"}, NoRefs)>>
    p6 == <<CreateIndex("ix_notes_note_id", "notes"),
            CreateIndex("ix_notes_content_hash", "notes")>>
    p7 == <<CopyOfDefault("notes", "notes_scoped"),
            CreateTable("note_chunks", {"note"}, ChunkRefs)>>
    p8 == <<CreateIndex("ix_note_chunks_chunk_id", "note_chunks"),
            CreateIndex("ix_note_chunks_note_id", "note_chunks"),
            CreateIndex("ix_note_chunks_content_hash", "note_chunks")>>
    p9 == <<CopyOfDefault("note_chunks", "note_chunks_scoped"),
            DropTable("note_chunks_scoped"), DropTable("notes_scoped"),
            DropTable("vaults")>>
    p10 == <<Stamp(Revision1)>>
    r2 == p1 \o p2
    r3 == r2 \o p3
    r4 == r3 \o p4
    r5 == r4 \o p5
    r6 == r5 \o p6
    r7 == r6 \o p7
    r8 == r7 \o p8
    r9 == r8 \o p9
  <1>e1. DropIndexes(<<"ix_events_vault_created",
              "ix_knowledge_events_event_type">>) = p1
    BY DEF DropIndexes
  <1>e2. DropIndexes(<<"ix_note_chunks_vault_id", "ix_note_chunks_chunk_id",
              "ix_note_chunks_note_id", "ix_chunks_vault_note",
              "ix_note_chunks_content_hash">>) = p3
    BY DEF DropIndexes
  <1>e3. DropIndexes(<<"ix_notes_vault_id", "ix_notes_note_id",
              "ix_notes_vault_note", "ix_notes_content_hash">>) = p4
    BY DEF DropIndexes
  <1>e4. Indexes("notes", <<"ix_notes_note_id", "ix_notes_content_hash">>) = p6
    BY DEF Indexes
  <1>e5. Indexes("note_chunks", <<"ix_note_chunks_chunk_id",
              "ix_note_chunks_note_id", "ix_note_chunks_content_hash">>) = p8
    BY DEF Indexes
  <1>1. Down = r9 \o p10
    BY <1>e1, <1>e2, <1>e3, <1>e4, <1>e5, Zenon DEF Down, Downgrade2, ChunkIndexes, ChunkRefs
  <1>2. /\ p1 \in Seq(Statement) /\ Len(p1) = 2
        /\ FromEnd(p1, 2) = DropIndex("ix_events_vault_created")
        /\ FromEnd(p1, 1) = DropIndex("ix_knowledge_events_event_type")
    <2>1. /\ DropIndex("ix_events_vault_created") \in Statement
          /\ DropIndex("ix_knowledge_events_event_type") \in Statement
      BY StatementTypes, WordsAre
    <2> QED  BY <2>1, TwoEnd
  <1>3. /\ p2 \in Seq(Statement) /\ Len(p2) = 7
        /\ FromEnd(p2, 7) = DropTable("knowledge_events")
        /\ FromEnd(p2, 6) = DropTable("watcher_state")
        /\ FromEnd(p2, 5) = DropTable("flashcard_review_state")
        /\ FromEnd(p2, 4) = DropTable("flashcards")
        /\ FromEnd(p2, 3) = DropTable("saved_searches")
        /\ FromEnd(p2, 2) = DropIndex("ix_snapshot_vault_hash")
        /\ FromEnd(p2, 1) = DropTable("file_snapshots")
    <2>1. /\ DropTable("knowledge_events") \in Statement
          /\ DropTable("watcher_state") \in Statement
          /\ DropTable("flashcard_review_state") \in Statement
          /\ DropTable("flashcards") \in Statement
          /\ DropTable("saved_searches") \in Statement
          /\ DropIndex("ix_snapshot_vault_hash") \in Statement
          /\ DropTable("file_snapshots") \in Statement
      BY StatementTypes, WordsAre
    <2>2. /\ p2 \in Seq(Statement) /\ Len(p2) = 7
          /\ p2[1] = DropTable("knowledge_events")
          /\ p2[2] = DropTable("watcher_state")
          /\ p2[3] = DropTable("flashcard_review_state")
          /\ p2[4] = DropTable("flashcards")
          /\ p2[5] = DropTable("saved_searches")
          /\ p2[6] = DropIndex("ix_snapshot_vault_hash")
          /\ p2[7] = DropTable("file_snapshots")
      BY <2>1
    <2> HIDE DEF p2
    <2> QED  BY <2>2 DEF FromEnd
  <1>4. /\ p3 \in Seq(Statement) /\ Len(p3) = 5
        /\ FromEnd(p3, 5) = DropIndex("ix_note_chunks_vault_id")
        /\ FromEnd(p3, 4) = DropIndex("ix_note_chunks_chunk_id")
        /\ FromEnd(p3, 3) = DropIndex("ix_note_chunks_note_id")
        /\ FromEnd(p3, 2) = DropIndex("ix_chunks_vault_note")
        /\ FromEnd(p3, 1) = DropIndex("ix_note_chunks_content_hash")
    <2>1. /\ DropIndex("ix_note_chunks_vault_id") \in Statement
          /\ DropIndex("ix_note_chunks_chunk_id") \in Statement
          /\ DropIndex("ix_note_chunks_note_id") \in Statement
          /\ DropIndex("ix_chunks_vault_note") \in Statement
          /\ DropIndex("ix_note_chunks_content_hash") \in Statement
      BY StatementTypes, WordsAre
    <2>2. /\ p3 \in Seq(Statement) /\ Len(p3) = 5
          /\ p3[1] = DropIndex("ix_note_chunks_vault_id")
          /\ p3[2] = DropIndex("ix_note_chunks_chunk_id")
          /\ p3[3] = DropIndex("ix_note_chunks_note_id")
          /\ p3[4] = DropIndex("ix_chunks_vault_note")
          /\ p3[5] = DropIndex("ix_note_chunks_content_hash")
      BY <2>1
    <2> HIDE DEF p3
    <2> QED  BY <2>2 DEF FromEnd
  <1>5. /\ p4 \in Seq(Statement) /\ Len(p4) = 4
        /\ FromEnd(p4, 4) = DropIndex("ix_notes_vault_id")
        /\ FromEnd(p4, 3) = DropIndex("ix_notes_note_id")
        /\ FromEnd(p4, 2) = DropIndex("ix_notes_vault_note")
        /\ FromEnd(p4, 1) = DropIndex("ix_notes_content_hash")
    <2>1. /\ DropIndex("ix_notes_vault_id") \in Statement
          /\ DropIndex("ix_notes_note_id") \in Statement
          /\ DropIndex("ix_notes_vault_note") \in Statement
          /\ DropIndex("ix_notes_content_hash") \in Statement
      BY StatementTypes, WordsAre
    <2> QED  BY <2>1, FourEnd
  <1>6. /\ p5 \in Seq(Statement) /\ Len(p5) = 3
        /\ FromEnd(p5, 3) = Rename("note_chunks", "note_chunks_scoped")
        /\ FromEnd(p5, 2) = Rename("notes", "notes_scoped")
        /\ FromEnd(p5, 1) = CreateTable("notes", {"note"}, NoRefs)
    <2>1. /\ Rename("note_chunks", "note_chunks_scoped") \in Statement
          /\ Rename("notes", "notes_scoped") \in Statement
          /\ CreateTable("notes", {"note"}, NoRefs) \in Statement
      BY StatementTypes, WordsAre
    <2> QED  BY <2>1, ThreeEnd
  <1>7. /\ p6 \in Seq(Statement) /\ Len(p6) = 2
        /\ FromEnd(p6, 2) = CreateIndex("ix_notes_note_id", "notes")
        /\ FromEnd(p6, 1) = CreateIndex("ix_notes_content_hash", "notes")
    <2>1. /\ CreateIndex("ix_notes_note_id", "notes") \in Statement
          /\ CreateIndex("ix_notes_content_hash", "notes") \in Statement
      BY StatementTypes, WordsAre
    <2> QED  BY <2>1, TwoEnd
  <1>8. /\ p7 \in Seq(Statement) /\ Len(p7) = 2
        /\ FromEnd(p7, 2) = CopyOfDefault("notes", "notes_scoped")
        /\ FromEnd(p7, 1) = CreateTable("note_chunks", {"note"}, ChunkRefs)
    <2>1. /\ CopyOfDefault("notes", "notes_scoped") \in Statement
          /\ CreateTable("note_chunks", {"note"}, ChunkRefs) \in Statement
      BY StatementTypes, WordsAre DEF ChunkRefs
    <2> QED  BY <2>1, TwoEnd
  <1>9. /\ p8 \in Seq(Statement) /\ Len(p8) = 3
        /\ FromEnd(p8, 3) = CreateIndex("ix_note_chunks_chunk_id", "note_chunks")
        /\ FromEnd(p8, 2) = CreateIndex("ix_note_chunks_note_id", "note_chunks")
        /\ FromEnd(p8, 1) = CreateIndex("ix_note_chunks_content_hash", "note_chunks")
    <2>1. /\ CreateIndex("ix_note_chunks_chunk_id", "note_chunks") \in Statement
          /\ CreateIndex("ix_note_chunks_note_id", "note_chunks") \in Statement
          /\ CreateIndex("ix_note_chunks_content_hash", "note_chunks") \in Statement
      BY StatementTypes, WordsAre
    <2> QED  BY <2>1, ThreeEnd
  <1>10. /\ p9 \in Seq(Statement) /\ Len(p9) = 4
        /\ FromEnd(p9, 4) = CopyOfDefault("note_chunks", "note_chunks_scoped")
        /\ FromEnd(p9, 3) = DropTable("note_chunks_scoped")
        /\ FromEnd(p9, 2) = DropTable("notes_scoped")
        /\ FromEnd(p9, 1) = DropTable("vaults")
    <2>1. /\ CopyOfDefault("note_chunks", "note_chunks_scoped") \in Statement
          /\ DropTable("note_chunks_scoped") \in Statement
          /\ DropTable("notes_scoped") \in Statement
          /\ DropTable("vaults") \in Statement
      BY StatementTypes, WordsAre
    <2> QED  BY <2>1, FourEnd
  <1>11. /\ p10 \in Seq(Statement) /\ Len(p10) = 1
        /\ FromEnd(p10, 1) = Stamp(Revision1)
    <2>1. /\ Stamp(Revision1) \in Statement
      BY StatementTypes, WordsAre
    <2> QED  BY <2>1, OneEnd
  <1>12. /\ Minor(FromEnd(p1, 1))
        /\ Minor(FromEnd(p1, 2))
        /\ Minor(FromEnd(p2, 1))
        /\ Minor(FromEnd(p2, 2))
        /\ Minor(FromEnd(p2, 3))
        /\ Minor(FromEnd(p2, 4))
        /\ Minor(FromEnd(p2, 5))
        /\ Minor(FromEnd(p2, 6))
        /\ Minor(FromEnd(p2, 7))
        /\ Minor(FromEnd(p3, 1))
        /\ Minor(FromEnd(p3, 3))
        /\ Minor(FromEnd(p3, 4))
        /\ Minor(FromEnd(p3, 5))
        /\ Minor(FromEnd(p4, 1))
        /\ Minor(FromEnd(p4, 3))
        /\ Minor(FromEnd(p4, 4))
        /\ Minor(FromEnd(p6, 1))
        /\ Minor(FromEnd(p6, 2))
        /\ Minor(FromEnd(p8, 1))
        /\ Minor(FromEnd(p8, 2))
        /\ Minor(FromEnd(p8, 3))
    BY <1>2, <1>3, <1>4, <1>5, <1>7, <1>9, MinorKinds DEF Watched, Stages, NoteTables, ChunkTables
  <1> HIDE DEF p1, p2, p3, p4, p5, p6, p7, p8, p9, p10
  <1>13. Concatenated(r2, p1, p2)
    BY <1>2, <1>3, EndOfBoth DEF Concatenated
  <1> HIDE DEF r2
  <1>14. Concatenated(r3, r2, p3)
    BY <1>13, <1>4, EndOfBoth DEF Concatenated
  <1> HIDE DEF r3
  <1>15. Concatenated(r4, r3, p4)
    BY <1>14, <1>5, EndOfBoth DEF Concatenated
  <1> HIDE DEF r4
  <1>16. Concatenated(r5, r4, p5)
    BY <1>15, <1>6, EndOfBoth DEF Concatenated
  <1> HIDE DEF r5
  <1>17. Concatenated(r6, r5, p6)
    BY <1>16, <1>7, EndOfBoth DEF Concatenated
  <1> HIDE DEF r6
  <1>18. Concatenated(r7, r6, p7)
    BY <1>17, <1>8, EndOfBoth DEF Concatenated
  <1> HIDE DEF r7
  <1>19. Concatenated(r8, r7, p8)
    BY <1>18, <1>9, EndOfBoth DEF Concatenated
  <1> HIDE DEF r8
  <1>20. Concatenated(r9, r8, p9)
    BY <1>19, <1>10, EndOfBoth DEF Concatenated
  <1> HIDE DEF r9
  <1>21. Concatenated(Down, r9, p10)
    BY <1>1, <1>20, <1>11, EndOfBoth DEF Concatenated
  <1>22. /\ Down \in Seq(Statement)
        /\ Len(p1) = 2 /\ Len(p2) = 7 /\ Len(p3) = 5 /\ Len(p4) = 4 /\ Len(p5) = 3
        /\ Len(p6) = 2 /\ Len(p7) = 2 /\ Len(p8) = 3 /\ Len(p9) = 4 /\ Len(p10) = 1
        /\ Len(r2) = 9 /\ Len(r3) = 14 /\ Len(r4) = 18 /\ Len(r5) = 21
        /\ Len(r6) = 23 /\ Len(r7) = 25 /\ Len(r8) = 28 /\ Len(r9) = 32
        /\ Len(Down) = 33
    BY <1>2, <1>3, <1>4, <1>5, <1>6, <1>7, <1>8, <1>9, <1>10, <1>11, <1>13, <1>14, <1>15, <1>16, <1>17, <1>18, <1>19, <1>20, <1>21 DEF Concatenated
  <1>23. /\ FromEnd(Down, 1) = FromEnd(p10, 1)
    BY <1>21, <1>22 DEF Concatenated
  <1>24. /\ FromEnd(Down, 2) = FromEnd(p9, 1)
        /\ FromEnd(Down, 3) = FromEnd(p9, 2)
        /\ FromEnd(Down, 4) = FromEnd(p9, 3)
        /\ FromEnd(Down, 5) = FromEnd(p9, 4)
    BY <1>20, <1>21, <1>22 DEF Concatenated
  <1>25. /\ FromEnd(Down, 6) = FromEnd(p8, 1)
        /\ FromEnd(Down, 7) = FromEnd(p8, 2)
        /\ FromEnd(Down, 8) = FromEnd(p8, 3)
    BY <1>19, <1>20, <1>21, <1>22 DEF Concatenated
  <1>26. /\ FromEnd(Down, 9) = FromEnd(p7, 1)
        /\ FromEnd(Down, 10) = FromEnd(p7, 2)
    BY <1>18, <1>19, <1>20, <1>21, <1>22 DEF Concatenated
  <1>27. /\ FromEnd(Down, 11) = FromEnd(p6, 1)
        /\ FromEnd(Down, 12) = FromEnd(p6, 2)
    BY <1>17, <1>18, <1>19, <1>20, <1>21, <1>22 DEF Concatenated
  <1>28. /\ FromEnd(Down, 13) = FromEnd(p5, 1)
        /\ FromEnd(Down, 14) = FromEnd(p5, 2)
        /\ FromEnd(Down, 15) = FromEnd(p5, 3)
    BY <1>16, <1>17, <1>18, <1>19, <1>20, <1>21, <1>22 DEF Concatenated
  <1>29. /\ FromEnd(Down, 16) = FromEnd(p4, 1)
        /\ FromEnd(Down, 17) = FromEnd(p4, 2)
        /\ FromEnd(Down, 18) = FromEnd(p4, 3)
        /\ FromEnd(Down, 19) = FromEnd(p4, 4)
    BY <1>15, <1>16, <1>17, <1>18, <1>19, <1>20, <1>21, <1>22 DEF Concatenated
  <1>30. /\ FromEnd(Down, 20) = FromEnd(p3, 1)
        /\ FromEnd(Down, 21) = FromEnd(p3, 2)
        /\ FromEnd(Down, 22) = FromEnd(p3, 3)
        /\ FromEnd(Down, 23) = FromEnd(p3, 4)
        /\ FromEnd(Down, 24) = FromEnd(p3, 5)
    BY <1>14, <1>15, <1>16, <1>17, <1>18, <1>19, <1>20, <1>21, <1>22 DEF Concatenated
  <1>31. /\ FromEnd(Down, 25) = FromEnd(p2, 1)
        /\ FromEnd(Down, 26) = FromEnd(p2, 2)
        /\ FromEnd(Down, 27) = FromEnd(p2, 3)
        /\ FromEnd(Down, 28) = FromEnd(p2, 4)
        /\ FromEnd(Down, 29) = FromEnd(p2, 5)
        /\ FromEnd(Down, 30) = FromEnd(p2, 6)
        /\ FromEnd(Down, 31) = FromEnd(p2, 7)
    BY <1>13, <1>14, <1>15, <1>16, <1>17, <1>18, <1>19, <1>20, <1>21, <1>22 DEF Concatenated
  <1>32. /\ FromEnd(Down, 32) = FromEnd(p1, 1)
        /\ FromEnd(Down, 33) = FromEnd(p1, 2)
    BY <1>13, <1>14, <1>15, <1>16, <1>17, <1>18, <1>19, <1>20, <1>21, <1>22 DEF Concatenated
  <1> QED  BY <1>2, <1>3, <1>4, <1>5, <1>6, <1>7, <1>8, <1>9, <1>10, <1>11, <1>12,
              <1>22, <1>23, <1>24, <1>25, <1>26, <1>27, <1>28, <1>29, <1>30, <1>31,
              <1>32

Up == (Upgrade1 \o <<Stamp(Revision1)>>) \o (Upgrade2 \o <<Stamp(Revision2)>>)
DownAll == Down \o (Downgrade1 \o <<Stamp(Base)>>)

LEMMA Upgrade2End ==
  /\ Upgrade2 \in Seq(Statement) /\ Len(Upgrade2) = 34
  /\ \A n \in 1..9 : FromEnd(Upgrade2, n) = FromEnd(MilestoneTables, n)
  /\ FromEnd(Upgrade2, 10) = DropTable("notes_legacy")
  /\ FromEnd(Upgrade2, 11) = DropTable("note_chunks_legacy")
  /\ \A n \in 12..18 : FromEnd(Upgrade2, n) = FromEnd(ScopedChunks, n - 11)
  /\ \A n \in 19..24 : FromEnd(Upgrade2, n) = FromEnd(ScopedNotes, n - 18)
  /\ FromEnd(Upgrade2, 25) = Insert("vaults", FirstRow)
  /\ FromEnd(Upgrade2, 26) = CreateIndex("ix_vaults_vault_id", "vaults")
  /\ FromEnd(Upgrade2, 27) = CreateTable("vaults", VaultKey, NoRefs)
  /\ \A n \in 28..34 : FromEnd(Upgrade2, n) = FromEnd(PutAside, n - 27)
  <1> DEFINE p2 == <<CreateTable("vaults", VaultKey, NoRefs),
                     CreateIndex("ix_vaults_vault_id", "vaults"),
                     Insert("vaults", FirstRow)>>
             p5 == <<DropTable("note_chunks_legacy"), DropTable("notes_legacy")>>
             r2 == PutAside \o p2
             r3 == r2 \o ScopedNotes
             r4 == r3 \o ScopedChunks
             r5 == r4 \o p5
  <1>1. Upgrade2 = r5 \o MilestoneTables
    BY Zenon DEF Upgrade2, FirstRow
  <1>2. /\ p2 \in Seq(Statement) /\ Len(p2) = 3
        /\ FromEnd(p2, 1) = Insert("vaults", FirstRow)
        /\ FromEnd(p2, 2) = CreateIndex("ix_vaults_vault_id", "vaults")
        /\ FromEnd(p2, 3) = CreateTable("vaults", VaultKey, NoRefs)
    <2>1. /\ CreateTable("vaults", VaultKey, NoRefs) \in Statement
          /\ CreateIndex("ix_vaults_vault_id", "vaults") \in Statement
          /\ Insert("vaults", FirstRow) \in Statement
      BY StatementTypes, WordsAre
    <2> QED  BY <2>1, ThreeEnd
  <1>3. /\ p5 \in Seq(Statement) /\ Len(p5) = 2
        /\ FromEnd(p5, 1) = DropTable("notes_legacy")
        /\ FromEnd(p5, 2) = DropTable("note_chunks_legacy")
    <2>1. /\ DropTable("note_chunks_legacy") \in Statement
          /\ DropTable("notes_legacy") \in Statement
      BY StatementTypes, WordsAre
    <2> QED  BY <2>1, TwoEnd
  <1>4. /\ PutAside \in Seq(Statement) /\ Len(PutAside) = 7
        /\ ScopedNotes \in Seq(Statement) /\ Len(ScopedNotes) = 6
        /\ ScopedChunks \in Seq(Statement) /\ Len(ScopedChunks) = 7
        /\ MilestoneTables \in Seq(Statement) /\ Len(MilestoneTables) = 9
    BY PutAsideEnd, ScopedNotesEnd, ScopedChunksEnd, MilestoneTablesEnd
  <1> HIDE DEF p2, p5
  <1>5. Concatenated(r2, PutAside, p2)
    BY <1>2, <1>4, EndOfBoth
  <1> HIDE DEF r2
  <1>6. Concatenated(r3, r2, ScopedNotes)
    BY <1>4, <1>5, EndOfBoth DEF Concatenated
  <1> HIDE DEF r3
  <1>7. Concatenated(r4, r3, ScopedChunks)
    BY <1>4, <1>6, EndOfBoth DEF Concatenated
  <1> HIDE DEF r4
  <1>8. Concatenated(r5, r4, p5)
    BY <1>3, <1>7, EndOfBoth DEF Concatenated
  <1> HIDE DEF r5
  <1>9. Concatenated(Upgrade2, r5, MilestoneTables)
    BY <1>1, <1>4, <1>8, EndOfBoth DEF Concatenated
  <1>10. /\ Upgrade2 \in Seq(Statement) /\ Len(Upgrade2) = 34
         /\ Len(p2) = 3 /\ Len(p5) = 2 /\ Len(PutAside) = 7 /\ Len(ScopedNotes) = 6
         /\ Len(ScopedChunks) = 7 /\ Len(MilestoneTables) = 9
         /\ Len(r2) = 10 /\ Len(r3) = 16 /\ Len(r4) = 23 /\ Len(r5) = 25
    BY <1>2, <1>3, <1>4, <1>5, <1>6, <1>7, <1>8, <1>9 DEF Concatenated
  <1>j. \A n \in 1..34 : FromEnd(Upgrade2, n) = IF n <= 9 THEN FromEnd(MilestoneTables, n)
                                                ELSE FromEnd(r5, n - 9)
    BY <1>9, <1>10 DEF Concatenated
  <1>11. \A n \in 1..9 : FromEnd(Upgrade2, n) = FromEnd(MilestoneTables, n)
    BY <1>j
  <1>12. \A n \in 10..34 : FromEnd(Upgrade2, n) = FromEnd(r5, n - 9)
    BY <1>j
  <1>13. /\ \A n \in 1..2 : FromEnd(r5, n) = FromEnd(p5, n)
         /\ \A n \in 3..25 : FromEnd(r5, n) = FromEnd(r4, n - 2)
    BY <1>8, <1>10 DEF Concatenated
  <1>14. /\ \A n \in 1..7 : FromEnd(r4, n) = FromEnd(ScopedChunks, n)
         /\ \A n \in 8..23 : FromEnd(r4, n) = FromEnd(r3, n - 7)
    BY <1>7, <1>10 DEF Concatenated
  <1>15. /\ \A n \in 1..6 : FromEnd(r3, n) = FromEnd(ScopedNotes, n)
         /\ \A n \in 7..16 : FromEnd(r3, n) = FromEnd(r2, n - 6)
    BY <1>6, <1>10 DEF Concatenated
  <1>16. /\ \A n \in 1..3 : FromEnd(r2, n) = FromEnd(p2, n)
         /\ \A n \in 4..10 : FromEnd(r2, n) = FromEnd(PutAside, n - 3)
    BY <1>5, <1>10 DEF Concatenated
  <1>17. /\ \A n \in 10..11 : FromEnd(Upgrade2, n) = FromEnd(p5, n - 9)
         /\ \A n \in 12..34 : FromEnd(Upgrade2, n) = FromEnd(r4, n - 11)
    BY <1>12, <1>13
  <1>18. /\ \A n \in 12..18 : FromEnd(Upgrade2, n) = FromEnd(ScopedChunks, n - 11)
         /\ \A n \in 19..34 : FromEnd(Upgrade2, n) = FromEnd(r3, n - 18)
    BY <1>14, <1>17
  <1>19. /\ \A n \in 19..24 : FromEnd(Upgrade2, n) = FromEnd(ScopedNotes, n - 18)
         /\ \A n \in 25..34 : FromEnd(Upgrade2, n) = FromEnd(r2, n - 24)
    BY <1>15, <1>18
  <1>20. /\ \A n \in 25..27 : FromEnd(Upgrade2, n) = FromEnd(p2, n - 24)
         /\ \A n \in 28..34 : FromEnd(Upgrade2, n) = FromEnd(PutAside, n - 27)
    BY <1>16, <1>19
  <1>21. /\ FromEnd(Upgrade2, 10) = FromEnd(p5, 1) /\ FromEnd(Upgrade2, 11) = FromEnd(p5, 2)
         /\ FromEnd(Upgrade2, 25) = FromEnd(p2, 1) /\ FromEnd(Upgrade2, 26) = FromEnd(p2, 2)
         /\ FromEnd(Upgrade2, 27) = FromEnd(p2, 3)
    BY <1>17, <1>20
  <1> QED  BY <1>2, <1>3, <1>10, <1>11, <1>18, <1>19, <1>20, <1>21

\* The end of the second revision is the script of a database at the first one.
LEMMA UpEnd ==
  /\ Up \in Seq(Statement) /\ Len(Up) = 43
  /\ Upgrade2 \o <<Stamp(Revision2)>> \in Seq(Statement)
  /\ Len(Upgrade2 \o <<Stamp(Revision2)>>) = 35
  /\ \A n \in 1..35 : FromEnd(Upgrade2 \o <<Stamp(Revision2)>>, n) = FromEnd(Up, n)
  /\ FromEnd(Up, 1) = Stamp(Revision2)
  /\ FromEnd(Up, 11) = DropTable("notes_legacy")
  /\ FromEnd(Up, 12) = DropTable("note_chunks_legacy")
  /\ FromEnd(Up, 13) = CopyAsDefault("note_chunks", "note_chunks_legacy")
  /\ FromEnd(Up, 15) = CreateIndex("ix_chunks_vault_note", "note_chunks")
  /\ FromEnd(Up, 19) = CreateTable("note_chunks", ScopedKey, OfNote)
  /\ FromEnd(Up, 20) = CopyAsDefault("notes", "notes_legacy")
  /\ FromEnd(Up, 22) = CreateIndex("ix_notes_vault_note", "notes")
  /\ FromEnd(Up, 25) = CreateTable("notes", ScopedKey, InVault)
  /\ FromEnd(Up, 26) = Insert("vaults", FirstRow)
  /\ FromEnd(Up, 28) = CreateTable("vaults", VaultKey, NoRefs)
  /\ FromEnd(Up, 29) = Rename("notes", "notes_legacy")
  /\ FromEnd(Up, 30) = Rename("note_chunks", "note_chunks_legacy")
  /\ FromEnd(Up, 36) = Stamp(Revision1)
  /\ FromEnd(Up, 40) = CreateTable("note_chunks", {"note"}, ChunkRefs)
  /\ FromEnd(Up, 43) = CreateTable("notes", {"note"}, NoRefs)
  /\ \A n \in (2..10) \cup {14} \cup (16..18) \cup {21, 23, 24} \cup (26..28) \cup (31..35)
              \cup (37..39) \cup {41, 42} : Minor(FromEnd(Up, n))
  <1> DEFINE o1 == <<Stamp(Revision1)>>
             o2 == <<Stamp(Revision2)>>
             first == Upgrade1 \o o1
             second == Upgrade2 \o o2
  <1>0. Up = first \o second
    BY DEF Up
  <1>1. /\ o1 \in Seq(Statement) /\ Len(o1) = 1 /\ FromEnd(o1, 1) = Stamp(Revision1)
        /\ o2 \in Seq(Statement) /\ Len(o2) = 1 /\ FromEnd(o2, 1) = Stamp(Revision2)
    BY OneEnd, StatementTypes
  <1>2. /\ Upgrade1 \in Seq(Statement) /\ Len(Upgrade1) = 7
        /\ Upgrade2 \in Seq(Statement) /\ Len(Upgrade2) = 34
    BY Upgrade1End, Upgrade2End
  <1> HIDE DEF o1, o2
  <1>3. Concatenated(first, Upgrade1, o1) /\ Concatenated(second, Upgrade2, o2)
    BY <1>1, <1>2, EndOfBoth
  <1> HIDE DEF first, second
  <1>4. Concatenated(Up, first, second)
    BY <1>0, <1>3, EndOfBoth DEF Concatenated
  <1>5. /\ Len(first) = 8 /\ Len(second) = 35 /\ Len(Up) = 43 /\ Up \in Seq(Statement)
        /\ second \in Seq(Statement)
    BY <1>1, <1>2, <1>3, <1>4 DEF Concatenated
  <1>6. /\ \A n \in 1..35 : FromEnd(second, n) = FromEnd(Up, n)
        /\ \A n \in 36..43 : FromEnd(Up, n) = FromEnd(first, n - 35)
    BY <1>4, <1>5 DEF Concatenated
  <1>7. /\ FromEnd(second, 1) = Stamp(Revision2) /\ FromEnd(first, 1) = Stamp(Revision1)
        /\ \A n \in 2..35 : FromEnd(second, n) = FromEnd(Upgrade2, n - 1)
        /\ \A n \in 2..8 : FromEnd(first, n) = FromEnd(Upgrade1, n - 1)
    BY <1>1, <1>2, <1>3 DEF Concatenated
  <1>8. /\ FromEnd(Up, 1) = Stamp(Revision2) /\ FromEnd(Up, 36) = Stamp(Revision1)
        /\ \A n \in 2..35 : FromEnd(Up, n) = FromEnd(Upgrade2, n - 1)
        /\ \A n \in 37..43 : FromEnd(Up, n) = FromEnd(Upgrade1, n - 36)
    BY <1>6, <1>7
  <1>9. /\ \A n \in 2..10 : FromEnd(Up, n) = FromEnd(MilestoneTables, n - 1)
        /\ \A n \in 13..19 : FromEnd(Up, n) = FromEnd(ScopedChunks, n - 12)
        /\ \A n \in 20..25 : FromEnd(Up, n) = FromEnd(ScopedNotes, n - 19)
        /\ \A n \in 29..35 : FromEnd(Up, n) = FromEnd(PutAside, n - 28)
    BY <1>8, Upgrade2End
  <1>10. /\ FromEnd(Up, 11) = DropTable("notes_legacy")
         /\ FromEnd(Up, 12) = DropTable("note_chunks_legacy")
         /\ FromEnd(Up, 26) = Insert("vaults", FirstRow)
         /\ FromEnd(Up, 27) = CreateIndex("ix_vaults_vault_id", "vaults")
         /\ FromEnd(Up, 28) = CreateTable("vaults", VaultKey, NoRefs)
    BY <1>8, Upgrade2End
  <1>11. /\ FromEnd(Up, 13) = CopyAsDefault("note_chunks", "note_chunks_legacy")
         /\ FromEnd(Up, 15) = CreateIndex("ix_chunks_vault_note", "note_chunks")
         /\ FromEnd(Up, 19) = CreateTable("note_chunks", ScopedKey, OfNote)
         /\ \A n \in {14, 16, 17, 18} : Minor(FromEnd(Up, n))
    BY <1>9, ScopedChunksEnd
  <1>12. /\ FromEnd(Up, 20) = CopyAsDefault("notes", "notes_legacy")
         /\ FromEnd(Up, 22) = CreateIndex("ix_notes_vault_note", "notes")
         /\ FromEnd(Up, 25) = CreateTable("notes", ScopedKey, InVault)
         /\ \A n \in {21, 23, 24} : Minor(FromEnd(Up, n))
    BY <1>9, ScopedNotesEnd
  <1>13. /\ FromEnd(Up, 29) = Rename("notes", "notes_legacy")
         /\ FromEnd(Up, 30) = Rename("note_chunks", "note_chunks_legacy")
         /\ \A n \in 31..35 : Minor(FromEnd(Up, n))
    BY <1>9, PutAsideEnd
  <1>14. \A n \in 2..10 : Minor(FromEnd(Up, n))
    <2> TAKE n \in 2..10
    <2>1. n - 1 \in 1..9
      OBVIOUS
    <2> QED  BY <1>9, <2>1, MilestoneTablesEnd
  <1>15. \A n \in 26..28 : Minor(FromEnd(Up, n))
    BY <1>10, MinorKinds DEF Watched, Stages, NoteTables, ChunkTables
  <1>16. /\ FromEnd(Up, 40) = CreateTable("note_chunks", {"note"}, ChunkRefs)
         /\ FromEnd(Up, 43) = CreateTable("notes", {"note"}, NoRefs)
         /\ \A n \in {37, 38, 39, 41, 42} : Minor(FromEnd(Up, n))
    BY <1>8, Upgrade1End
  <1>17. \A n \in (2..10) \cup {14} \cup (16..18) \cup {21, 23, 24} \cup (26..28) \cup (31..35)
                  \cup (37..39) \cup {41, 42} : Minor(FromEnd(Up, n))
    BY <1>11, <1>12, <1>13, <1>14, <1>15, <1>16
  <1> QED  BY <1>5, <1>6, <1>8, <1>10, <1>11, <1>12, <1>13, <1>16, <1>17 DEF second, o2

\* To base: the first revision undone comes last.
LEMMA DownAllEnd ==
  /\ DownAll \in Seq(Statement) /\ Len(DownAll) = 36
  /\ Downgrade1 \o <<Stamp(Base)>> \in Seq(Statement)
  /\ Len(Downgrade1 \o <<Stamp(Base)>>) = 3
  /\ \A n \in 1..3 : FromEnd(Downgrade1 \o <<Stamp(Base)>>, n) = FromEnd(DownAll, n)
  /\ FromEnd(DownAll, 1) = Stamp(Base)
  /\ FromEnd(DownAll, 2) = DropTable("notes")
  /\ FromEnd(DownAll, 3) = DropTable("note_chunks")
  /\ \A n \in 4..36 : FromEnd(DownAll, n) = FromEnd(Down, n - 3)
  <1> DEFINE o == <<Stamp(Base)>>
             last == Downgrade1 \o o
  <1>0. DownAll = Down \o last
    BY DEF DownAll
  <1>1. o \in Seq(Statement) /\ Len(o) = 1 /\ FromEnd(o, 1) = Stamp(Base)
    BY OneEnd, StatementTypes
  <1>2. /\ Downgrade1 \in Seq(Statement) /\ Len(Downgrade1) = 2
        /\ FromEnd(Downgrade1, 1) = DropTable("notes")
        /\ FromEnd(Downgrade1, 2) = DropTable("note_chunks")
    <2>1. DropTable("note_chunks") \in Statement /\ DropTable("notes") \in Statement
      BY StatementTypes, WordsAre
    <2> QED  BY <2>1, TwoEnd DEF Downgrade1
  <1>3. Down \in Seq(Statement) /\ Len(Down) = 33
    BY DownEnd
  <1> HIDE DEF o
  <1>4. Concatenated(last, Downgrade1, o)
    BY <1>1, <1>2, EndOfBoth
  <1> HIDE DEF last
  <1>5. Concatenated(DownAll, Down, last)
    BY <1>0, <1>3, <1>4, EndOfBoth DEF Concatenated
  <1>6. Len(last) = 3 /\ last \in Seq(Statement) /\ Len(DownAll) = 36 /\ DownAll \in Seq(Statement)
    BY <1>1, <1>2, <1>3, <1>4, <1>5 DEF Concatenated
  <1>7. /\ \A n \in 1..3 : FromEnd(last, n) = FromEnd(DownAll, n)
        /\ \A n \in 4..36 : FromEnd(DownAll, n) = FromEnd(Down, n - 3)
    BY <1>3, <1>5, <1>6 DEF Concatenated
  <1>8. /\ FromEnd(last, 1) = FromEnd(o, 1) /\ FromEnd(last, 2) = FromEnd(Downgrade1, 1)
        /\ FromEnd(last, 3) = FromEnd(Downgrade1, 2)
    BY <1>1, <1>2, <1>4 DEF Concatenated
  <1>9. /\ FromEnd(DownAll, 1) = Stamp(Base) /\ FromEnd(DownAll, 2) = DropTable("notes")
        /\ FromEnd(DownAll, 3) = DropTable("note_chunks")
    BY <1>1, <1>2, <1>7, <1>8
  <1> QED  BY <1>6, <1>7, <1>9 DEF last, o

-----------------------------------------------------------------------------
(* What create_all has to do. *)

MakeNotes == CreateTable("notes", ScopedKey, InVault)
MakeChunks == CreateTable("note_chunks", ScopedKey, OfNote)
IndexNotes == CreateIndex("ix_notes_vault_note", "notes")
IndexChunks == CreateIndex("ix_chunks_vault_note", "note_chunks")

Creation(s) ==
  \/ Minor(s) /\ s.op \in {"create_table", "create_index"}
  \/ s \in {MakeNotes, MakeChunks, IndexNotes, IndexChunks}

\* Only creations, and a watched index comes right after its table.
WellMade(p) ==
  /\ p \in Seq(Statement)
  /\ \A j \in 1..Len(p) : Creation(p[j])
  /\ \A j \in 1..Len(p) : p[j] = IndexNotes => j > 1 /\ p[j - 1] = MakeNotes
  /\ \A j \in 1..Len(p) : p[j] = IndexChunks => j > 1 /\ p[j - 1] = MakeChunks

\* r is p, then q.
BothOf(r, p, q) ==
  /\ r \in Seq(Statement) /\ Len(r) = Len(p) + Len(q)
  /\ \A k \in 1..Len(p) + Len(q) : r[k] = IF k <= Len(p) THEN p[k] ELSE q[k - Len(p)]

LEMMA BothLists ==
  ASSUME NEW p \in Seq(Statement), NEW q \in Seq(Statement)
  PROVE  BothOf(p \o q, p, q)
  BY DEF BothOf

LEMMA WellMadeBoth ==
  ASSUME NEW p, NEW q, WellMade(p), WellMade(q), NEW r, r = p \o q
  PROVE  WellMade(r) /\ (Len(p) > 0 => Len(r) > 0 /\ r[1] = p[1])
  <1>1. p \in Seq(Statement) /\ q \in Seq(Statement)
    BY DEF WellMade
  <1>2. /\ r \in Seq(Statement) /\ Len(r) = Len(p) + Len(q) /\ Len(p) \in Nat /\ Len(q) \in Nat
        /\ \A k \in 1..Len(p) + Len(q) : r[k] = IF k <= Len(p) THEN p[k] ELSE q[k - Len(p)]
    BY <1>1
  <1>3. ASSUME NEW j \in 1..Len(r)
        PROVE  /\ Creation(r[j])
               /\ r[j] = IndexNotes => j > 1 /\ r[j - 1] = MakeNotes
               /\ r[j] = IndexChunks => j > 1 /\ r[j - 1] = MakeChunks
    <2>1. CASE j <= Len(p)
      <3>1. r[j] = p[j] /\ j \in 1..Len(p) /\ (j > 1 => r[j - 1] = p[j - 1])
        BY <1>2, <2>1
      <3> QED  BY <3>1 DEF WellMade
    <2>2. CASE j > Len(p)
      <3> DEFINE k == j - Len(p)
      <3>1. r[j] = q[k] /\ k \in 1..Len(q) /\ j \in Nat /\ (k > 1 => r[j - 1] = q[k - 1] /\ j > 1)
        <4>1. k \in 1..Len(q) /\ j \in Nat /\ r[j] = q[k]
          BY <1>2, <2>2
        <4>2. ASSUME k > 1 PROVE r[j - 1] = q[k - 1] /\ j > 1
          <5>1. j - 1 \in 1..Len(p) + Len(q) /\ j - 1 > Len(p) /\ j - 1 - Len(p) = k - 1
            BY <1>2, <2>2, <4>1, <4>2
          <5>2. r[j - 1] = q[j - 1 - Len(p)]
            BY <1>2, <5>1
          <5> QED  BY <1>2, <5>1, <5>2
        <4> QED  BY <4>1, <4>2
      <3> HIDE DEF k
      <3> QED  BY <3>1 DEF WellMade
    <2> QED  BY <1>2, <2>1, <2>2
  <1>4. WellMade(r)
    BY <1>2, <1>3 DEF WellMade
  <1>5. Len(p) > 0 => Len(r) > 0 /\ r[1] = p[1]
    BY <1>2
  <1> QED  BY <1>4, <1>5

\* The statements that make model i, if its table is missing.
Missing(d, i) ==
  IF Models[i].name \in DOMAIN d.tables THEN <<>>
  ELSE    <<CreateTable(Models[i].name, Models[i].key, Models[i].refs)>>
       \o Indexes(Models[i].name, Models[i].indexes)

\* One statement, or a list of statements on other tables, is well made.
LEMMA OneWellMade ==
  ASSUME NEW s \in Statement, Minor(s), s.op \in {"create_table", "create_index"}
  PROVE  WellMade(<<s>>)
  <1>1. s # IndexNotes /\ s # IndexChunks
    BY DEF Minor, IndexNotes, IndexChunks, CreateTable, CreateIndex, DropIndex, DropTable,
           Insert, Watched
  <1> DEFINE p == <<s>>
  <1>2. p \in Seq(Statement) /\ Len(p) = 1 /\ p[1] = s
    OBVIOUS
  <1> HIDE DEF p
  <1>3. WellMade(p)
    BY <1>1, <1>2 DEF WellMade, Creation
  <1> QED  BY <1>3 DEF p

LEMMA MinorCreations ==
  /\ \A t, key, refs : t \notin Stages =>
       /\ Minor(CreateTable(t, key, refs))
       /\ CreateTable(t, key, refs).op \in {"create_table", "create_index"}
  /\ \A i, t : i \notin Watched =>
       /\ Minor(CreateIndex(i, t))
       /\ CreateIndex(i, t).op \in {"create_table", "create_index"}
  <1>1. \A t, key, refs : CreateTable(t, key, refs).op = "create_table"
    BY DEF CreateTable
  <1>2. \A i, t : CreateIndex(i, t).op = "create_index"
    BY DEF CreateIndex
  <1> QED  BY <1>1, <1>2, MinorKinds

LEMMA EmptyWellMade == WellMade(<<>>)
  <1>1. <<>> \in Seq(Statement) /\ Len(<<>>) = 0
    OBVIOUS
  <1> QED  BY <1>1 DEF WellMade

LEMMA IndexesWellMade ==
  ASSUME NEW t \in Words, NEW names \in Seq(Words),
         \A k \in 1..Len(names) : names[k] \notin Watched
  PROVE  WellMade(Indexes(t, names))
  <1> DEFINE n == Len(names)
             p == [k \in 1..n |-> CreateIndex(names[k], t)]
  <1>1. n \in Nat /\ DOMAIN names = 1..n /\ \A k \in 1..n : names[k] \in Words
    OBVIOUS
  <1>2. Indexes(t, names) = p
    BY <1>1 DEF Indexes
  <1>3. \A k \in 1..n : /\ CreateIndex(names[k], t) \in Statement
                        /\ Minor(CreateIndex(names[k], t))
                        /\ CreateIndex(names[k], t).op \in {"create_table", "create_index"}
                        /\ CreateIndex(names[k], t) # IndexNotes
                        /\ CreateIndex(names[k], t) # IndexChunks
    <2> TAKE k \in 1..n
    <2>1. names[k] \in Words /\ names[k] \notin Watched
      BY <1>1
    <2>2. CreateIndex(names[k], t).name = names[k]
      BY DEF CreateIndex
    <2>3. IndexNotes.name \in Watched /\ IndexChunks.name \in Watched
      BY DEF CreateIndex, IndexNotes, IndexChunks, Watched
    <2> QED  BY <2>1, <2>2, <2>3, StatementTypes, MinorCreations
  <1>4. p = [k \in 1..n |-> CreateIndex(names[k], t)]
        /\ \A k \in 1..n : p[k] = CreateIndex(names[k], t)
    OBVIOUS
  <1> HIDE DEF n, p
  <1>5. p \in Seq(Statement) /\ Len(p) = n
    BY <1>1, <1>3, <1>4
  <1>6. WellMade(p)
    BY <1>3, <1>4, <1>5 DEF WellMade, Creation
  <1> QED  BY <1>2, <1>6

\* A table that is no stage, with its indexes.
LEMMA TableWellMade ==
  ASSUME NEW t \in Words, t \notin Stages, NEW key \in {VaultKey, ScopedKey},
         NEW refs \in {NoRefs, InVault, OfNote, OfCard}, NEW names \in Seq(Words),
         \A k \in 1..Len(names) : names[k] \notin Watched
  PROVE  /\ WellMade(<<CreateTable(t, key, refs)>> \o Indexes(t, names))
         /\ Len(<<CreateTable(t, key, refs)>> \o Indexes(t, names)) > 0
         /\ (<<CreateTable(t, key, refs)>> \o Indexes(t, names))[1] = CreateTable(t, key, refs)
  <1> DEFINE s == CreateTable(t, key, refs)
             p == <<s>>
             q == Indexes(t, names)
  <1>1. s \in Statement /\ Minor(s) /\ s.op \in {"create_table", "create_index"}
    BY StatementTypes, MinorCreations
  <1>2. WellMade(q)
    BY IndexesWellMade
  <1> HIDE DEF s, q
  <1>3. WellMade(p) /\ Len(p) = 1 /\ p[1] = s
    BY <1>1, OneWellMade
  <1> DEFINE r == p \o q
  <1>r. r = p \o q
    OBVIOUS
  <1> HIDE DEF p, r
  <1>4. WellMade(r) /\ (Len(p) > 0 => Len(r) > 0 /\ r[1] = p[1])
    BY <1>r, <1>2, <1>3, WellMadeBoth, Zenon
  <1>5. Len(r) > 0 /\ r[1] = s
    BY <1>3, <1>4
  <1> QED  BY <1>4, <1>5 DEF p, q, s, r

\* The table of notes or of chunks, with the watched index before the others.
LEMMA StageWellMade ==
  ASSUME NEW t \in {"notes", "note_chunks"}, NEW refs \in {InVault, OfNote},
         NEW i \in Watched, NEW names \in Seq(Words), Len(names) > 0, names[1] = i,
         \A k \in 2..Len(names) : names[k] \notin Watched,
         \/ CreateTable(t, ScopedKey, refs) = MakeNotes /\ CreateIndex(i, t) = IndexNotes
         \/ CreateTable(t, ScopedKey, refs) = MakeChunks /\ CreateIndex(i, t) = IndexChunks
  PROVE  WellMade(<<CreateTable(t, ScopedKey, refs)>> \o Indexes(t, names))
  <1> DEFINE s == CreateTable(t, ScopedKey, refs)
             p == <<s>>
             q == Indexes(t, names)
             n == Len(names)
             r == p \o q
  <1>1. n \in Nat /\ n > 0 /\ DOMAIN names = 1..n /\ \A k \in 1..n : names[k] \in Words
    OBVIOUS
  <1>2. t \in Words /\ s \in Statement
    BY StatementTypes, WordsAre
  <1>3. \A k \in 1..n : CreateIndex(names[k], t) \in Statement
    BY <1>1, <1>2, StatementTypes
  <1>4. \A k \in 2..n : /\ Minor(CreateIndex(names[k], t))
                        /\ CreateIndex(names[k], t).op \in {"create_table", "create_index"}
                        /\ CreateIndex(names[k], t) # IndexNotes
                        /\ CreateIndex(names[k], t) # IndexChunks
    <2> TAKE k \in 2..n
    <2>1. names[k] \notin Watched
      BY <1>1
    <2>2. CreateIndex(names[k], t).name = names[k]
      BY DEF CreateIndex
    <2>3. IndexNotes.name \in Watched /\ IndexChunks.name \in Watched
      BY DEF CreateIndex, IndexNotes, IndexChunks, Watched
    <2> QED  BY <2>1, <2>2, <2>3, MinorCreations
  <1>5. q = [k \in 1..n |-> CreateIndex(names[k], t)]
        /\ \A k \in 1..n : q[k] = CreateIndex(names[k], t)
    BY <1>1 DEF Indexes
  <1>6. IndexNotes # IndexChunks /\ MakeNotes.op = "create_table" /\ MakeChunks.op = "create_table"
        /\ IndexNotes.op = "create_index" /\ IndexChunks.op = "create_index"
    BY DEF IndexNotes, IndexChunks, CreateIndex, MakeNotes, MakeChunks, CreateTable
  <1> HIDE DEF q, n, s
  <1>7. q \in Seq(Statement) /\ Len(q) = n
    BY <1>1, <1>3, <1>5
  <1>8. p \in Seq(Statement) /\ Len(p) = 1 /\ p[1] = s
    BY <1>2
  <1> HIDE DEF p
  <1>9. /\ r \in Seq(Statement) /\ Len(r) = n + 1 /\ r[1] = s
        /\ \A j \in 2..n + 1 : r[j] = q[j - 1]
    <2>r. r = p \o q
      OBVIOUS
    <2> HIDE DEF r
    <2>1. /\ r \in Seq(Statement) /\ Len(r) = Len(p) + Len(q)
          /\ \A k \in 1..Len(p) + Len(q) : r[k] = IF k <= Len(p) THEN p[k] ELSE q[k - Len(p)]
      <3>1. BothOf(r, p, q)
        BY <1>7, <1>8, <2>r, BothLists
      <3> QED  BY <3>1 DEF BothOf
    <2>2. Len(r) = n + 1
      BY <1>1, <1>7, <1>8, <2>1
    <2>3. r[1] = s
      BY <1>1, <1>7, <1>8, <2>1
    <2>4. ASSUME NEW j \in 2..n + 1 PROVE r[j] = q[j - 1]
      <3>1. j \in 1..Len(p) + Len(q) /\ ~(j <= Len(p)) /\ j - Len(p) = j - 1
        BY <1>1, <1>7, <1>8
      <3> QED  BY <2>1, <3>1
    <2> QED  BY <2>1, <2>2, <2>3, <2>4
  <1> HIDE DEF r
  <1>10. r[2] = CreateIndex(i, t)
    BY <1>1, <1>5, <1>9 DEF n
  <1>11. \A j \in 3..n + 1 : /\ Creation(r[j])
                             /\ r[j] # IndexNotes /\ r[j] # IndexChunks
    <2> TAKE j \in 3..n + 1
    <2>1. j - 1 \in 2..n /\ j - 1 \in 1..n /\ r[j] = CreateIndex(names[j - 1], t)
      BY <1>1, <1>5, <1>9
    <2> QED  BY <1>4, <2>1 DEF Creation
  <1>12. \A j \in 1..n + 1 : j = 1 \/ j = 2 \/ j \in 3..n + 1
    BY <1>1
  <1>13. (s = MakeNotes /\ r[2] = IndexNotes) \/ (s = MakeChunks /\ r[2] = IndexChunks)
    BY <1>10 DEF s
  <1>14. Creation(r[1]) /\ Creation(r[2])
    BY <1>9, <1>13 DEF Creation
  <1>15. WellMade(r)
    <2>1. \A j \in 1..Len(r) : Creation(r[j])
      BY <1>9, <1>11, <1>12, <1>14
    <2>2. \A j \in 1..Len(r) : r[j] = IndexNotes => j > 1 /\ r[j - 1] = MakeNotes
      BY <1>6, <1>9, <1>11, <1>12, <1>13
    <2>3. \A j \in 1..Len(r) : r[j] = IndexChunks => j > 1 /\ r[j - 1] = MakeChunks
      BY <1>6, <1>9, <1>11, <1>12, <1>13
    <2> QED  BY <1>9, <2>1, <2>2, <2>3 DEF WellMade
  <1> QED  BY <1>15 DEF r, p, q, s

LEMMA ModelsAre ==
  /\ Models[1] = Model("vaults", VaultKey, NoRefs, <<"ix_vaults_vault_id">>)
  /\ Models[2] = Model("notes", ScopedKey, InVault,
                       <<"ix_notes_vault_note", "ix_notes_vault_id", "ix_notes_note_id",
                         "ix_notes_content_hash">>)
  /\ Models[3] = Model("note_chunks", ScopedKey, OfNote,
                       <<"ix_chunks_vault_note", "ix_note_chunks_vault_id",
                         "ix_note_chunks_chunk_id", "ix_note_chunks_note_id",
                         "ix_note_chunks_content_hash">>)
  /\ Models[4] = Model("file_snapshots", ScopedKey, InVault, <<"ix_snapshot_vault_hash">>)
  /\ Models[5] = Model("saved_searches", ScopedKey, InVault, <<>>)
  /\ Models[6] = Model("flashcards", ScopedKey, OfNote, <<>>)
  /\ Models[7] = Model("flashcard_review_state", ScopedKey, OfCard, <<>>)
  /\ Models[8] = Model("watcher_state", VaultKey, InVault, <<>>)
  /\ Models[9] = Model("knowledge_events", ScopedKey, InVault,
                       <<"ix_events_vault_created", "ix_knowledge_events_event_type">>)
  BY DEF Models

LEMMA ModelIs ==
  ASSUME NEW t, NEW key, NEW refs, NEW names, NEW m, m = Model(t, key, refs, names)
  PROVE  m.name = t /\ m.key = key /\ m.refs = refs /\ m.indexes = names
  BY DEF Model

\* The table t of a model that is no stage.
TableModel(t, key, refs, names) ==
  /\ t \in Words /\ t \notin Stages /\ key \in {VaultKey, ScopedKey}
  /\ refs \in {NoRefs, InVault, OfNote, OfCard}
  /\ names \in Seq(Words) /\ \A k \in 1..Len(names) : names[k] \notin Watched

LEMMA MissingTable ==
  ASSUME NEW d, NEW i, NEW t, NEW key, NEW refs, NEW names,
         TableModel(t, key, refs, names), Models[i] = Model(t, key, refs, names)
  PROVE  /\ WellMade(Missing(d, i))
         /\ ~Has(d, t) => /\ Len(Missing(d, i)) > 0
                          /\ Missing(d, i)[1] = CreateTable(t, key, refs)
  <1>1. Models[i].name = t /\ Models[i].key = key /\ Models[i].refs = refs
        /\ Models[i].indexes = names
    BY ModelIs
  <1> DEFINE r == <<CreateTable(t, key, refs)>> \o Indexes(t, names)
  <1>2. Missing(d, i) = IF Has(d, t) THEN <<>> ELSE r
    BY <1>1 DEF Missing, Has
  <1>3. WellMade(r) /\ Len(r) > 0 /\ r[1] = CreateTable(t, key, refs)
    BY TableWellMade DEF TableModel
  <1> HIDE DEF r
  <1>4. CASE Has(d, t)
    BY <1>2, <1>4, EmptyWellMade
  <1>5. CASE ~Has(d, t)
    BY <1>2, <1>3, <1>5
  <1> QED  BY <1>4, <1>5

LEMMA MissingStage ==
  ASSUME NEW d, NEW k, NEW t \in {"notes", "note_chunks"}, NEW refs \in {InVault, OfNote},
         NEW i \in Watched, NEW names \in Seq(Words), Len(names) > 0, names[1] = i,
         \A n \in 2..Len(names) : names[n] \notin Watched,
         \/ CreateTable(t, ScopedKey, refs) = MakeNotes /\ CreateIndex(i, t) = IndexNotes
         \/ CreateTable(t, ScopedKey, refs) = MakeChunks /\ CreateIndex(i, t) = IndexChunks,
         Models[k] = Model(t, ScopedKey, refs, names)
  PROVE  WellMade(Missing(d, k))
  <1>1. Models[k].name = t /\ Models[k].key = ScopedKey /\ Models[k].refs = refs
        /\ Models[k].indexes = names
    BY ModelIs
  <1> DEFINE r == <<CreateTable(t, ScopedKey, refs)>> \o Indexes(t, names)
  <1>2. Missing(d, k) = IF Has(d, t) THEN <<>> ELSE r
    BY <1>1 DEF Missing, Has
  <1>3. WellMade(r)
    BY StageWellMade
  <1> HIDE DEF r
  <1> QED  BY <1>2, <1>3, EmptyWellMade

\* The lists of names.
LEMMA NoName ==
  /\ <<>> \in Seq(Words) /\ \A k \in 1..Len(<<>>) : <<>>[k] \notin Watched
  OBVIOUS
LEMMA OneName ==
  ASSUME NEW a \in Words, a \notin Watched
  PROVE  /\ <<a>> \in Seq(Words) /\ \A k \in 1..Len(<<a>>) : <<a>>[k] \notin Watched
  OBVIOUS
LEMMA TwoNames ==
  ASSUME NEW a \in Words, a \notin Watched, NEW b \in Words, b \notin Watched
  PROVE  /\ <<a, b>> \in Seq(Words) /\ \A k \in 1..Len(<<a, b>>) : <<a, b>>[k] \notin Watched
  <1> DEFINE p == <<a, b>>
  <1>1. p \in Seq(Words) /\ Len(p) = 2 /\ p[1] = a /\ p[2] = b
    OBVIOUS
  <1> HIDE DEF p
  <1>2. \A k \in 1..Len(p) : p[k] \notin Watched
    BY <1>1
  <1> QED  BY <1>1, <1>2 DEF p

LEMMA TableNames ==
  /\ "vaults" \notin Stages /\ "file_snapshots" \notin Stages /\ "saved_searches" \notin Stages
  /\ "flashcards" \notin Stages /\ "flashcard_review_state" \notin Stages
  /\ "watcher_state" \notin Stages /\ "knowledge_events" \notin Stages
  BY DEF Stages, NoteTables, ChunkTables

\* create_all makes the table of vaults first, when it is missing.
LEMMA CreateAllWellMade ==
  ASSUME NEW d
  PROVE  /\ WellMade(CreateAll(d))
         /\ ~Has(d, "vaults") =>
              /\ Len(CreateAll(d)) > 0
              /\ CreateAll(d)[1] = CreateTable("vaults", VaultKey, NoRefs)
  <1> DEFINE m(i) == Missing(d, i)
  <1>1. /\ WellMade(m(1))
        /\ ~Has(d, "vaults") => Len(m(1)) > 0 /\ m(1)[1] = CreateTable("vaults", VaultKey, NoRefs)
    <2>1. "ix_vaults_vault_id" \in Words /\ "ix_vaults_vault_id" \notin Watched
      BY WordsAre DEF Watched
    <2> DEFINE names == <<"ix_vaults_vault_id">>
    <2>2. names \in Seq(Words) /\ \A k \in 1..Len(names) : names[k] \notin Watched
      BY <2>1, OneName
    <2>3. Models[1] = Model("vaults", VaultKey, NoRefs, names)
      BY ModelsAre
    <2> HIDE DEF names
    <2>4. TableModel("vaults", VaultKey, NoRefs, names)
      BY <2>2, WordsAre, TableNames DEF TableModel
    <2> QED  BY <2>3, <2>4, MissingTable
  <1>2. WellMade(m(2))
    <2> DEFINE names == <<"ix_notes_vault_note", "ix_notes_vault_id", "ix_notes_note_id",
                          "ix_notes_content_hash">>
    <2>1. /\ names \in Seq(Words) /\ Len(names) = 4 /\ names[1] = "ix_notes_vault_note"
          /\ names[2] = "ix_notes_vault_id" /\ names[3] = "ix_notes_note_id"
          /\ names[4] = "ix_notes_content_hash"
      BY WordsAre
    <2>2. Models[2] = Model("notes", ScopedKey, InVault, names)
      BY ModelsAre
    <2> HIDE DEF names
    <2>3. \A n \in 2..Len(names) : names[n] \notin Watched
      BY <2>1 DEF Watched
    <2>4. /\ "ix_notes_vault_note" \in Watched /\ Len(names) > 0
          /\ CreateTable("notes", ScopedKey, InVault) = MakeNotes
          /\ CreateIndex("ix_notes_vault_note", "notes") = IndexNotes
      BY <2>1 DEF Watched, MakeNotes, IndexNotes
    <2> QED  BY <2>1, <2>2, <2>3, <2>4, MissingStage
  <1>3. WellMade(m(3))
    <2> DEFINE names == <<"ix_chunks_vault_note", "ix_note_chunks_vault_id",
                          "ix_note_chunks_chunk_id", "ix_note_chunks_note_id",
                          "ix_note_chunks_content_hash">>
    <2>1. /\ names \in Seq(Words) /\ Len(names) = 5 /\ names[1] = "ix_chunks_vault_note"
          /\ names[2] = "ix_note_chunks_vault_id" /\ names[3] = "ix_note_chunks_chunk_id"
          /\ names[4] = "ix_note_chunks_note_id" /\ names[5] = "ix_note_chunks_content_hash"
      BY WordsAre
    <2>2. Models[3] = Model("note_chunks", ScopedKey, OfNote, names)
      BY ModelsAre
    <2> HIDE DEF names
    <2>3. \A n \in 2..Len(names) : names[n] \notin Watched
      BY <2>1 DEF Watched
    <2>4. /\ "ix_chunks_vault_note" \in Watched /\ Len(names) > 0
          /\ CreateTable("note_chunks", ScopedKey, OfNote) = MakeChunks
          /\ CreateIndex("ix_chunks_vault_note", "note_chunks") = IndexChunks
      BY <2>1 DEF Watched, MakeChunks, IndexChunks
    <2> QED  BY <2>1, <2>2, <2>3, <2>4, MissingStage
  <1>4. WellMade(m(4))
    <2>1. "ix_snapshot_vault_hash" \in Words /\ "ix_snapshot_vault_hash" \notin Watched
      BY WordsAre DEF Watched
    <2> DEFINE names == <<"ix_snapshot_vault_hash">>
    <2>2. names \in Seq(Words) /\ \A k \in 1..Len(names) : names[k] \notin Watched
      BY <2>1, OneName
    <2>3. Models[4] = Model("file_snapshots", ScopedKey, InVault, names)
      BY ModelsAre
    <2> HIDE DEF names
    <2>4. TableModel("file_snapshots", ScopedKey, InVault, names)
      BY <2>2, WordsAre, TableNames DEF TableModel
    <2> QED  BY <2>3, <2>4, MissingTable
  <1>5. WellMade(m(5)) /\ WellMade(m(6)) /\ WellMade(m(7)) /\ WellMade(m(8))
    <2> DEFINE names == <<>>
    <2>1. names \in Seq(Words) /\ \A k \in 1..Len(names) : names[k] \notin Watched
      BY NoName
    <2>2. /\ Models[5] = Model("saved_searches", ScopedKey, InVault, names)
          /\ Models[6] = Model("flashcards", ScopedKey, OfNote, names)
          /\ Models[7] = Model("flashcard_review_state", ScopedKey, OfCard, names)
          /\ Models[8] = Model("watcher_state", VaultKey, InVault, names)
      BY ModelsAre
    <2> HIDE DEF names
    <2>t. /\ TableModel("saved_searches", ScopedKey, InVault, names)
          /\ TableModel("flashcards", ScopedKey, OfNote, names)
          /\ TableModel("flashcard_review_state", ScopedKey, OfCard, names)
          /\ TableModel("watcher_state", VaultKey, InVault, names)
      BY <2>1, WordsAre, TableNames DEF TableModel
    <2>3. WellMade(m(5))
      BY <2>2, <2>t, MissingTable
    <2>4. WellMade(m(6))
      BY <2>2, <2>t, MissingTable
    <2>5. WellMade(m(7))
      BY <2>2, <2>t, MissingTable
    <2>6. WellMade(m(8))
      BY <2>2, <2>t, MissingTable
    <2> QED  BY <2>3, <2>4, <2>5, <2>6
  <1>6. WellMade(m(9))
    <2>1. /\ "ix_events_vault_created" \in Words /\ "ix_events_vault_created" \notin Watched
          /\ "ix_knowledge_events_event_type" \in Words
          /\ "ix_knowledge_events_event_type" \notin Watched
      BY WordsAre DEF Watched
    <2> DEFINE names == <<"ix_events_vault_created", "ix_knowledge_events_event_type">>
    <2>2. names \in Seq(Words) /\ \A k \in 1..Len(names) : names[k] \notin Watched
      BY <2>1, TwoNames
    <2>3. Models[9] = Model("knowledge_events", ScopedKey, InVault, names)
      BY ModelsAre
    <2> HIDE DEF names
    <2>4. TableModel("knowledge_events", ScopedKey, InVault, names)
      BY <2>2, WordsAre, TableNames DEF TableModel
    <2> QED  BY <2>3, <2>4, MissingTable
  <1> DEFINE a2 == m(1) \o m(2)
             a3 == a2 \o m(3)
             a4 == a3 \o m(4)
             a5 == a4 \o m(5)
             a6 == a5 \o m(6)
             a7 == a6 \o m(7)
             a8 == a7 \o m(8)
             a9 == a8 \o m(9)
             First(p) == ~Has(d, "vaults") =>
                           Len(p) > 0 /\ p[1] = CreateTable("vaults", VaultKey, NoRefs)
  <1>7. CreateAll(d) = a9
    BY DEF CreateAll, Missing
  <1>8. First(m(1))
    BY <1>1
  <1>9. ASSUME NEW p, NEW q, WellMade(p), First(p), WellMade(q), NEW r, r = p \o q
        PROVE  WellMade(r) /\ First(r)
    BY <1>9, WellMadeBoth
  <1> HIDE DEF First
  <1>x. /\ a2 = m(1) \o m(2) /\ a3 = a2 \o m(3) /\ a4 = a3 \o m(4) /\ a5 = a4 \o m(5)
        /\ a6 = a5 \o m(6) /\ a7 = a6 \o m(7) /\ a8 = a7 \o m(8) /\ a9 = a8 \o m(9)
    OBVIOUS
  <1> HIDE DEF m, a2, a3, a4, a5, a6, a7, a8, a9
  <1>10. WellMade(a2) /\ First(a2)
    BY <1>1, <1>2, <1>8, <1>9, <1>x
  <1>11. WellMade(a3) /\ First(a3)
    BY <1>3, <1>10, <1>9, <1>x
  <1>12. WellMade(a4) /\ First(a4)
    BY <1>4, <1>11, <1>9, <1>x
  <1>13. WellMade(a5) /\ First(a5)
    BY <1>5, <1>12, <1>9, <1>x
  <1>14. WellMade(a6) /\ First(a6)
    BY <1>5, <1>13, <1>9, <1>x
  <1>15. WellMade(a7) /\ First(a7)
    BY <1>5, <1>14, <1>9, <1>x
  <1>16. WellMade(a8) /\ First(a8)
    BY <1>5, <1>15, <1>9, <1>x
  <1>17. WellMade(a9) /\ First(a9)
    BY <1>6, <1>16, <1>9, <1>x
  <1> QED  BY <1>7, <1>17 DEF First

-----------------------------------------------------------------------------
(* What a statement does to the rows, and to the soundness of a database. *)

\* The ids of the rows the tables T have.
Rows(d, T) == UNION {IdsIn(d, t) : t \in T}
Defaults(ids) == {i \in ids : i[1] = Default}
Carry(d, e) == \A T \in {NoteTables, ChunkTables} : Rows(d, T) \subseteq Rows(e, T)
CarryDefaults(d, e) ==
  \A T \in {NoteTables, ChunkTables} : Defaults(Rows(d, T)) \subseteq Rows(e, T)
OneFamily(t, u) == \A T \in {NoteTables, ChunkTables} : t \in T => u \in T

\* What the database has checked before it executes a statement.
Fits(d, s) ==
  /\ s.op = "create_table" => ~Has(d, s.name)
  /\ s.op = "create_index" => Has(d, s.table)
  /\ s.op = "drop_index" => s.name \in DOMAIN d.indexes
  /\ s.op = "drop_table" => Has(d, s.name)
  /\ s.op = "rename_table" => Has(d, s.name) /\ ~Has(d, s.to)
  /\ s.op \in {"insert", "copy_as_default", "copy_of_default"} => Has(d, s.name)
  /\ s.op \in {"copy_as_default", "copy_of_default"} => Has(d, s.from)

LEMMA AcceptsFits ==
  ASSUME NEW d, NEW s, Accepts(d, s)
  PROVE  Fits(d, s)
  <1>1. s.op = "create_table" => ~Has(d, s.name)
    BY DEF Accepts, Has
  <1>2. s.op = "create_index" => Has(d, s.table)
    BY DEF Accepts, Has
  <1>3. s.op = "drop_index" => s.name \in DOMAIN d.indexes
    BY DEF Accepts
  <1>4. s.op = "drop_table" => Has(d, s.name)
    BY DEF Accepts, Has
  <1>5. s.op = "rename_table" => Has(d, s.name) /\ ~Has(d, s.to)
    BY DEF Accepts, Has
  <1>6. s.op \in {"insert", "copy_as_default", "copy_of_default"} => Has(d, s.name)
    BY DEF Accepts, Has
  <1>7. s.op \in {"copy_as_default", "copy_of_default"} => Has(d, s.from)
    BY DEF Accepts, Has
  <1> QED  BY <1>1, <1>2, <1>3, <1>4, <1>5, <1>6, <1>7 DEF Fits

LEMMA Keys == {"note"} # ScopedKey
  BY DEF ScopedKey

LEMMA Families ==
  \A T \in {NoteTables, ChunkTables} : \A t \in T : t \in Stages
  BY DEF Stages

LEMMA CarryAll ==
  ASSUME NEW d, NEW e, \A t \in Stages : IdsIn(d, t) \subseteq IdsIn(e, t)
  PROVE  Carry(d, e)
  BY Families DEF Carry, Rows

\* The rows of x are elsewhere.
LEMMA CarryOver ==
  ASSUME NEW d, NEW e, NEW x, NEW y, OneFamily(x, y),
         \A t \in Stages : t # x => IdsIn(d, t) \subseteq IdsIn(e, t),
         IdsIn(d, x) \subseteq IdsIn(e, y)
  PROVE  Carry(d, e)
  <1> SUFFICES ASSUME NEW T \in {NoteTables, ChunkTables}, NEW i \in Rows(d, T)
               PROVE  i \in Rows(e, T)
    BY DEF Carry
  <1>1. PICK t \in T : i \in IdsIn(d, t)
    BY DEF Rows
  <1>2. CASE t = x
    BY <1>1, <1>2 DEF OneFamily, Rows
  <1>3. CASE t # x
    BY <1>1, <1>3, Families DEF Rows
  <1> QED  BY <1>2, <1>3

LEMMA CarryDefaultsOver ==
  ASSUME NEW d, NEW e, NEW x, NEW y, OneFamily(x, y),
         \A t \in Stages : t # x => IdsIn(d, t) \subseteq IdsIn(e, t),
         Defaults(IdsIn(d, x)) \subseteq IdsIn(e, y)
  PROVE  CarryDefaults(d, e)
  <1> SUFFICES ASSUME NEW T \in {NoteTables, ChunkTables}, NEW i \in Defaults(Rows(d, T))
               PROVE  i \in Rows(e, T)
    BY DEF CarryDefaults
  <1>1. PICK t \in T : i \in IdsIn(d, t)
    BY DEF Rows, Defaults
  <1>2. CASE t = x
    <2>1. i \in Defaults(IdsIn(d, x))
      BY <1>1, <1>2 DEF Defaults
    <2> QED  BY <1>2, <2>1 DEF OneFamily, Rows
  <1>3. CASE t # x
    BY <1>1, <1>3, Families DEF Rows
  <1> QED  BY <1>2, <1>3

LEMMA CarryIsEnough ==
  ASSUME NEW d, NEW e, Carry(d, e)
  PROVE  CarryDefaults(d, e)
  BY DEF Carry, CarryDefaults, Defaults

LEMMA SameRows ==
  ASSUME NEW d, NEW e, NEW t, SameTable(d, e, t)
  PROVE  /\ IdsIn(d, t) \subseteq IdsIn(e, t)
         /\ Keyed(d, t) => Keyed(e, t)
         /\ \A key : HasKey(e, t, key) <=> HasKey(d, t, key)
         /\ Has(e, t) <=> Has(d, t)
  <1>1. IdsIn(d, t) = IdsIn(e, t)
    BY SameIds
  <1>2. Keyed(d, t) => Keyed(e, t)
    BY DEF SameTable, Keyed
  <1> QED  BY <1>1, <1>2 DEF SameTable, HasKey

\* An index stays where it is when its table does.
LEMMA SameIndex ==
  ASSUME NEW d, NEW e, NEW i, NEW t, SameTable(d, e, t), NoNewIndex(d, e, i), IndexOn(d, i, t)
  PROVE  IndexOn(e, i, t)
  BY DEF SameTable, NoNewIndex, IndexOn, HasKey

LEMMA MinorCarries ==
  ASSUME NEW d, NEW e, Alike(d, e)
  PROVE  Carry(d, e)
  <1>1. \A t \in Stages : IdsIn(d, t) \subseteq IdsIn(e, t)
    BY SameRows DEF Alike
  <1> QED  BY <1>1, CarryAll

LEMMA CreateStage ==
  ASSUME NEW d, Sound(d), NEW t \in {"notes", "note_chunks"}, ~Has(d, t),
         NEW key \in {{"note"}, ScopedKey},
         key = ScopedKey => Has(d, "vaults"),
         NEW refs, NEW e, e = After(d, CreateTable(t, key, refs))
  PROVE  Sound(e) /\ Carry(d, e)
  <1>1. /\ Shaped(e) /\ e.version = d.version /\ e.indexes = d.indexes
        /\ HasKey(e, t, key) /\ e.tables[t].rows = {}
        /\ \A u : u # t => SameTable(d, e, u)
    BY CreateTableEffect DEF Sound
  <1>2. \A u \in Stages : Keyed(e, u)
    <2> TAKE u \in Stages
    <2>1. CASE u = t
      BY <1>1, <2>1 DEF Keyed, HasKey
    <2>2. CASE u # t
      BY <1>1, <2>2, SameRows DEF Sound
    <2> QED  BY <2>1, <2>2
  <1>3. SameTable(d, e, "vaults")
    BY <1>1
  <1>4. Behind(e)
    <2> SUFFICES ASSUME e.version # Revision2, NEW u \in Stages, HasKey(e, u, ScopedKey)
                 PROVE  Has(e, "vaults")
      BY DEF Behind
    <2>1. CASE u = t
      <3>1. key = ScopedKey
        BY <1>1, <2>1 DEF HasKey
      <3> QED  BY <1>3, <3>1 DEF SameTable
    <2>2. CASE u # t
      <3>1. HasKey(d, u, ScopedKey)
        BY <1>1, <2>2, SameRows
      <3>2. Has(d, "vaults")
        BY <1>1, <3>1 DEF Sound, Behind
      <3> QED  BY <1>3, <3>2 DEF SameTable
    <2> QED  BY <2>1, <2>2
  <1>5. \A i, u : IndexOn(d, i, u) => IndexOn(e, i, u)
    <2> SUFFICES ASSUME NEW i, NEW u, IndexOn(d, i, u), i \in DOMAIN e.indexes
                 PROVE  e.indexes[i] = u /\ HasKey(e, u, ScopedKey)
      BY DEF IndexOn
    <2>1. i \in DOMAIN d.indexes /\ d.indexes[i] = u /\ HasKey(d, u, ScopedKey)
      BY <1>1 DEF IndexOn
    <2>2. u # t
      BY <2>1 DEF HasKey
    <2> QED  BY <1>1, <2>1, <2>2, SameRows
  <1>6. AtHead(e)
    <2>1. "notes_legacy" # t /\ "note_chunks_legacy" # t
      OBVIOUS
    <2>2. SameTable(d, e, "notes_legacy") /\ SameTable(d, e, "note_chunks_legacy")
      BY <1>1, <2>1
    <2> QED  BY <1>1, <1>5, <2>2 DEF Sound, AtHead, SameTable
  <1>7. Carry(d, e)
    <2>1. IdsIn(d, t) = {}
      BY DEF IdsIn, Has
    <2>2. \A u \in Stages : IdsIn(d, u) \subseteq IdsIn(e, u)
      BY <1>1, <2>1, SameRows
    <2> QED  BY <2>2, CarryAll
  <1> QED  BY <1>1, <1>2, <1>4, <1>6, <1>7 DEF Sound

LEMMA IndexStage ==
  ASSUME NEW d, Sound(d), NEW i, NEW t,
         \/ i = "ix_notes_vault_note" /\ t = "notes"
         \/ i = "ix_chunks_vault_note" /\ t = "note_chunks",
         HasKey(d, t, ScopedKey), NEW e, e = After(d, CreateIndex(i, t))
  PROVE  Sound(e) /\ Carry(d, e)
  <1>1. /\ Shaped(e) /\ e.version = d.version /\ e.tables = d.tables
        /\ DOMAIN e.indexes = DOMAIN d.indexes \cup {i} /\ e.indexes[i] = t
        /\ \A j : j # i => NoNewIndex(d, e, j)
    BY CreateIndexEffect DEF Sound
  <1>2. \A u : SameTable(d, e, u)
    BY <1>1 DEF SameTable, Has
  <1>3. IndexOn(e, i, t)
    BY <1>1 DEF IndexOn, HasKey, Has
  <1>4. \A j, u : j # i /\ IndexOn(d, j, u) => IndexOn(e, j, u)
    BY <1>1, <1>2, SameIndex
  <1>5. AtHead(e)
    <2>1. Has(e, "notes_legacy") <=> Has(d, "notes_legacy")
      BY <1>1 DEF Has
    <2>2. Has(e, "note_chunks_legacy") <=> Has(d, "note_chunks_legacy")
      BY <1>1 DEF Has
    <2>3. CASE i = "ix_notes_vault_note" /\ t = "notes"
      <3>1. "ix_chunks_vault_note" # i
        BY <2>3
      <3> QED  BY <1>1, <1>3, <1>4, <2>1, <2>2, <2>3, <3>1 DEF Sound, AtHead
    <2>4. CASE i = "ix_chunks_vault_note" /\ t = "note_chunks"
      <3>1. "ix_notes_vault_note" # i
        BY <2>4
      <3> QED  BY <1>1, <1>3, <1>4, <2>1, <2>2, <2>4, <3>1 DEF Sound, AtHead
    <2> QED  BY <2>3, <2>4
  <1>6. Behind(e) /\ \A u \in Stages : Keyed(e, u)
    BY <1>1, <1>2, SameRows DEF Sound, Behind
  <1>7. Carry(d, e)
    BY <1>2, SameRows, CarryAll
  <1> QED  BY <1>1, <1>5, <1>6, <1>7 DEF Sound

\* Rows are copied into t, from a table of the first release.
LEMMA CopyUp ==
  ASSUME NEW d, Sound(d), NEW t \in Stages, NEW old \in Stages, t # old,
         HasKey(d, t, ScopedKey), Has(d, old), ~HasKey(d, old, ScopedKey),
         NEW e, e = After(d, CopyAsDefault(t, old))
  PROVE  /\ Sound(e) /\ Carry(d, e)
         /\ e.version = d.version /\ e.indexes = d.indexes
         /\ \A u : u # t => SameTable(d, e, u)
         /\ HasKey(e, t, ScopedKey)
         /\ IdsIn(e, old) \subseteq IdsIn(e, t)
  <1> DEFINE s == CopyAsDefault(t, old)
             R == {Scoped(r) : r \in d.tables[old].rows}
  <1>1. s.op = "copy_as_default" /\ s.name = t /\ s.from = old
    BY DEF CopyAsDefault
  <1>2. RowsOf(d, s) = R
    BY <1>1 DEF RowsOf
  <1>3. e = After(d, s)
    OBVIOUS
  <1> HIDE DEF s
  <1>4. /\ Shaped(e) /\ e.version = d.version /\ e.indexes = d.indexes
        /\ Has(e, t) /\ e.tables[t].key = d.tables[t].key
        /\ e.tables[t].rows = d.tables[t].rows \cup R
        /\ \A u : u # t => SameTable(d, e, u)
    <2>1. Shaped(d) /\ Has(d, s.name) /\ s.op \in {"insert", "copy_as_default", "copy_of_default"}
      BY <1>1 DEF Sound, HasKey
    <2> QED  BY <1>1, <1>2, <1>3, <2>1, RowsEffect
  <1>5. \A r \in R : r.vault = Default /\ r.id[1] = Default
    <2>1. \A r \in d.tables[old].rows : r.id[1] = Default
      BY DEF Sound, Keyed, HasKey
    <2>2. \A r : Scoped(r).vault = Default /\ Scoped(r).id = r.id
      BY DEF Scoped
    <2> QED  BY <2>1, <2>2
  <1>6. {r.id : r \in R} = {r.id : r \in d.tables[old].rows}
    <2>1. \A r : Scoped(r).id = r.id
      BY DEF Scoped
    <2> QED  BY <2>1
  <1> HIDE DEF R
  <1>7. HasKey(e, t, ScopedKey)
    BY <1>4 DEF HasKey
  <1>8. \A u : \A key : HasKey(e, u, key) <=> HasKey(d, u, key)
    <2> TAKE u
    <2>1. CASE u = t
      BY <1>4, <2>1 DEF HasKey
    <2>2. CASE u # t
      BY <1>4, <2>2, SameRows
    <2> QED  BY <2>1, <2>2
  <1>9. Keyed(e, t)
    <2>1. \A r \in d.tables[t].rows : r.vault = r.id[1]
      BY Keys DEF Sound, Keyed, HasKey
    <2>2. \A r \in e.tables[t].rows : r.vault = r.id[1]
      BY <1>4, <1>5, <2>1
    <2> QED  BY <1>7, <2>2 DEF Keyed, HasKey
  <1>10. \A u \in Stages : Keyed(e, u)
    BY <1>4, <1>9, SameRows DEF Sound
  <1>11. Has(e, "vaults") <=> Has(d, "vaults")
    BY <1>4, Names DEF SameTable
  <1>12. \A u \in Stages : Has(e, u) <=> Has(d, u)
    BY <1>4 DEF SameTable, HasKey
  <1>13. Behind(e)
    BY <1>4, <1>8, <1>11 DEF Sound, Behind
  <1>14. \A i, u : IndexOn(d, i, u) => IndexOn(e, i, u)
    BY <1>4, <1>8 DEF IndexOn
  <1>15. AtHead(e)
    BY <1>4, <1>12, <1>14, Names DEF Sound, AtHead
  <1>16. IdsIn(d, t) \subseteq IdsIn(e, t) /\ IdsIn(d, old) \subseteq IdsIn(e, t)
    BY <1>4, <1>6, <1>7 DEF IdsIn, HasKey, Has
  <1>17. IdsIn(e, old) \subseteq IdsIn(e, t)
    BY <1>4, <1>16, SameIds
  <1>18. Carry(d, e)
    <2>1. ASSUME NEW u \in Stages
          PROVE  IdsIn(d, u) \subseteq IdsIn(e, u)
      <3>1. CASE u = t
        BY <1>16, <3>1
      <3>2. CASE u # t
        BY <1>4, <3>2, SameRows
      <3> QED  BY <3>1, <3>2
    <2> QED  BY <2>1, CarryAll
  <1> QED  BY <1>4, <1>7, <1>10, <1>13, <1>15, <1>17, <1>18 DEF Sound

\* The rows of the default vault are copied back into t.
LEMMA CopyDown ==
  ASSUME NEW d, Sound(d), NEW t \in Stages, NEW old \in Stages, t # old,
         HasKey(d, t, {"note"}), HasKey(d, old, ScopedKey),
         NEW e, e = After(d, CopyOfDefault(t, old))
  PROVE  /\ Sound(e) /\ Carry(d, e)
         /\ e.version = d.version /\ e.indexes = d.indexes
         /\ \A u : u # t => SameTable(d, e, u)
         /\ HasKey(e, t, {"note"})
         /\ Defaults(IdsIn(e, old)) \subseteq IdsIn(e, t)
  <1> DEFINE s == CopyOfDefault(t, old)
             D == {r \in d.tables[old].rows : r.vault = Default}
             R == {Unscoped(r) : r \in D}
  <1>1. s.op = "copy_of_default" /\ s.name = t /\ s.from = old
    BY DEF CopyOfDefault
  <1>2. RowsOf(d, s) = R
    BY <1>1 DEF RowsOf
  <1>3. e = After(d, s)
    OBVIOUS
  <1> HIDE DEF s
  <1>4. /\ Shaped(e) /\ e.version = d.version /\ e.indexes = d.indexes
        /\ Has(e, t) /\ e.tables[t].key = d.tables[t].key
        /\ e.tables[t].rows = d.tables[t].rows \cup R
        /\ \A u : u # t => SameTable(d, e, u)
    <2>1. Shaped(d) /\ Has(d, s.name) /\ s.op \in {"insert", "copy_as_default", "copy_of_default"}
      BY <1>1 DEF Sound, HasKey
    <2> QED  BY <1>1, <1>2, <1>3, <2>1, RowsEffect
  <1>5. \A r \in d.tables[old].rows : r.vault = r.id[1]
    BY Keys DEF Sound, Keyed, HasKey
  <1>u. \A r : Unscoped(r).id = r.id
    BY DEF Unscoped
  <1>6. \A r \in R : r.id[1] = Default
    BY <1>5, <1>u
  <1>7. \A i \in Defaults(IdsIn(d, old)) : \E r \in R : r.id = i
    <2> TAKE i \in Defaults(IdsIn(d, old))
    <2>1. PICK r \in d.tables[old].rows : r.id = i /\ i[1] = Default
      BY DEF Defaults, IdsIn
    <2>2. r \in D
      BY <1>5, <2>1
    <2> QED  BY <1>u, <2>1, <2>2
  <1> HIDE DEF R, D
  <1>8. HasKey(e, t, {"note"})
    BY <1>4 DEF HasKey
  <1>9. \A u : \A key : HasKey(e, u, key) <=> HasKey(d, u, key)
    <2> TAKE u
    <2>1. CASE u = t
      BY <1>4, <2>1 DEF HasKey
    <2>2. CASE u # t
      BY <1>4, <2>2, SameRows
    <2> QED  BY <2>1, <2>2
  <1>10. Keyed(e, t)
    <2>1. \A r \in d.tables[t].rows : r.id[1] = Default
      BY Keys DEF Sound, Keyed, HasKey
    <2>2. \A r \in e.tables[t].rows : r.id[1] = Default
      BY <1>4, <1>6, <2>1
    <2> QED  BY <1>8, <2>2 DEF Keyed, HasKey
  <1>11. \A u \in Stages : Keyed(e, u)
    BY <1>4, <1>10, SameRows DEF Sound
  <1>12. Has(e, "vaults") <=> Has(d, "vaults")
    BY <1>4, Names DEF SameTable
  <1>13. \A u \in Stages : Has(e, u) <=> Has(d, u)
    BY <1>4 DEF SameTable, HasKey
  <1>14. Behind(e)
    BY <1>4, <1>9, <1>12 DEF Sound, Behind
  <1>15. \A i, u : IndexOn(d, i, u) => IndexOn(e, i, u)
    BY <1>4, <1>9 DEF IndexOn
  <1>16. AtHead(e)
    BY <1>4, <1>13, <1>15, Names DEF Sound, AtHead
  <1>17. IdsIn(d, t) \subseteq IdsIn(e, t)
    BY <1>4, <1>8 DEF IdsIn, HasKey, Has
  <1>18. Defaults(IdsIn(d, old)) \subseteq IdsIn(e, t)
    BY <1>4, <1>7 DEF IdsIn, Has
  <1>19. Defaults(IdsIn(e, old)) \subseteq IdsIn(e, t)
    BY <1>4, <1>18, SameIds
  <1>20. Carry(d, e)
    BY <1>4, <1>17, SameRows, CarryAll
  <1> QED  BY <1>4, <1>8, <1>11, <1>14, <1>16, <1>19, <1>20 DEF Sound

\* A table is put aside.
LEMMA RenameStage ==
  ASSUME NEW d, Sound(d), NEW t \in Stages, NEW new \in Stages, OneFamily(t, new),
         Has(d, t), ~Has(d, new),
         d.version = Revision2 =>
           /\ new \notin {"notes_legacy", "note_chunks_legacy"}
           /\ \A i \in Watched : i \notin DOMAIN d.indexes,
         NEW e, e = After(d, Rename(t, new))
  PROVE  /\ Sound(e) /\ Carry(d, e)
         /\ e.version = d.version /\ DOMAIN e.indexes = DOMAIN d.indexes
         /\ \A u : u \notin {t, new} => SameTable(d, e, u)
         /\ ~Has(e, t) /\ \A key : HasKey(e, new, key) <=> HasKey(d, t, key)
  <1>1. /\ Shaped(e) /\ e.version = d.version
        /\ ~Has(e, t) /\ Has(e, new)
        /\ e.tables[new].key = d.tables[t].key /\ e.tables[new].rows = d.tables[t].rows
        /\ \A u : u \notin {t, new} => SameTable(d, e, u)
        /\ DOMAIN e.indexes = DOMAIN d.indexes
    BY RenameEffect DEF Sound
  <1>2. Keyed(e, new)
    BY <1>1 DEF Sound, Keyed
  <1>3. Keyed(e, t)
    BY <1>1 DEF Keyed
  <1>4. \A u \in Stages : Keyed(e, u)
    BY <1>1, <1>2, <1>3, SameRows DEF Sound
  <1>5. \A key : HasKey(e, new, key) <=> HasKey(d, t, key)
    BY <1>1 DEF HasKey
  <1>6. Has(e, "vaults") <=> Has(d, "vaults")
    BY <1>1, Names DEF SameTable
  <1>7. Behind(e)
    <2> SUFFICES ASSUME e.version # Revision2, NEW u \in Stages, HasKey(e, u, ScopedKey)
                 PROVE  Has(e, "vaults")
      BY DEF Behind
    <2>1. u # t
      BY <1>1 DEF HasKey
    <2>2. \E w \in Stages : HasKey(d, w, ScopedKey)
      BY <1>1, <1>5, <2>1, SameRows
    <2> QED  BY <1>1, <1>6, <2>2 DEF Sound, Behind
  <1>8. AtHead(e)
    <2> SUFFICES ASSUME e.version = Revision2
                 PROVE  /\ ~Has(e, "notes_legacy") /\ ~Has(e, "note_chunks_legacy")
                        /\ IndexOn(e, "ix_notes_vault_note", "notes")
                        /\ IndexOn(e, "ix_chunks_vault_note", "note_chunks")
      BY DEF AtHead
    <2>1. \A u \in {"notes_legacy", "note_chunks_legacy"} : ~Has(e, u)
      <3> TAKE u \in {"notes_legacy", "note_chunks_legacy"}
      <3>1. ~Has(d, u)
        BY <1>1 DEF Sound, AtHead
      <3>2. u # new
        BY <1>1
      <3> QED  BY <1>1, <3>1, <3>2 DEF SameTable
    <2>2. \A i \in Watched : i \notin DOMAIN e.indexes
      BY <1>1
    <2> QED  BY <2>1, <2>2 DEF IndexOn, Watched
  <1>9. Carry(d, e)
    <2>1. IdsIn(d, t) \subseteq IdsIn(e, new)
      BY <1>1 DEF IdsIn, Has
    <2>2. \A u \in Stages : u # t => IdsIn(d, u) \subseteq IdsIn(e, u)
      <3> TAKE u \in Stages
      <3>1. CASE u = new
        BY <3>1 DEF IdsIn, Has
      <3>2. CASE u # new
        BY <1>1, <3>2, SameRows
      <3> QED  BY <3>1, <3>2
    <2> QED  BY <2>1, <2>2, CarryOver
  <1> QED  BY <1>1, <1>4, <1>5, <1>7, <1>8, <1>9 DEF Sound

LEMMA DropStage ==
  ASSUME NEW d, Sound(d), NEW t \in Stages,
         d.version = Revision2 => t \notin {"notes", "note_chunks"},
         NEW e, e = After(d, DropTable(t))
  PROVE  /\ Sound(e) /\ e.version = d.version /\ ~Has(e, t)
         /\ \A u : u # t => SameTable(d, e, u)
         /\ \A i : NoNewIndex(d, e, i)
         /\ \A y \in Stages : OneFamily(t, y) /\ t # y /\ IdsIn(d, t) \subseteq IdsIn(d, y)
                                => Carry(d, e)
         /\ \A y \in Stages : OneFamily(t, y) /\ t # y /\ Defaults(IdsIn(d, t)) \subseteq IdsIn(d, y)
                                => CarryDefaults(d, e)
  <1>1. /\ Shaped(e) /\ e.version = d.version /\ ~Has(e, t)
        /\ \A u : u # t => SameTable(d, e, u)
        /\ \A j : NoNewIndex(d, e, j)
    BY DropTableEffect DEF Sound
  <1>2. \A u \in Stages : Keyed(e, u)
    BY <1>1, SameRows DEF Sound, Keyed
  <1>3. Has(e, "vaults") <=> Has(d, "vaults")
    BY <1>1, Names DEF SameTable
  <1>4. \A u : \A key : HasKey(e, u, key) => HasKey(d, u, key)
    BY <1>1, SameRows DEF HasKey
  <1>5. Behind(e)
    BY <1>1, <1>3, <1>4 DEF Sound, Behind
  <1>6. \A u : Has(e, u) => Has(d, u)
    BY <1>1 DEF SameTable
  <1>7. AtHead(e)
    <2> SUFFICES ASSUME e.version = Revision2
                 PROVE  /\ ~Has(e, "notes_legacy") /\ ~Has(e, "note_chunks_legacy")
                        /\ IndexOn(e, "ix_notes_vault_note", "notes")
                        /\ IndexOn(e, "ix_chunks_vault_note", "note_chunks")
      BY DEF AtHead
    <2>1. t # "notes" /\ t # "note_chunks"
      BY <1>1
    <2>2. /\ SameTable(d, e, "notes") /\ SameTable(d, e, "note_chunks")
          /\ NoNewIndex(d, e, "ix_notes_vault_note") /\ NoNewIndex(d, e, "ix_chunks_vault_note")
      BY <1>1, <2>1
    <2>3. /\ ~Has(d, "notes_legacy") /\ ~Has(d, "note_chunks_legacy")
          /\ IndexOn(d, "ix_notes_vault_note", "notes")
          /\ IndexOn(d, "ix_chunks_vault_note", "note_chunks")
      BY <1>1 DEF Sound, AtHead
    <2> QED  BY <1>6, <2>2, <2>3, SameIndex
  <1>8. \A u \in Stages : u # t => IdsIn(d, u) \subseteq IdsIn(e, u)
    BY <1>1, SameRows
  <1>9. ASSUME NEW y \in Stages, OneFamily(t, y), t # y, IdsIn(d, t) \subseteq IdsIn(d, y)
        PROVE  Carry(d, e)
    <2>1. IdsIn(d, t) \subseteq IdsIn(e, y)
      BY <1>8, <1>9
    <2> QED  BY <1>8, <1>9, <2>1, CarryOver
  <1>10. ASSUME NEW y \in Stages, OneFamily(t, y), t # y,
                Defaults(IdsIn(d, t)) \subseteq IdsIn(d, y)
         PROVE  CarryDefaults(d, e)
    <2>1. Defaults(IdsIn(d, t)) \subseteq IdsIn(e, y)
      BY <1>8, <1>10
    <2> QED  BY <1>8, <1>10, <2>1, CarryDefaultsOver
  <1>11. Sound(e)
    BY <1>1, <1>2, <1>5, <1>7 DEF Sound
  <1> QED  BY <1>1, <1>9, <1>10, <1>11

LEMMA DropVaults ==
  ASSUME NEW d, Sound(d), d.version = Revision2, NEW e, e = After(d, DropTable("vaults"))
  PROVE  /\ Sound(e) /\ Carry(d, e) /\ e.version = d.version
         /\ \A u \in Stages : SameTable(d, e, u)
         /\ \A i : NoNewIndex(d, e, i)
  <1>1. /\ Shaped(e) /\ e.version = d.version
        /\ \A u : u # "vaults" => SameTable(d, e, u)
        /\ \A j : NoNewIndex(d, e, j)
    BY DropTableEffect DEF Sound
  <1>2. \A u \in Stages : SameTable(d, e, u)
    BY <1>1, Names
  <1>3. \A u \in Stages : Keyed(e, u)
    BY <1>2, SameRows DEF Sound
  <1>4. AtHead(e)
    BY <1>1, <1>2, Names, SameIndex DEF Sound, AtHead, SameTable
  <1>5. Behind(e)
    BY <1>1 DEF Behind
  <1>6. Carry(d, e)
    BY <1>2, SameRows, CarryAll
  <1> QED  BY <1>1, <1>2, <1>3, <1>4, <1>5, <1>6 DEF Sound

LEMMA StampCarries ==
  ASSUME NEW d, Sound(d), NEW v \in {Base, Revision1, Revision2}, NEW e, e = After(d, Stamp(v)),
         v # Revision2 /\ d.version = Revision2 =>
           Has(d, "vaults") \/ \A t \in Stages : ~HasKey(d, t, ScopedKey),
         v = Revision2 =>
           /\ ~Has(d, "notes_legacy") /\ ~Has(d, "note_chunks_legacy")
           /\ IndexOn(d, "ix_notes_vault_note", "notes")
           /\ IndexOn(d, "ix_chunks_vault_note", "note_chunks")
  PROVE  Sound(e) /\ Carry(d, e) /\ e.version = v /\ e.tables = d.tables
  <1>1. Shaped(e) /\ e.version = v /\ e.tables = d.tables /\ e.indexes = d.indexes
    BY StampEffect DEF Sound
  <1>2. \A u : /\ Has(e, u) <=> Has(d, u)
               /\ Keyed(e, u) <=> Keyed(d, u)
               /\ IdsIn(e, u) = IdsIn(d, u)
               /\ \A key : HasKey(e, u, key) <=> HasKey(d, u, key)
    BY <1>1 DEF Has, HasKey, Keyed, IdsIn
  <1>3. \A i, u : IndexOn(d, i, u) => IndexOn(e, i, u)
    BY <1>1, <1>2 DEF IndexOn
  <1>4. Behind(e)
    BY <1>1, <1>2 DEF Sound, Behind
  <1>5. AtHead(e)
    BY <1>1, <1>2, <1>3 DEF Sound, AtHead
  <1>6. Carry(d, e)
    BY <1>2, CarryAll
  <1> QED  BY <1>1, <1>2, <1>4, <1>5, <1>6 DEF Sound

-----------------------------------------------------------------------------
(* The upgrade, n statements before its end. *)

\* A table t is made again beside the old one; the numbers say before which
\* statements from the end that, its index, the copy and the drop are done.
Upgrading(d, n, t, old, i, made, indexed, copied, dropped) ==
  /\ n < made => HasKey(d, t, ScopedKey)
  /\ n < indexed => IndexOn(d, i, t)
  /\ n \in copied..27 => ~HasKey(d, old, ScopedKey)
  /\ n \in dropped..copied - 1 => IdsIn(d, old) \subseteq IdsIn(d, t)
  /\ n < dropped => ~Has(d, old)

UpgradingNotes(d, n) ==
  Upgrading(d, n, "notes", "notes_legacy", "ix_notes_vault_note", 25, 22, 20, 11)
UpgradingChunks(d, n) ==
  Upgrading(d, n, "note_chunks", "note_chunks_legacy", "ix_chunks_vault_note", 19, 15, 13, 12)
UpFacts(d, n) ==
  /\ d.version = IF n >= 36 THEN Base ELSE Revision1
  /\ n < 28 => Has(d, "vaults")
  /\ UpgradingNotes(d, n)
  /\ UpgradingChunks(d, n)

\* A statement on other tables.
LEMMA UpgradingKept ==
  ASSUME NEW d, NEW e, NEW n \in 1..43, NEW t, NEW old, NEW i,
         NEW made \in 1..27, NEW indexed \in 1..27, NEW copied \in 1..27, NEW dropped \in 1..27,
         Upgrading(d, n, t, old, i, made, indexed, copied, dropped),
         n \notin {made, indexed, copied, dropped},
         n = 28 => ~HasKey(d, old, ScopedKey),
         SameTable(d, e, t), SameTable(d, e, old), NoNewIndex(d, e, i)
  PROVE  Upgrading(e, n - 1, t, old, i, made, indexed, copied, dropped)
  <1>1. /\ \A key : HasKey(e, t, key) <=> HasKey(d, t, key)
        /\ \A key : HasKey(e, old, key) <=> HasKey(d, old, key)
        /\ Has(e, old) <=> Has(d, old)
    BY SameRows
  <1>2. IdsIn(e, t) = IdsIn(d, t) /\ IdsIn(e, old) = IdsIn(d, old)
    BY SameIds
  <1>3. n - 1 < made => HasKey(e, t, ScopedKey)
    BY <1>1 DEF Upgrading
  <1>4. n - 1 < indexed => IndexOn(e, i, t)
    BY SameIndex DEF Upgrading
  <1>5. n - 1 \in copied..27 => ~HasKey(e, old, ScopedKey)
    BY <1>1 DEF Upgrading
  <1>6. n - 1 \in dropped..copied - 1 => IdsIn(e, old) \subseteq IdsIn(e, t)
    BY <1>2 DEF Upgrading
  <1>7. n - 1 < dropped => ~Has(e, old)
    BY <1>1 DEF Upgrading
  <1> QED  BY <1>3, <1>4, <1>5, <1>6, <1>7 DEF Upgrading

LEMMA UpgradingMade ==
  ASSUME NEW d, NEW e, NEW n \in 1..27, NEW t, NEW old, NEW i,
         NEW indexed \in 1..n - 1, NEW copied \in 1..indexed - 1, NEW dropped \in 1..copied - 1,
         Upgrading(d, n, t, old, i, n, indexed, copied, dropped),
         HasKey(e, t, ScopedKey), SameTable(d, e, old)
  PROVE  Upgrading(e, n - 1, t, old, i, n, indexed, copied, dropped)
  <1>1. \A key : HasKey(e, old, key) <=> HasKey(d, old, key)
    BY SameRows
  <1>2. ~HasKey(e, old, ScopedKey)
    BY <1>1 DEF Upgrading
  <1> QED  BY <1>2 DEF Upgrading

LEMMA UpgradingIndexed ==
  ASSUME NEW d, NEW e, NEW n \in 1..27, NEW t, NEW old, NEW i, NEW made \in n + 1..27,
         NEW copied \in 1..n - 1, NEW dropped \in 1..copied - 1,
         Upgrading(d, n, t, old, i, made, n, copied, dropped),
         e.tables = d.tables, e.indexes[i] = t
  PROVE  Upgrading(e, n - 1, t, old, i, made, n, copied, dropped)
  <1>1. \A u, key : HasKey(e, u, key) <=> HasKey(d, u, key)
    BY DEF HasKey, Has
  <1>2. HasKey(e, t, ScopedKey) /\ ~HasKey(e, old, ScopedKey)
    BY <1>1 DEF Upgrading
  <1> QED  BY <1>2 DEF Upgrading, IndexOn

LEMMA UpgradingCopied ==
  ASSUME NEW d, NEW e, NEW n \in 1..27, NEW t, NEW old, NEW i, NEW made \in n + 1..27,
         NEW indexed \in n + 1..27, NEW dropped \in 1..n - 1,
         Upgrading(d, n, t, old, i, made, indexed, n, dropped),
         e.indexes = d.indexes, HasKey(e, t, ScopedKey), IdsIn(e, old) \subseteq IdsIn(e, t)
  PROVE  Upgrading(e, n - 1, t, old, i, made, indexed, n, dropped)
  BY DEF Upgrading, IndexOn

LEMMA UpgradingDropped ==
  ASSUME NEW d, NEW e, NEW n \in 1..27, NEW t, NEW old, NEW i, NEW made \in n + 1..27,
         NEW indexed \in n + 1..27, NEW copied \in n + 1..27,
         Upgrading(d, n, t, old, i, made, indexed, copied, n),
         SameTable(d, e, t), NoNewIndex(d, e, i), ~Has(e, old)
  PROVE  Upgrading(e, n - 1, t, old, i, made, indexed, copied, n)
  <1>1. HasKey(e, t, ScopedKey)
    BY SameRows DEF Upgrading
  <1>2. IndexOn(e, i, t)
    BY SameIndex DEF Upgrading
  <1> QED  BY <1>1, <1>2 DEF Upgrading

LEMMA NotesKept ==
  ASSUME NEW d, NEW e, NEW n \in 1..43, UpgradingNotes(d, n), n \notin {25, 22, 20, 11},
         n = 28 => ~HasKey(d, "notes_legacy", ScopedKey),
         SameTable(d, e, "notes"), SameTable(d, e, "notes_legacy"),
         NoNewIndex(d, e, "ix_notes_vault_note")
  PROVE  UpgradingNotes(e, n - 1)
  <1>1. Upgrading(d, n, "notes", "notes_legacy", "ix_notes_vault_note", 25, 22, 20, 11)
    BY DEF UpgradingNotes
  <1>2. 25 \in 1..27 /\ 22 \in 1..27 /\ 20 \in 1..27 /\ 11 \in 1..27
    OBVIOUS
  <1>3. Upgrading(e, n - 1, "notes", "notes_legacy", "ix_notes_vault_note", 25, 22, 20, 11)
    BY <1>1, <1>2, UpgradingKept, Zenon
  <1> QED  BY <1>3 DEF UpgradingNotes

LEMMA ChunksKept ==
  ASSUME NEW d, NEW e, NEW n \in 1..43, UpgradingChunks(d, n), n \notin {19, 15, 13, 12},
         n = 28 => ~HasKey(d, "note_chunks_legacy", ScopedKey),
         SameTable(d, e, "note_chunks"), SameTable(d, e, "note_chunks_legacy"),
         NoNewIndex(d, e, "ix_chunks_vault_note")
  PROVE  UpgradingChunks(e, n - 1)
  <1>1. Upgrading(d, n, "note_chunks", "note_chunks_legacy", "ix_chunks_vault_note", 19, 15, 13, 12)
    BY DEF UpgradingChunks
  <1>2. 19 \in 1..27 /\ 15 \in 1..27 /\ 13 \in 1..27 /\ 12 \in 1..27
    OBVIOUS
  <1>3. Upgrading(e, n - 1, "note_chunks", "note_chunks_legacy", "ix_chunks_vault_note", 19, 15, 13, 12)
    BY <1>1, <1>2, UpgradingKept, Zenon
  <1> QED  BY <1>3 DEF UpgradingChunks

\* Only other tables and indexes are touched.
LEMMA UpFactsKept ==
  ASSUME NEW d, NEW e, NEW n \in 1..43, UpFacts(d, n),
         n \notin {11, 12, 13, 15, 19, 20, 22, 25, 36},
         n = 28 => Has(e, "vaults") /\ \A t \in Stages : ~HasKey(d, t, ScopedKey),
         Alike(d, e)
  PROVE  UpFacts(e, n - 1)
  <1>1. /\ SameTable(d, e, "notes") /\ SameTable(d, e, "notes_legacy")
        /\ SameTable(d, e, "note_chunks") /\ SameTable(d, e, "note_chunks_legacy")
        /\ NoNewIndex(d, e, "ix_notes_vault_note") /\ NoNewIndex(d, e, "ix_chunks_vault_note")
        /\ e.version = d.version /\ (Has(d, "vaults") => Has(e, "vaults"))
    BY Names DEF Alike, Watched
  <1>2. n = 28 => ~HasKey(d, "notes_legacy", ScopedKey) /\ ~HasKey(d, "note_chunks_legacy", ScopedKey)
    BY Names
  <1>3. UpgradingNotes(d, n) /\ UpgradingChunks(d, n)
    BY DEF UpFacts
  <1>4. UpgradingNotes(e, n - 1)
    BY <1>1, <1>2, <1>3, NotesKept
  <1>5. UpgradingChunks(e, n - 1)
    BY <1>1, <1>2, <1>3, ChunksKept
  <1> QED  BY <1>1, <1>4, <1>5 DEF UpFacts

\* The table is made again.
LEMMA UpMadeNotes ==
  ASSUME NEW d, Sound(d), NEW n, n = 25, UpFacts(d, n), NEW s, s = CreateTable("notes", ScopedKey, InVault),
         Fits(d, s), NEW e, e = After(d, s)
  PROVE  Sound(e) /\ Carry(d, e) /\ UpFacts(e, n - 1)
  <1>1. /\ d.version = Revision1 /\ Has(d, "vaults")
        /\ Upgrading(d, n, "notes", "notes_legacy", "ix_notes_vault_note", 25, 22, 20, 11)
        /\ UpgradingChunks(d, n)
    BY DEF UpFacts, UpgradingNotes
  <1>2. ~Has(d, "notes")
    BY DEF Fits, CreateTable
  <1>3. Sound(e) /\ Carry(d, e)
    BY <1>1, <1>2, CreateStage
  <1>4. /\ e.version = d.version /\ e.indexes = d.indexes /\ HasKey(e, "notes", ScopedKey)
        /\ \A u : u # "notes" => SameTable(d, e, u)
    BY <1>2, CreateTableEffect DEF Sound
  <1>5. /\ SameTable(d, e, "notes_legacy") /\ SameTable(d, e, "vaults")
        /\ SameTable(d, e, "note_chunks") /\ SameTable(d, e, "note_chunks_legacy")
        /\ NoNewIndex(d, e, "ix_chunks_vault_note")
    BY <1>4 DEF NoNewIndex
  <1>6. UpgradingNotes(e, n - 1)
    <2>1. n \in 1..27 /\ 22 \in 1..n - 1 /\ 20 \in 1..22 - 1 /\ 11 \in 1..20 - 1
      OBVIOUS
    <2>2. Upgrading(d, n, "notes", "notes_legacy", "ix_notes_vault_note", n, 22, 20, 11)
      BY <1>1
    <2>3. Upgrading(e, n - 1, "notes", "notes_legacy", "ix_notes_vault_note", n, 22, 20, 11)
      BY <1>4, <1>5, <2>1, <2>2, UpgradingMade, Zenon
    <2> QED  BY <2>3 DEF UpgradingNotes
  <1>7. UpgradingChunks(e, n - 1)
    <2>1. n \in 1..43 /\ n \notin {19, 15, 13, 12} /\ n # 28
      OBVIOUS
    <2> QED  BY <1>5, <1>1, <2>1, ChunksKept
  <1>8. Has(e, "vaults")
    BY <1>1, <1>5 DEF SameTable
  <1> QED  BY <1>1, <1>3, <1>4, <1>6, <1>7, <1>8 DEF UpFacts

\* Its index is made.
LEMMA UpIndexedNotes ==
  ASSUME NEW d, Sound(d), NEW n, n = 22, UpFacts(d, n), NEW s, s = CreateIndex("ix_notes_vault_note", "notes"),
         Fits(d, s), NEW e, e = After(d, s)
  PROVE  Sound(e) /\ Carry(d, e) /\ UpFacts(e, n - 1)
  <1>1. /\ d.version = Revision1 /\ Has(d, "vaults")
        /\ Upgrading(d, n, "notes", "notes_legacy", "ix_notes_vault_note", 25, 22, 20, 11)
        /\ UpgradingChunks(d, n)
    BY DEF UpFacts, UpgradingNotes
  <1>2. HasKey(d, "notes", ScopedKey)
    BY <1>1 DEF Upgrading
  <1>3. Sound(e) /\ Carry(d, e)
    BY <1>2, IndexStage
  <1>4. /\ e.version = d.version /\ e.tables = d.tables /\ e.indexes["ix_notes_vault_note"] = "notes"
        /\ \A j : j # "ix_notes_vault_note" => NoNewIndex(d, e, j)
    BY CreateIndexEffect DEF Sound
  <1>5. /\ SameTable(d, e, "note_chunks") /\ SameTable(d, e, "note_chunks_legacy")
        /\ NoNewIndex(d, e, "ix_chunks_vault_note") /\ Has(e, "vaults")
    BY <1>1, <1>4 DEF SameTable, Has
  <1>6. UpgradingNotes(e, n - 1)
    <2>1. n \in 1..27 /\ 25 \in n + 1..27 /\ 20 \in 1..n - 1 /\ 11 \in 1..20 - 1
      OBVIOUS
    <2>2. Upgrading(d, n, "notes", "notes_legacy", "ix_notes_vault_note", 25, n, 20, 11)
      BY <1>1
    <2>3. Upgrading(e, n - 1, "notes", "notes_legacy", "ix_notes_vault_note", 25, n, 20, 11)
      BY <1>4, <2>1, <2>2, UpgradingIndexed, Zenon
    <2> QED  BY <2>3 DEF UpgradingNotes
  <1>7. UpgradingChunks(e, n - 1)
    <2>1. n \in 1..43 /\ n \notin {19, 15, 13, 12} /\ n # 28
      OBVIOUS
    <2> QED  BY <1>5, <1>1, <2>1, ChunksKept
  <1> QED  BY <1>1, <1>3, <1>4, <1>5, <1>6, <1>7 DEF UpFacts

\* The old rows are copied, as the default vault's.
LEMMA UpCopiedNotes ==
  ASSUME NEW d, Sound(d), NEW n, n = 20, UpFacts(d, n), NEW s, s = CopyAsDefault("notes", "notes_legacy"),
         Fits(d, s), NEW e, e = After(d, s)
  PROVE  Sound(e) /\ Carry(d, e) /\ UpFacts(e, n - 1)
  <1>1. /\ d.version = Revision1 /\ Has(d, "vaults")
        /\ Upgrading(d, n, "notes", "notes_legacy", "ix_notes_vault_note", 25, 22, 20, 11)
        /\ UpgradingChunks(d, n)
    BY DEF UpFacts, UpgradingNotes
  <1>2. HasKey(d, "notes", ScopedKey) /\ ~HasKey(d, "notes_legacy", ScopedKey)
    BY <1>1 DEF Upgrading
  <1>3. Has(d, "notes_legacy")
    BY DEF Fits, CopyAsDefault
  <1>4. /\ Sound(e) /\ Carry(d, e)
        /\ e.version = d.version /\ e.indexes = d.indexes
        /\ \A u : u # "notes" => SameTable(d, e, u)
        /\ HasKey(e, "notes", ScopedKey)
        /\ IdsIn(e, "notes_legacy") \subseteq IdsIn(e, "notes")
    BY <1>2, <1>3, CopyUp, Names
  <1>5. /\ SameTable(d, e, "notes_legacy") /\ SameTable(d, e, "vaults")
        /\ SameTable(d, e, "note_chunks") /\ SameTable(d, e, "note_chunks_legacy")
        /\ NoNewIndex(d, e, "ix_chunks_vault_note")
    BY <1>4 DEF NoNewIndex
  <1>6. UpgradingNotes(e, n - 1)
    <2>1. n \in 1..27 /\ 25 \in n + 1..27 /\ 22 \in n + 1..27 /\ 11 \in 1..n - 1
      OBVIOUS
    <2>2. Upgrading(d, n, "notes", "notes_legacy", "ix_notes_vault_note", 25, 22, n, 11)
      BY <1>1
    <2>3. Upgrading(e, n - 1, "notes", "notes_legacy", "ix_notes_vault_note", 25, 22, n, 11)
      BY <1>4, <2>1, <2>2, UpgradingCopied, Zenon
    <2> QED  BY <2>3 DEF UpgradingNotes
  <1>7. UpgradingChunks(e, n - 1)
    <2>1. n \in 1..43 /\ n \notin {19, 15, 13, 12} /\ n # 28
      OBVIOUS
    <2> QED  BY <1>5, <1>1, <2>1, ChunksKept
  <1>8. Has(e, "vaults")
    BY <1>1, <1>5 DEF SameTable
  <1> QED  BY <1>1, <1>4, <1>6, <1>7, <1>8 DEF UpFacts

\* The old table is dropped.
LEMMA UpDroppedNotes ==
  ASSUME NEW d, Sound(d), NEW n, n = 11, UpFacts(d, n), NEW s, s = DropTable("notes_legacy"),
         Fits(d, s), NEW e, e = After(d, s)
  PROVE  Sound(e) /\ Carry(d, e) /\ UpFacts(e, n - 1)
  <1>1. /\ d.version = Revision1 /\ Has(d, "vaults")
        /\ Upgrading(d, n, "notes", "notes_legacy", "ix_notes_vault_note", 25, 22, 20, 11)
        /\ UpgradingChunks(d, n)
    BY DEF UpFacts, UpgradingNotes
  <1>2. IdsIn(d, "notes_legacy") \subseteq IdsIn(d, "notes")
    BY <1>1 DEF Upgrading
  <1>3. OneFamily("notes_legacy", "notes")
    BY DEF OneFamily, NoteTables, ChunkTables
  <1>4. /\ Sound(e) /\ e.version = d.version /\ ~Has(e, "notes_legacy")
        /\ \A u : u # "notes_legacy" => SameTable(d, e, u)
        /\ \A i : NoNewIndex(d, e, i)
        /\ \A y \in Stages : OneFamily("notes_legacy", y) /\ "notes_legacy" # y
                              /\ IdsIn(d, "notes_legacy") \subseteq IdsIn(d, y) => Carry(d, e)
    BY <1>1, DropStage, Names
  <1>5. Carry(d, e)
    BY <1>2, <1>3, <1>4, Names
  <1>6. /\ SameTable(d, e, "notes") /\ SameTable(d, e, "vaults")
        /\ SameTable(d, e, "note_chunks") /\ SameTable(d, e, "note_chunks_legacy")
    BY <1>4
  <1>7. UpgradingNotes(e, n - 1)
    <2>1. n \in 1..27 /\ 25 \in n + 1..27 /\ 22 \in n + 1..27 /\ 20 \in n + 1..27
      OBVIOUS
    <2>2. Upgrading(d, n, "notes", "notes_legacy", "ix_notes_vault_note", 25, 22, 20, n)
      BY <1>1
    <2>3. Upgrading(e, n - 1, "notes", "notes_legacy", "ix_notes_vault_note", 25, 22, 20, n)
      BY <1>4, <1>6, <2>1, <2>2, UpgradingDropped, Zenon
    <2> QED  BY <2>3 DEF UpgradingNotes
  <1>8. UpgradingChunks(e, n - 1)
    <2>1. n \in 1..43 /\ n \notin {19, 15, 13, 12} /\ n # 28
      OBVIOUS
    <2> QED  BY <1>4, <1>6, <1>1, <2>1, ChunksKept
  <1>9. Has(e, "vaults")
    BY <1>1, <1>6 DEF SameTable
  <1> QED  BY <1>1, <1>4, <1>5, <1>7, <1>8, <1>9 DEF UpFacts

\* The table is made again.
LEMMA UpMadeChunks ==
  ASSUME NEW d, Sound(d), NEW n, n = 19, UpFacts(d, n), NEW s, s = CreateTable("note_chunks", ScopedKey, OfNote),
         Fits(d, s), NEW e, e = After(d, s)
  PROVE  Sound(e) /\ Carry(d, e) /\ UpFacts(e, n - 1)
  <1>1. /\ d.version = Revision1 /\ Has(d, "vaults")
        /\ Upgrading(d, n, "note_chunks", "note_chunks_legacy", "ix_chunks_vault_note", 19, 15, 13, 12)
        /\ UpgradingNotes(d, n)
    BY DEF UpFacts, UpgradingChunks
  <1>2. ~Has(d, "note_chunks")
    BY DEF Fits, CreateTable
  <1>3. Sound(e) /\ Carry(d, e)
    BY <1>1, <1>2, CreateStage
  <1>4. /\ e.version = d.version /\ e.indexes = d.indexes /\ HasKey(e, "note_chunks", ScopedKey)
        /\ \A u : u # "note_chunks" => SameTable(d, e, u)
    BY <1>2, CreateTableEffect DEF Sound
  <1>5. /\ SameTable(d, e, "note_chunks_legacy") /\ SameTable(d, e, "vaults")
        /\ SameTable(d, e, "notes") /\ SameTable(d, e, "notes_legacy")
        /\ NoNewIndex(d, e, "ix_notes_vault_note")
    BY <1>4 DEF NoNewIndex
  <1>6. UpgradingChunks(e, n - 1)
    <2>1. n \in 1..27 /\ 15 \in 1..n - 1 /\ 13 \in 1..15 - 1 /\ 12 \in 1..13 - 1
      OBVIOUS
    <2>2. Upgrading(d, n, "note_chunks", "note_chunks_legacy", "ix_chunks_vault_note", n, 15, 13, 12)
      BY <1>1
    <2>3. Upgrading(e, n - 1, "note_chunks", "note_chunks_legacy", "ix_chunks_vault_note", n, 15, 13, 12)
      BY <1>4, <1>5, <2>1, <2>2, UpgradingMade, Zenon
    <2> QED  BY <2>3 DEF UpgradingChunks
  <1>7. UpgradingNotes(e, n - 1)
    <2>1. n \in 1..43 /\ n \notin {25, 22, 20, 11} /\ n # 28
      OBVIOUS
    <2> QED  BY <1>5, <1>1, <2>1, NotesKept
  <1>8. Has(e, "vaults")
    BY <1>1, <1>5 DEF SameTable
  <1> QED  BY <1>1, <1>3, <1>4, <1>6, <1>7, <1>8 DEF UpFacts

\* Its index is made.
LEMMA UpIndexedChunks ==
  ASSUME NEW d, Sound(d), NEW n, n = 15, UpFacts(d, n), NEW s, s = CreateIndex("ix_chunks_vault_note", "note_chunks"),
         Fits(d, s), NEW e, e = After(d, s)
  PROVE  Sound(e) /\ Carry(d, e) /\ UpFacts(e, n - 1)
  <1>1. /\ d.version = Revision1 /\ Has(d, "vaults")
        /\ Upgrading(d, n, "note_chunks", "note_chunks_legacy", "ix_chunks_vault_note", 19, 15, 13, 12)
        /\ UpgradingNotes(d, n)
    BY DEF UpFacts, UpgradingChunks
  <1>2. HasKey(d, "note_chunks", ScopedKey)
    BY <1>1 DEF Upgrading
  <1>3. Sound(e) /\ Carry(d, e)
    BY <1>2, IndexStage
  <1>4. /\ e.version = d.version /\ e.tables = d.tables /\ e.indexes["ix_chunks_vault_note"] = "note_chunks"
        /\ \A j : j # "ix_chunks_vault_note" => NoNewIndex(d, e, j)
    BY CreateIndexEffect DEF Sound
  <1>5. /\ SameTable(d, e, "notes") /\ SameTable(d, e, "notes_legacy")
        /\ NoNewIndex(d, e, "ix_notes_vault_note") /\ Has(e, "vaults")
    BY <1>1, <1>4 DEF SameTable, Has
  <1>6. UpgradingChunks(e, n - 1)
    <2>1. n \in 1..27 /\ 19 \in n + 1..27 /\ 13 \in 1..n - 1 /\ 12 \in 1..13 - 1
      OBVIOUS
    <2>2. Upgrading(d, n, "note_chunks", "note_chunks_legacy", "ix_chunks_vault_note", 19, n, 13, 12)
      BY <1>1
    <2>3. Upgrading(e, n - 1, "note_chunks", "note_chunks_legacy", "ix_chunks_vault_note", 19, n, 13, 12)
      BY <1>4, <2>1, <2>2, UpgradingIndexed, Zenon
    <2> QED  BY <2>3 DEF UpgradingChunks
  <1>7. UpgradingNotes(e, n - 1)
    <2>1. n \in 1..43 /\ n \notin {25, 22, 20, 11} /\ n # 28
      OBVIOUS
    <2> QED  BY <1>5, <1>1, <2>1, NotesKept
  <1> QED  BY <1>1, <1>3, <1>4, <1>5, <1>6, <1>7 DEF UpFacts

\* The old rows are copied, as the default vault's.
LEMMA UpCopiedChunks ==
  ASSUME NEW d, Sound(d), NEW n, n = 13, UpFacts(d, n), NEW s, s = CopyAsDefault("note_chunks", "note_chunks_legacy"),
         Fits(d, s), NEW e, e = After(d, s)
  PROVE  Sound(e) /\ Carry(d, e) /\ UpFacts(e, n - 1)
  <1>1. /\ d.version = Revision1 /\ Has(d, "vaults")
        /\ Upgrading(d, n, "note_chunks", "note_chunks_legacy", "ix_chunks_vault_note", 19, 15, 13, 12)
        /\ UpgradingNotes(d, n)
    BY DEF UpFacts, UpgradingChunks
  <1>2. HasKey(d, "note_chunks", ScopedKey) /\ ~HasKey(d, "note_chunks_legacy", ScopedKey)
    BY <1>1 DEF Upgrading
  <1>3. Has(d, "note_chunks_legacy")
    BY DEF Fits, CopyAsDefault
  <1>4. /\ Sound(e) /\ Carry(d, e)
        /\ e.version = d.version /\ e.indexes = d.indexes
        /\ \A u : u # "note_chunks" => SameTable(d, e, u)
        /\ HasKey(e, "note_chunks", ScopedKey)
        /\ IdsIn(e, "note_chunks_legacy") \subseteq IdsIn(e, "note_chunks")
    BY <1>2, <1>3, CopyUp, Names
  <1>5. /\ SameTable(d, e, "note_chunks_legacy") /\ SameTable(d, e, "vaults")
        /\ SameTable(d, e, "notes") /\ SameTable(d, e, "notes_legacy")
        /\ NoNewIndex(d, e, "ix_notes_vault_note")
    BY <1>4 DEF NoNewIndex
  <1>6. UpgradingChunks(e, n - 1)
    <2>1. n \in 1..27 /\ 19 \in n + 1..27 /\ 15 \in n + 1..27 /\ 12 \in 1..n - 1
      OBVIOUS
    <2>2. Upgrading(d, n, "note_chunks", "note_chunks_legacy", "ix_chunks_vault_note", 19, 15, n, 12)
      BY <1>1
    <2>3. Upgrading(e, n - 1, "note_chunks", "note_chunks_legacy", "ix_chunks_vault_note", 19, 15, n, 12)
      BY <1>4, <2>1, <2>2, UpgradingCopied, Zenon
    <2> QED  BY <2>3 DEF UpgradingChunks
  <1>7. UpgradingNotes(e, n - 1)
    <2>1. n \in 1..43 /\ n \notin {25, 22, 20, 11} /\ n # 28
      OBVIOUS
    <2> QED  BY <1>5, <1>1, <2>1, NotesKept
  <1>8. Has(e, "vaults")
    BY <1>1, <1>5 DEF SameTable
  <1> QED  BY <1>1, <1>4, <1>6, <1>7, <1>8 DEF UpFacts

\* The old table is dropped.
LEMMA UpDroppedChunks ==
  ASSUME NEW d, Sound(d), NEW n, n = 12, UpFacts(d, n), NEW s, s = DropTable("note_chunks_legacy"),
         Fits(d, s), NEW e, e = After(d, s)
  PROVE  Sound(e) /\ Carry(d, e) /\ UpFacts(e, n - 1)
  <1>1. /\ d.version = Revision1 /\ Has(d, "vaults")
        /\ Upgrading(d, n, "note_chunks", "note_chunks_legacy", "ix_chunks_vault_note", 19, 15, 13, 12)
        /\ UpgradingNotes(d, n)
    BY DEF UpFacts, UpgradingChunks
  <1>2. IdsIn(d, "note_chunks_legacy") \subseteq IdsIn(d, "note_chunks")
    BY <1>1 DEF Upgrading
  <1>3. OneFamily("note_chunks_legacy", "note_chunks")
    BY DEF OneFamily, NoteTables, ChunkTables
  <1>4. /\ Sound(e) /\ e.version = d.version /\ ~Has(e, "note_chunks_legacy")
        /\ \A u : u # "note_chunks_legacy" => SameTable(d, e, u)
        /\ \A i : NoNewIndex(d, e, i)
        /\ \A y \in Stages : OneFamily("note_chunks_legacy", y) /\ "note_chunks_legacy" # y
                              /\ IdsIn(d, "note_chunks_legacy") \subseteq IdsIn(d, y) => Carry(d, e)
    BY <1>1, DropStage, Names
  <1>5. Carry(d, e)
    BY <1>2, <1>3, <1>4, Names
  <1>6. /\ SameTable(d, e, "note_chunks") /\ SameTable(d, e, "vaults")
        /\ SameTable(d, e, "notes") /\ SameTable(d, e, "notes_legacy")
    BY <1>4
  <1>7. UpgradingChunks(e, n - 1)
    <2>1. n \in 1..27 /\ 19 \in n + 1..27 /\ 15 \in n + 1..27 /\ 13 \in n + 1..27
      OBVIOUS
    <2>2. Upgrading(d, n, "note_chunks", "note_chunks_legacy", "ix_chunks_vault_note", 19, 15, 13, n)
      BY <1>1
    <2>3. Upgrading(e, n - 1, "note_chunks", "note_chunks_legacy", "ix_chunks_vault_note", 19, 15, 13, n)
      BY <1>4, <1>6, <2>1, <2>2, UpgradingDropped, Zenon
    <2> QED  BY <2>3 DEF UpgradingChunks
  <1>8. UpgradingNotes(e, n - 1)
    <2>1. n \in 1..43 /\ n \notin {25, 22, 20, 11} /\ n # 28
      OBVIOUS
    <2> QED  BY <1>4, <1>6, <1>1, <2>1, NotesKept
  <1>9. Has(e, "vaults")
    BY <1>1, <1>6 DEF SameTable
  <1> QED  BY <1>1, <1>4, <1>5, <1>7, <1>8, <1>9 DEF UpFacts

\* Before the tables of vaults are there, only the version is to keep.
LEMMA UpFactsEarly ==
  ASSUME NEW e, NEW n \in 29..43, e.version = IF n - 1 >= 36 THEN Base ELSE Revision1
  PROVE  UpFacts(e, n - 1)
  <1>1. UpgradingNotes(e, n - 1)
    BY DEF UpgradingNotes, Upgrading
  <1>2. UpgradingChunks(e, n - 1)
    BY DEF UpgradingChunks, Upgrading
  <1> QED  BY <1>1, <1>2 DEF UpFacts

LEMMA UpMinor ==
  ASSUME NEW d, Sound(d), NEW n \in 1..43, UpFacts(d, n),
         n \notin {11, 12, 13, 15, 19, 20, 22, 25, 36},
         NEW s, Minor(s), Fits(d, s), n = 28 => s = CreateTable("vaults", VaultKey, NoRefs),
         NEW e, e = After(d, s)
  PROVE  Sound(e) /\ Carry(d, e) /\ UpFacts(e, n - 1)
  <1>1. Alike(d, e)
    BY MinorAlike DEF Sound, Fits
  <1>2. Sound(e) /\ Carry(d, e)
    BY <1>1, AlikeSound, MinorCarries
  <1>3. ASSUME n = 28
        PROVE  Has(e, "vaults") /\ \A t \in Stages : ~HasKey(d, t, ScopedKey)
    <2>1. ~Has(d, "vaults")
      BY <1>3 DEF Fits, CreateTable
    <2>2. d.version = Revision1
      BY <1>3 DEF UpFacts
    <2>3. \A t \in Stages : ~HasKey(d, t, ScopedKey)
      BY <2>1, <2>2 DEF Sound, Behind, Revision1, Revision2
    <2>4. HasKey(e, "vaults", VaultKey)
      BY <1>3, <2>1, CreateTableEffect DEF Sound
    <2> QED  BY <2>3, <2>4 DEF HasKey
  <1>4. UpFacts(e, n - 1)
    BY <1>1, <1>3, UpFactsKept
  <1> QED  BY <1>2, <1>4

\* An upgrade statement keeps every row.
LEMMA UpStep ==
  ASSUME NEW d, Sound(d), NEW n \in 1..43, UpFacts(d, n), NEW s, s = FromEnd(Up, n),
         Fits(d, s), NEW e, e = After(d, s)
  PROVE  Sound(e) /\ Carry(d, e) /\ (n > 1 => UpFacts(e, n - 1))
  <1>v. d.version = IF n >= 36 THEN Base ELSE Revision1
    BY DEF UpFacts
  <1>r. Revision1 # Revision2 /\ Base # Revision2 /\ Base # Revision1
    BY DEF Base, Revision1, Revision2
  <1>1. CASE n = 1
    <2>1. s = Stamp(Revision2)
      BY <1>1, UpEnd
    <2>2. /\ ~Has(d, "notes_legacy") /\ ~Has(d, "note_chunks_legacy")
          /\ IndexOn(d, "ix_notes_vault_note", "notes")
          /\ IndexOn(d, "ix_chunks_vault_note", "note_chunks")
      BY <1>1 DEF UpFacts, UpgradingNotes, UpgradingChunks, Upgrading
    <2>3. Sound(e) /\ Carry(d, e)
      BY <2>1, <2>2, StampCarries
    <2> QED  BY <1>1, <2>3
  <1>2. CASE n = 11
    <2>1. s = DropTable("notes_legacy")
      BY <1>2, UpEnd
    <2> QED  BY <1>2, <2>1, UpDroppedNotes
  <1>3. CASE n = 12
    <2>1. s = DropTable("note_chunks_legacy")
      BY <1>3, UpEnd
    <2> QED  BY <1>3, <2>1, UpDroppedChunks
  <1>4. CASE n = 13
    <2>1. s = CopyAsDefault("note_chunks", "note_chunks_legacy")
      BY <1>4, UpEnd
    <2> QED  BY <1>4, <2>1, UpCopiedChunks
  <1>5. CASE n = 15
    <2>1. s = CreateIndex("ix_chunks_vault_note", "note_chunks")
      BY <1>5, UpEnd
    <2> QED  BY <1>5, <2>1, UpIndexedChunks
  <1>6. CASE n = 19
    <2>1. s = CreateTable("note_chunks", ScopedKey, OfNote)
      BY <1>6, UpEnd
    <2> QED  BY <1>6, <2>1, UpMadeChunks
  <1>7. CASE n = 20
    <2>1. s = CopyAsDefault("notes", "notes_legacy")
      BY <1>7, UpEnd
    <2> QED  BY <1>7, <2>1, UpCopiedNotes
  <1>8. CASE n = 22
    <2>1. s = CreateIndex("ix_notes_vault_note", "notes")
      BY <1>8, UpEnd
    <2> QED  BY <1>8, <2>1, UpIndexedNotes
  <1>9. CASE n = 25
    <2>1. s = CreateTable("notes", ScopedKey, InVault)
      BY <1>9, UpEnd
    <2> QED  BY <1>9, <2>1, UpMadeNotes
  <1>10. CASE n = 29
    <2>1. s = Rename("notes", "notes_legacy")
      BY <1>10, UpEnd
    <2>2. Has(d, "notes") /\ ~Has(d, "notes_legacy")
      BY <2>1 DEF Fits, Rename
    <2>3. OneFamily("notes", "notes_legacy")
      BY DEF OneFamily, NoteTables, ChunkTables
    <2>4. Sound(e) /\ Carry(d, e) /\ e.version = d.version
      BY <1>10, <1>v, <1>r, <2>1, <2>2, <2>3, RenameStage, Names
    <2> QED  BY <1>10, <1>v, <2>4, UpFactsEarly
  <1>11. CASE n = 30
    <2>1. s = Rename("note_chunks", "note_chunks_legacy")
      BY <1>11, UpEnd
    <2>2. Has(d, "note_chunks") /\ ~Has(d, "note_chunks_legacy")
      BY <2>1 DEF Fits, Rename
    <2>3. OneFamily("note_chunks", "note_chunks_legacy")
      BY DEF OneFamily, NoteTables, ChunkTables
    <2>4. Sound(e) /\ Carry(d, e) /\ e.version = d.version
      BY <1>11, <1>v, <1>r, <2>1, <2>2, <2>3, RenameStage, Names
    <2> QED  BY <1>11, <1>v, <2>4, UpFactsEarly
  <1>12. CASE n = 36
    <2>1. s = Stamp(Revision1)
      BY <1>12, UpEnd
    <2>2. d.version # Revision2
      BY <1>v, <1>r
    <2>3. Sound(e) /\ Carry(d, e) /\ e.version = Revision1
      BY <1>r, <2>1, <2>2, StampCarries
    <2> QED  BY <1>12, <2>3, UpFactsEarly
  <1>13. CASE n = 40
    <2>1. s = CreateTable("note_chunks", {"note"}, ChunkRefs)
      BY <1>13, UpEnd
    <2>2. ~Has(d, "note_chunks")
      BY <2>1 DEF Fits, CreateTable
    <2>3. Sound(e) /\ Carry(d, e)
      BY <2>1, <2>2, CreateStage, Keys
    <2>4. e.version = d.version
      BY <2>1, <2>2, CreateTableEffect DEF Sound
    <2> QED  BY <1>13, <1>v, <2>3, <2>4, UpFactsEarly
  <1>14. CASE n = 43
    <2>1. s = CreateTable("notes", {"note"}, NoRefs)
      BY <1>14, UpEnd
    <2>2. ~Has(d, "notes")
      BY <2>1 DEF Fits, CreateTable
    <2>3. Sound(e) /\ Carry(d, e)
      BY <2>1, <2>2, CreateStage, Keys
    <2>4. e.version = d.version
      BY <2>1, <2>2, CreateTableEffect DEF Sound
    <2> QED  BY <1>14, <1>v, <2>3, <2>4, UpFactsEarly
  <1>15. CASE n \notin {1, 11, 12, 13, 15, 19, 20, 22, 25, 29, 30, 36, 40, 43}
    <2>1. n \in (2..10) \cup {14} \cup (16..18) \cup {21, 23, 24} \cup (26..28) \cup (31..35)
               \cup (37..39) \cup {41, 42}
      BY <1>15
    <2>2. Minor(s)
      BY <2>1, UpEnd
    <2>3. n = 28 => s = CreateTable("vaults", VaultKey, NoRefs)
      BY UpEnd
    <2> QED  BY <1>15, <2>2, <2>3, UpMinor
  <1> QED  BY <1>1, <1>2, <1>3, <1>4, <1>5, <1>6, <1>7, <1>8, <1>9, <1>10, <1>11, <1>12,
              <1>13, <1>14, <1>15

-----------------------------------------------------------------------------
(* The downgrade of the second revision, n statements before its end. *)

\* The scoped table t is put aside as old, and made again as it was.
Downgrading(d, n, t, old, i, unindexed, renamed, made, copied, dropped) ==
  /\ n < unindexed => i \notin DOMAIN d.indexes
  /\ n \in renamed..unindexed - 1 => HasKey(d, t, ScopedKey)
  /\ n \in dropped..renamed - 1 => HasKey(d, old, ScopedKey)
  /\ n < made => HasKey(d, t, {"note"})
  /\ n \in dropped..copied - 1 => Defaults(IdsIn(d, old)) \subseteq IdsIn(d, t)
  /\ n < dropped => ~Has(d, old)

DowngradingNotes(d, n) ==
  Downgrading(d, n, "notes", "notes_scoped", "ix_notes_vault_note", 17, 14, 13, 10, 3)
DowngradingChunks(d, n) ==
  Downgrading(d, n, "note_chunks", "note_chunks_scoped", "ix_chunks_vault_note",
              21, 15, 9, 5, 4)
DownFacts(d, n) ==
  /\ d.version = Revision2
  /\ DowngradingNotes(d, n)
  /\ DowngradingChunks(d, n)

LEMMA DowngradingNotesKept ==
  ASSUME NEW d, NEW e, NEW n \in 1..33, DowngradingNotes(d, n),
         n \notin {17, 14, 13, 10, 3},
         SameTable(d, e, "notes"), SameTable(d, e, "notes_scoped"),
         "ix_notes_vault_note" \in DOMAIN e.indexes => "ix_notes_vault_note" \in DOMAIN d.indexes
  PROVE  DowngradingNotes(e, n - 1)
  <1> DEFINE t == "notes"
             old == "notes_scoped"
             i == "ix_notes_vault_note"
  <1>1. Downgrading(d, n, t, old, i, 17, 14, 13, 10, 3)
    BY DEF DowngradingNotes
  <1>2. SameTable(d, e, t) /\ SameTable(d, e, old)
        /\ (i \in DOMAIN e.indexes => i \in DOMAIN d.indexes)
    OBVIOUS
  <1> HIDE DEF t, old, i
  <1>3. /\ \A key : HasKey(e, t, key) <=> HasKey(d, t, key)
        /\ \A key : HasKey(e, old, key) <=> HasKey(d, old, key)
        /\ Has(e, old) <=> Has(d, old)
    BY <1>2, SameRows
  <1>4. IdsIn(e, t) = IdsIn(d, t) /\ IdsIn(e, old) = IdsIn(d, old)
    BY <1>2, SameIds
  <1>5. n - 1 < 17 => i \notin DOMAIN e.indexes
    BY <1>1, <1>2 DEF Downgrading
  <1>6. n - 1 \in 14..17 - 1 => HasKey(e, t, ScopedKey)
    BY <1>1, <1>3 DEF Downgrading
  <1>7. n - 1 \in 3..14 - 1 => HasKey(e, old, ScopedKey)
    BY <1>1, <1>3 DEF Downgrading
  <1>8. n - 1 < 13 => HasKey(e, t, {"note"})
    BY <1>1, <1>3 DEF Downgrading
  <1>9. n - 1 \in 3..10 - 1 => Defaults(IdsIn(e, old)) \subseteq IdsIn(e, t)
    BY <1>1, <1>4 DEF Downgrading
  <1>10. n - 1 < 3 => ~Has(e, old)
    BY <1>1, <1>3 DEF Downgrading
  <1>11. Downgrading(e, n - 1, t, old, i, 17, 14, 13, 10, 3)
    BY <1>5, <1>6, <1>7, <1>8, <1>9, <1>10 DEF Downgrading
  <1> QED  BY <1>11 DEF DowngradingNotes, t, old, i

LEMMA DowngradingChunksKept ==
  ASSUME NEW d, NEW e, NEW n \in 1..33, DowngradingChunks(d, n),
         n \notin {21, 15, 9, 5, 4},
         SameTable(d, e, "note_chunks"), SameTable(d, e, "note_chunks_scoped"),
         "ix_chunks_vault_note" \in DOMAIN e.indexes => "ix_chunks_vault_note" \in DOMAIN d.indexes
  PROVE  DowngradingChunks(e, n - 1)
  <1> DEFINE t == "note_chunks"
             old == "note_chunks_scoped"
             i == "ix_chunks_vault_note"
  <1>1. Downgrading(d, n, t, old, i, 21, 15, 9, 5, 4)
    BY DEF DowngradingChunks
  <1>2. SameTable(d, e, t) /\ SameTable(d, e, old)
        /\ (i \in DOMAIN e.indexes => i \in DOMAIN d.indexes)
    OBVIOUS
  <1> HIDE DEF t, old, i
  <1>3. /\ \A key : HasKey(e, t, key) <=> HasKey(d, t, key)
        /\ \A key : HasKey(e, old, key) <=> HasKey(d, old, key)
        /\ Has(e, old) <=> Has(d, old)
    BY <1>2, SameRows
  <1>4. IdsIn(e, t) = IdsIn(d, t) /\ IdsIn(e, old) = IdsIn(d, old)
    BY <1>2, SameIds
  <1>5. n - 1 < 21 => i \notin DOMAIN e.indexes
    BY <1>1, <1>2 DEF Downgrading
  <1>6. n - 1 \in 15..21 - 1 => HasKey(e, t, ScopedKey)
    BY <1>1, <1>3 DEF Downgrading
  <1>7. n - 1 \in 4..15 - 1 => HasKey(e, old, ScopedKey)
    BY <1>1, <1>3 DEF Downgrading
  <1>8. n - 1 < 9 => HasKey(e, t, {"note"})
    BY <1>1, <1>3 DEF Downgrading
  <1>9. n - 1 \in 4..5 - 1 => Defaults(IdsIn(e, old)) \subseteq IdsIn(e, t)
    BY <1>1, <1>4 DEF Downgrading
  <1>10. n - 1 < 4 => ~Has(e, old)
    BY <1>1, <1>3 DEF Downgrading
  <1>11. Downgrading(e, n - 1, t, old, i, 21, 15, 9, 5, 4)
    BY <1>5, <1>6, <1>7, <1>8, <1>9, <1>10 DEF Downgrading
  <1> QED  BY <1>11 DEF DowngradingChunks, t, old, i

\* The index is there, so the table is the scoped one.
LEMMA DownUnindexedNotes ==
  ASSUME NEW d, Sound(d), NEW n, n = 17, DownFacts(d, n), NEW s, s = DropIndex("ix_notes_vault_note"),
         Fits(d, s), NEW e, e = After(d, s)
  PROVE  Sound(e) /\ Carry(d, e) /\ DownFacts(e, n - 1)
  <1>1. /\ d.version = Revision2
        /\ Downgrading(d, n, "notes", "notes_scoped", "ix_notes_vault_note", 17, 14, 13, 10, 3)
        /\ DowngradingChunks(d, n)
    BY DEF DownFacts, DowngradingNotes
  <1>2. "ix_notes_vault_note" \in DOMAIN d.indexes
    BY DEF Fits, DropIndex
  <1>3. HasKey(d, "notes", ScopedKey)
    BY <1>1, <1>2 DEF Sound, AtHead, IndexOn
  <1>4. Alike(d, e)
    BY MinorKinds, MinorAlike DEF Sound, DropIndex
  <1>5. Sound(e) /\ Carry(d, e)
    BY <1>4, AlikeSound, MinorCarries
  <1>6. /\ e.version = d.version /\ e.tables = d.tables /\ "ix_notes_vault_note" \notin DOMAIN e.indexes
        /\ \A j : NoNewIndex(d, e, j)
    BY DropIndexEffect DEF Sound
  <1>7. HasKey(e, "notes", ScopedKey)
    BY <1>3, <1>6 DEF HasKey, Has
  <1>8. DowngradingNotes(e, n - 1)
    BY <1>6, <1>7 DEF DowngradingNotes, Downgrading
  <1>9. /\ SameTable(d, e, "note_chunks") /\ SameTable(d, e, "note_chunks_scoped")
        /\ ("ix_chunks_vault_note" \in DOMAIN e.indexes => "ix_chunks_vault_note" \in DOMAIN d.indexes)
    BY <1>6 DEF SameTable, Has, NoNewIndex
  <1>10. DowngradingChunks(e, n - 1)
    <2>1. n \in 1..33 /\ n \notin {21, 15, 9, 5, 4}
      OBVIOUS
    <2> QED  BY <1>9, <1>1, <2>1, DowngradingChunksKept
  <1> QED  BY <1>1, <1>5, <1>6, <1>8, <1>10 DEF DownFacts

\* The scoped table is put aside.
LEMMA DownPutAsideNotes ==
  ASSUME NEW d, Sound(d), NEW n, n = 14, DownFacts(d, n), NEW s, s = Rename("notes", "notes_scoped"),
         Fits(d, s), NEW e, e = After(d, s)
  PROVE  Sound(e) /\ Carry(d, e) /\ DownFacts(e, n - 1)
  <1>1. /\ d.version = Revision2
        /\ Downgrading(d, n, "notes", "notes_scoped", "ix_notes_vault_note", 17, 14, 13, 10, 3)
        /\ DowngradingChunks(d, n)
    BY DEF DownFacts, DowngradingNotes
  <1>2. Has(d, "notes") /\ ~Has(d, "notes_scoped")
    BY DEF Fits, Rename
  <1>3. OneFamily("notes", "notes_scoped")
    BY DEF OneFamily, NoteTables, ChunkTables
  <1>4. HasKey(d, "notes", ScopedKey) /\ "ix_notes_vault_note" \notin DOMAIN d.indexes
    BY <1>1 DEF Downgrading
  <1>5. "ix_chunks_vault_note" \notin DOMAIN d.indexes
    BY <1>1 DEF DowngradingChunks, Downgrading
  <1>6. \A i \in Watched : i \notin DOMAIN d.indexes
    BY <1>4, <1>5 DEF Watched
  <1>7. /\ Sound(e) /\ Carry(d, e)
        /\ e.version = d.version /\ DOMAIN e.indexes = DOMAIN d.indexes
        /\ \A u : u \notin {"notes", "notes_scoped"} => SameTable(d, e, u)
        /\ \A key : HasKey(e, "notes_scoped", key) <=> HasKey(d, "notes", key)
    BY <1>2, <1>3, <1>6, RenameStage, Names
  <1>8. HasKey(e, "notes_scoped", ScopedKey)
    BY <1>4, <1>7
  <1>9. DowngradingNotes(e, n - 1)
    BY <1>4, <1>7, <1>8 DEF DowngradingNotes, Downgrading
  <1>10. SameTable(d, e, "note_chunks") /\ SameTable(d, e, "note_chunks_scoped")
    BY <1>7
  <1>11. DowngradingChunks(e, n - 1)
    <2>1. n \in 1..33 /\ n \notin {21, 15, 9, 5, 4}
      OBVIOUS
    <2> QED  BY <1>7, <1>10, <1>1, <2>1, DowngradingChunksKept
  <1> QED  BY <1>1, <1>7, <1>9, <1>11 DEF DownFacts

\* The table of the first release is made.
LEMMA DownMadeNotes ==
  ASSUME NEW d, Sound(d), NEW n, n = 13, DownFacts(d, n), NEW s, s = CreateTable("notes", {"note"}, NoRefs),
         Fits(d, s), NEW e, e = After(d, s)
  PROVE  Sound(e) /\ Carry(d, e) /\ DownFacts(e, n - 1)
  <1>1. /\ d.version = Revision2
        /\ Downgrading(d, n, "notes", "notes_scoped", "ix_notes_vault_note", 17, 14, 13, 10, 3)
        /\ DowngradingChunks(d, n)
    BY DEF DownFacts, DowngradingNotes
  <1>2. ~Has(d, "notes")
    BY DEF Fits, CreateTable
  <1>3. Sound(e) /\ Carry(d, e)
    BY <1>2, CreateStage, Keys
  <1>4. /\ e.version = d.version /\ e.indexes = d.indexes /\ HasKey(e, "notes", {"note"})
        /\ \A u : u # "notes" => SameTable(d, e, u)
    BY <1>2, CreateTableEffect DEF Sound
  <1>5. /\ SameTable(d, e, "notes_scoped")
        /\ SameTable(d, e, "note_chunks") /\ SameTable(d, e, "note_chunks_scoped")
    BY <1>4
  <1>6. HasKey(d, "notes_scoped", ScopedKey) /\ "ix_notes_vault_note" \notin DOMAIN d.indexes
    BY <1>1 DEF Downgrading
  <1>7. HasKey(e, "notes_scoped", ScopedKey)
    BY <1>5, <1>6, SameRows
  <1>8. DowngradingNotes(e, n - 1)
    BY <1>4, <1>6, <1>7 DEF DowngradingNotes, Downgrading
  <1>9. DowngradingChunks(e, n - 1)
    <2>1. n \in 1..33 /\ n \notin {21, 15, 9, 5, 4}
      OBVIOUS
    <2> QED  BY <1>4, <1>5, <1>1, <2>1, DowngradingChunksKept
  <1> QED  BY <1>1, <1>3, <1>4, <1>8, <1>9 DEF DownFacts

\* The rows of the default vault are copied back.
LEMMA DownCopiedNotes ==
  ASSUME NEW d, Sound(d), NEW n, n = 10, DownFacts(d, n), NEW s, s = CopyOfDefault("notes", "notes_scoped"),
         Fits(d, s), NEW e, e = After(d, s)
  PROVE  Sound(e) /\ Carry(d, e) /\ DownFacts(e, n - 1)
  <1>1. /\ d.version = Revision2
        /\ Downgrading(d, n, "notes", "notes_scoped", "ix_notes_vault_note", 17, 14, 13, 10, 3)
        /\ DowngradingChunks(d, n)
    BY DEF DownFacts, DowngradingNotes
  <1>2. HasKey(d, "notes", {"note"}) /\ HasKey(d, "notes_scoped", ScopedKey)
        /\ "ix_notes_vault_note" \notin DOMAIN d.indexes
    BY <1>1 DEF Downgrading
  <1>3. /\ Sound(e) /\ Carry(d, e)
        /\ e.version = d.version /\ e.indexes = d.indexes
        /\ \A u : u # "notes" => SameTable(d, e, u)
        /\ HasKey(e, "notes", {"note"})
        /\ Defaults(IdsIn(e, "notes_scoped")) \subseteq IdsIn(e, "notes")
    BY <1>2, CopyDown, Names
  <1>4. /\ SameTable(d, e, "notes_scoped")
        /\ SameTable(d, e, "note_chunks") /\ SameTable(d, e, "note_chunks_scoped")
    BY <1>3
  <1>5. HasKey(e, "notes_scoped", ScopedKey)
    BY <1>2, <1>4, SameRows
  <1>6. DowngradingNotes(e, n - 1)
    BY <1>2, <1>3, <1>5 DEF DowngradingNotes, Downgrading
  <1>7. DowngradingChunks(e, n - 1)
    <2>1. n \in 1..33 /\ n \notin {21, 15, 9, 5, 4}
      OBVIOUS
    <2> QED  BY <1>3, <1>4, <1>1, <2>1, DowngradingChunksKept
  <1> QED  BY <1>1, <1>3, <1>6, <1>7 DEF DownFacts

\* What was put aside is dropped, with the rows of the other vaults.
LEMMA DownDroppedNotes ==
  ASSUME NEW d, Sound(d), NEW n, n = 3, DownFacts(d, n), NEW s, s = DropTable("notes_scoped"),
         Fits(d, s), NEW e, e = After(d, s)
  PROVE  Sound(e) /\ CarryDefaults(d, e) /\ DownFacts(e, n - 1)
  <1>1. /\ d.version = Revision2
        /\ Downgrading(d, n, "notes", "notes_scoped", "ix_notes_vault_note", 17, 14, 13, 10, 3)
        /\ DowngradingChunks(d, n)
    BY DEF DownFacts, DowngradingNotes
  <1>2. /\ Defaults(IdsIn(d, "notes_scoped")) \subseteq IdsIn(d, "notes")
        /\ HasKey(d, "notes", {"note"}) /\ "ix_notes_vault_note" \notin DOMAIN d.indexes
    BY <1>1 DEF Downgrading
  <1>3. OneFamily("notes_scoped", "notes")
    BY DEF OneFamily, NoteTables, ChunkTables
  <1>4. /\ Sound(e) /\ e.version = d.version /\ ~Has(e, "notes_scoped")
        /\ \A u : u # "notes_scoped" => SameTable(d, e, u)
        /\ \A i : NoNewIndex(d, e, i)
        /\ \A y \in Stages : OneFamily("notes_scoped", y) /\ "notes_scoped" # y
              /\ Defaults(IdsIn(d, "notes_scoped")) \subseteq IdsIn(d, y) => CarryDefaults(d, e)
    BY DropStage, Names
  <1>5. CarryDefaults(d, e)
    BY <1>2, <1>3, <1>4, Names
  <1>6. /\ SameTable(d, e, "notes")
        /\ SameTable(d, e, "note_chunks") /\ SameTable(d, e, "note_chunks_scoped")
        /\ \A i : i \in DOMAIN e.indexes => i \in DOMAIN d.indexes
    BY <1>4 DEF NoNewIndex
  <1>7. HasKey(e, "notes", {"note"})
    BY <1>2, <1>6, SameRows
  <1>8. DowngradingNotes(e, n - 1)
    BY <1>2, <1>4, <1>6, <1>7 DEF DowngradingNotes, Downgrading
  <1>9. DowngradingChunks(e, n - 1)
    <2>1. n \in 1..33 /\ n \notin {21, 15, 9, 5, 4}
      OBVIOUS
    <2> QED  BY <1>6, <1>1, <2>1, DowngradingChunksKept
  <1> QED  BY <1>1, <1>4, <1>5, <1>8, <1>9 DEF DownFacts

\* The index is there, so the table is the scoped one.
LEMMA DownUnindexedChunks ==
  ASSUME NEW d, Sound(d), NEW n, n = 21, DownFacts(d, n), NEW s, s = DropIndex("ix_chunks_vault_note"),
         Fits(d, s), NEW e, e = After(d, s)
  PROVE  Sound(e) /\ Carry(d, e) /\ DownFacts(e, n - 1)
  <1>1. /\ d.version = Revision2
        /\ Downgrading(d, n, "note_chunks", "note_chunks_scoped", "ix_chunks_vault_note", 21, 15, 9, 5, 4)
        /\ DowngradingNotes(d, n)
    BY DEF DownFacts, DowngradingChunks
  <1>2. "ix_chunks_vault_note" \in DOMAIN d.indexes
    BY DEF Fits, DropIndex
  <1>3. HasKey(d, "note_chunks", ScopedKey)
    BY <1>1, <1>2 DEF Sound, AtHead, IndexOn
  <1>4. Alike(d, e)
    BY MinorKinds, MinorAlike DEF Sound, DropIndex
  <1>5. Sound(e) /\ Carry(d, e)
    BY <1>4, AlikeSound, MinorCarries
  <1>6. /\ e.version = d.version /\ e.tables = d.tables /\ "ix_chunks_vault_note" \notin DOMAIN e.indexes
        /\ \A j : NoNewIndex(d, e, j)
    BY DropIndexEffect DEF Sound
  <1>7. HasKey(e, "note_chunks", ScopedKey)
    BY <1>3, <1>6 DEF HasKey, Has
  <1>8. DowngradingChunks(e, n - 1)
    BY <1>6, <1>7 DEF DowngradingChunks, Downgrading
  <1>9. /\ SameTable(d, e, "notes") /\ SameTable(d, e, "notes_scoped")
        /\ ("ix_notes_vault_note" \in DOMAIN e.indexes => "ix_notes_vault_note" \in DOMAIN d.indexes)
    BY <1>6 DEF SameTable, Has, NoNewIndex
  <1>10. DowngradingNotes(e, n - 1)
    <2>1. n \in 1..33 /\ n \notin {17, 14, 13, 10, 3}
      OBVIOUS
    <2> QED  BY <1>9, <1>1, <2>1, DowngradingNotesKept
  <1> QED  BY <1>1, <1>5, <1>6, <1>8, <1>10 DEF DownFacts

\* The scoped table is put aside.
LEMMA DownPutAsideChunks ==
  ASSUME NEW d, Sound(d), NEW n, n = 15, DownFacts(d, n), NEW s, s = Rename("note_chunks", "note_chunks_scoped"),
         Fits(d, s), NEW e, e = After(d, s)
  PROVE  Sound(e) /\ Carry(d, e) /\ DownFacts(e, n - 1)
  <1>1. /\ d.version = Revision2
        /\ Downgrading(d, n, "note_chunks", "note_chunks_scoped", "ix_chunks_vault_note", 21, 15, 9, 5, 4)
        /\ DowngradingNotes(d, n)
    BY DEF DownFacts, DowngradingChunks
  <1>2. Has(d, "note_chunks") /\ ~Has(d, "note_chunks_scoped")
    BY DEF Fits, Rename
  <1>3. OneFamily("note_chunks", "note_chunks_scoped")
    BY DEF OneFamily, NoteTables, ChunkTables
  <1>4. HasKey(d, "note_chunks", ScopedKey) /\ "ix_chunks_vault_note" \notin DOMAIN d.indexes
    BY <1>1 DEF Downgrading
  <1>5. "ix_notes_vault_note" \notin DOMAIN d.indexes
    BY <1>1 DEF DowngradingNotes, Downgrading
  <1>6. \A i \in Watched : i \notin DOMAIN d.indexes
    BY <1>4, <1>5 DEF Watched
  <1>7. /\ Sound(e) /\ Carry(d, e)
        /\ e.version = d.version /\ DOMAIN e.indexes = DOMAIN d.indexes
        /\ \A u : u \notin {"note_chunks", "note_chunks_scoped"} => SameTable(d, e, u)
        /\ \A key : HasKey(e, "note_chunks_scoped", key) <=> HasKey(d, "note_chunks", key)
    BY <1>2, <1>3, <1>6, RenameStage, Names
  <1>8. HasKey(e, "note_chunks_scoped", ScopedKey)
    BY <1>4, <1>7
  <1>9. DowngradingChunks(e, n - 1)
    BY <1>4, <1>7, <1>8 DEF DowngradingChunks, Downgrading
  <1>10. SameTable(d, e, "notes") /\ SameTable(d, e, "notes_scoped")
    BY <1>7
  <1>11. DowngradingNotes(e, n - 1)
    <2>1. n \in 1..33 /\ n \notin {17, 14, 13, 10, 3}
      OBVIOUS
    <2> QED  BY <1>7, <1>10, <1>1, <2>1, DowngradingNotesKept
  <1> QED  BY <1>1, <1>7, <1>9, <1>11 DEF DownFacts

\* The table of the first release is made.
LEMMA DownMadeChunks ==
  ASSUME NEW d, Sound(d), NEW n, n = 9, DownFacts(d, n), NEW s, s = CreateTable("note_chunks", {"note"}, ChunkRefs),
         Fits(d, s), NEW e, e = After(d, s)
  PROVE  Sound(e) /\ Carry(d, e) /\ DownFacts(e, n - 1)
  <1>1. /\ d.version = Revision2
        /\ Downgrading(d, n, "note_chunks", "note_chunks_scoped", "ix_chunks_vault_note", 21, 15, 9, 5, 4)
        /\ DowngradingNotes(d, n)
    BY DEF DownFacts, DowngradingChunks
  <1>2. ~Has(d, "note_chunks")
    BY DEF Fits, CreateTable
  <1>3. Sound(e) /\ Carry(d, e)
    BY <1>2, CreateStage, Keys
  <1>4. /\ e.version = d.version /\ e.indexes = d.indexes /\ HasKey(e, "note_chunks", {"note"})
        /\ \A u : u # "note_chunks" => SameTable(d, e, u)
    BY <1>2, CreateTableEffect DEF Sound
  <1>5. /\ SameTable(d, e, "note_chunks_scoped")
        /\ SameTable(d, e, "notes") /\ SameTable(d, e, "notes_scoped")
    BY <1>4
  <1>6. HasKey(d, "note_chunks_scoped", ScopedKey) /\ "ix_chunks_vault_note" \notin DOMAIN d.indexes
    BY <1>1 DEF Downgrading
  <1>7. HasKey(e, "note_chunks_scoped", ScopedKey)
    BY <1>5, <1>6, SameRows
  <1>8. DowngradingChunks(e, n - 1)
    BY <1>4, <1>6, <1>7 DEF DowngradingChunks, Downgrading
  <1>9. DowngradingNotes(e, n - 1)
    <2>1. n \in 1..33 /\ n \notin {17, 14, 13, 10, 3}
      OBVIOUS
    <2> QED  BY <1>4, <1>5, <1>1, <2>1, DowngradingNotesKept
  <1> QED  BY <1>1, <1>3, <1>4, <1>8, <1>9 DEF DownFacts

\* The rows of the default vault are copied back.
LEMMA DownCopiedChunks ==
  ASSUME NEW d, Sound(d), NEW n, n = 5, DownFacts(d, n), NEW s, s = CopyOfDefault("note_chunks", "note_chunks_scoped"),
         Fits(d, s), NEW e, e = After(d, s)
  PROVE  Sound(e) /\ Carry(d, e) /\ DownFacts(e, n - 1)
  <1>1. /\ d.version = Revision2
        /\ Downgrading(d, n, "note_chunks", "note_chunks_scoped", "ix_chunks_vault_note", 21, 15, 9, 5, 4)
        /\ DowngradingNotes(d, n)
    BY DEF DownFacts, DowngradingChunks
  <1>2. HasKey(d, "note_chunks", {"note"}) /\ HasKey(d, "note_chunks_scoped", ScopedKey)
        /\ "ix_chunks_vault_note" \notin DOMAIN d.indexes
    BY <1>1 DEF Downgrading
  <1>3. /\ Sound(e) /\ Carry(d, e)
        /\ e.version = d.version /\ e.indexes = d.indexes
        /\ \A u : u # "note_chunks" => SameTable(d, e, u)
        /\ HasKey(e, "note_chunks", {"note"})
        /\ Defaults(IdsIn(e, "note_chunks_scoped")) \subseteq IdsIn(e, "note_chunks")
    BY <1>2, CopyDown, Names
  <1>4. /\ SameTable(d, e, "note_chunks_scoped")
        /\ SameTable(d, e, "notes") /\ SameTable(d, e, "notes_scoped")
    BY <1>3
  <1>5. HasKey(e, "note_chunks_scoped", ScopedKey)
    BY <1>2, <1>4, SameRows
  <1>6. DowngradingChunks(e, n - 1)
    BY <1>2, <1>3, <1>5 DEF DowngradingChunks, Downgrading
  <1>7. DowngradingNotes(e, n - 1)
    <2>1. n \in 1..33 /\ n \notin {17, 14, 13, 10, 3}
      OBVIOUS
    <2> QED  BY <1>3, <1>4, <1>1, <2>1, DowngradingNotesKept
  <1> QED  BY <1>1, <1>3, <1>6, <1>7 DEF DownFacts

\* What was put aside is dropped, with the rows of the other vaults.
LEMMA DownDroppedChunks ==
  ASSUME NEW d, Sound(d), NEW n, n = 4, DownFacts(d, n), NEW s, s = DropTable("note_chunks_scoped"),
         Fits(d, s), NEW e, e = After(d, s)
  PROVE  Sound(e) /\ CarryDefaults(d, e) /\ DownFacts(e, n - 1)
  <1>1. /\ d.version = Revision2
        /\ Downgrading(d, n, "note_chunks", "note_chunks_scoped", "ix_chunks_vault_note", 21, 15, 9, 5, 4)
        /\ DowngradingNotes(d, n)
    BY DEF DownFacts, DowngradingChunks
  <1>2. /\ Defaults(IdsIn(d, "note_chunks_scoped")) \subseteq IdsIn(d, "note_chunks")
        /\ HasKey(d, "note_chunks", {"note"}) /\ "ix_chunks_vault_note" \notin DOMAIN d.indexes
    BY <1>1 DEF Downgrading
  <1>3. OneFamily("note_chunks_scoped", "note_chunks")
    BY DEF OneFamily, NoteTables, ChunkTables
  <1>4. /\ Sound(e) /\ e.version = d.version /\ ~Has(e, "note_chunks_scoped")
        /\ \A u : u # "note_chunks_scoped" => SameTable(d, e, u)
        /\ \A i : NoNewIndex(d, e, i)
        /\ \A y \in Stages : OneFamily("note_chunks_scoped", y) /\ "note_chunks_scoped" # y
              /\ Defaults(IdsIn(d, "note_chunks_scoped")) \subseteq IdsIn(d, y) => CarryDefaults(d, e)
    BY DropStage, Names
  <1>5. CarryDefaults(d, e)
    BY <1>2, <1>3, <1>4, Names
  <1>6. /\ SameTable(d, e, "note_chunks")
        /\ SameTable(d, e, "notes") /\ SameTable(d, e, "notes_scoped")
        /\ \A i : i \in DOMAIN e.indexes => i \in DOMAIN d.indexes
    BY <1>4 DEF NoNewIndex
  <1>7. HasKey(e, "note_chunks", {"note"})
    BY <1>2, <1>6, SameRows
  <1>8. DowngradingChunks(e, n - 1)
    BY <1>2, <1>4, <1>6, <1>7 DEF DowngradingChunks, Downgrading
  <1>9. DowngradingNotes(e, n - 1)
    <2>1. n \in 1..33 /\ n \notin {17, 14, 13, 10, 3}
      OBVIOUS
    <2> QED  BY <1>6, <1>1, <2>1, DowngradingNotesKept
  <1> QED  BY <1>1, <1>4, <1>5, <1>8, <1>9 DEF DownFacts
LEMMA DownMinor ==
  ASSUME NEW d, Sound(d), NEW n \in 1..33, DownFacts(d, n),
         n \notin {3, 4, 5, 9, 10, 13, 14, 15, 17, 21}, NEW s, Minor(s), Fits(d, s),
         NEW e, e = After(d, s)
  PROVE  Sound(e) /\ Carry(d, e) /\ DownFacts(e, n - 1)
  <1>1. Alike(d, e)
    BY MinorAlike DEF Sound, Fits
  <1>2. Sound(e) /\ Carry(d, e)
    BY <1>1, AlikeSound, MinorCarries
  <1>3. /\ SameTable(d, e, "notes") /\ SameTable(d, e, "notes_scoped")
        /\ SameTable(d, e, "note_chunks") /\ SameTable(d, e, "note_chunks_scoped")
        /\ NoNewIndex(d, e, "ix_notes_vault_note") /\ NoNewIndex(d, e, "ix_chunks_vault_note")
        /\ e.version = d.version
    BY <1>1, Names DEF Alike, Watched
  <1>4. DowngradingNotes(e, n - 1)
    BY <1>3, DowngradingNotesKept DEF DownFacts, NoNewIndex
  <1>5. DowngradingChunks(e, n - 1)
    BY <1>3, DowngradingChunksKept DEF DownFacts, NoNewIndex
  <1> QED  BY <1>2, <1>3, <1>4, <1>5 DEF DownFacts

\* A statement of the downgrade keeps the rows of the default vault; until the notes
\* are copied it keeps every row.
LEMMA DownStep ==
  ASSUME NEW d, Sound(d), NEW n \in 1..33, DownFacts(d, n), NEW s, s = FromEnd(Down, n),
         Fits(d, s), NEW e, e = After(d, s)
  PROVE  /\ Sound(e) /\ CarryDefaults(d, e) /\ (n >= 10 => Carry(d, e))
         /\ n > 1 => DownFacts(e, n - 1)
         /\ n = 1 => e.version = Revision1
  <1>r. Revision1 # Revision2
    BY DEF Revision1, Revision2
  <1>1. CASE n = 1
    <2>1. s = Stamp(Revision1)
      BY <1>1, DownEnd
    <2>2. /\ d.version = Revision2
          /\ HasKey(d, "notes", {"note"}) /\ ~Has(d, "notes_scoped")
          /\ HasKey(d, "note_chunks", {"note"}) /\ ~Has(d, "note_chunks_scoped")
      BY <1>1 DEF DownFacts, DowngradingNotes, DowngradingChunks, Downgrading
    <2>3. ~Has(d, "notes_legacy") /\ ~Has(d, "note_chunks_legacy")
      BY <2>2 DEF Sound, AtHead
    <2>4. \A t \in Stages : ~HasKey(d, t, ScopedKey)
      BY <2>2, <2>3, Keys DEF HasKey, Stages, NoteTables, ChunkTables
    <2>5. Sound(e) /\ Carry(d, e) /\ e.version = Revision1
      BY <1>r, <2>1, <2>4, StampCarries
    <2> QED  BY <1>1, <2>5, CarryIsEnough
  <1>2. CASE n = 2
    <2>1. s = DropTable("vaults")
      BY <1>2, DownEnd
    <2>2. /\ Sound(e) /\ Carry(d, e) /\ e.version = d.version
          /\ \A u \in Stages : SameTable(d, e, u)
          /\ \A i : NoNewIndex(d, e, i)
      BY <2>1, DropVaults DEF DownFacts
    <2>3. /\ SameTable(d, e, "notes") /\ SameTable(d, e, "notes_scoped")
          /\ SameTable(d, e, "note_chunks") /\ SameTable(d, e, "note_chunks_scoped")
          /\ \A i : i \in DOMAIN e.indexes => i \in DOMAIN d.indexes
      BY <2>2, Names DEF NoNewIndex
    <2>4. DowngradingNotes(e, n - 1)
      BY <1>2, <2>3, DowngradingNotesKept DEF DownFacts
    <2>5. DowngradingChunks(e, n - 1)
      BY <1>2, <2>3, DowngradingChunksKept DEF DownFacts
    <2> QED  BY <1>2, <2>2, <2>4, <2>5, CarryIsEnough DEF DownFacts
  <1>3. CASE n = 3
    <2>1. s = DropTable("notes_scoped")
      BY <1>3, DownEnd
    <2> QED  BY <1>3, <2>1, DownDroppedNotes, CarryIsEnough
  <1>4. CASE n = 4
    <2>1. s = DropTable("note_chunks_scoped")
      BY <1>4, DownEnd
    <2> QED  BY <1>4, <2>1, DownDroppedChunks, CarryIsEnough
  <1>5. CASE n = 5
    <2>1. s = CopyOfDefault("note_chunks", "note_chunks_scoped")
      BY <1>5, DownEnd
    <2> QED  BY <1>5, <2>1, DownCopiedChunks, CarryIsEnough
  <1>6. CASE n = 9
    <2>1. s = CreateTable("note_chunks", {"note"}, ChunkRefs)
      BY <1>6, DownEnd
    <2> QED  BY <1>6, <2>1, DownMadeChunks, CarryIsEnough
  <1>7. CASE n = 10
    <2>1. s = CopyOfDefault("notes", "notes_scoped")
      BY <1>7, DownEnd
    <2> QED  BY <1>7, <2>1, DownCopiedNotes, CarryIsEnough
  <1>8. CASE n = 13
    <2>1. s = CreateTable("notes", {"note"}, NoRefs)
      BY <1>8, DownEnd
    <2> QED  BY <1>8, <2>1, DownMadeNotes, CarryIsEnough
  <1>9. CASE n = 14
    <2>1. s = Rename("notes", "notes_scoped")
      BY <1>9, DownEnd
    <2> QED  BY <1>9, <2>1, DownPutAsideNotes, CarryIsEnough
  <1>10. CASE n = 15
    <2>1. s = Rename("note_chunks", "note_chunks_scoped")
      BY <1>10, DownEnd
    <2> QED  BY <1>10, <2>1, DownPutAsideChunks, CarryIsEnough
  <1>11. CASE n = 17
    <2>1. s = DropIndex("ix_notes_vault_note")
      BY <1>11, DownEnd
    <2> QED  BY <1>11, <2>1, DownUnindexedNotes, CarryIsEnough
  <1>12. CASE n = 21
    <2>1. s = DropIndex("ix_chunks_vault_note")
      BY <1>12, DownEnd
    <2> QED  BY <1>12, <2>1, DownUnindexedChunks, CarryIsEnough
  <1>13. CASE n \notin {1, 2, 3, 4, 5, 9, 10, 13, 14, 15, 17, 21}
    <2>1. n \in (6..8) \cup (18..20) \cup (22..33) \cup {11, 12, 16}
      BY <1>13
    <2>2. Minor(s)
      BY <2>1, DownEnd
    <2> QED  BY <1>13, <2>2, DownMinor, CarryIsEnough
  <1> QED  BY <1>1, <1>2, <1>3, <1>4, <1>5, <1>6, <1>7,
              <1>8, <1>9, <1>10, <1>11, <1>12, <1>13

-----------------------------------------------------------------------------
(* Which statements write rows, and which end a revision. *)

LEMMA MinorOps ==
  ASSUME NEW s, Minor(s)
  PROVE  s.op # "stamp"
  BY DEF Minor, CreateTable, CreateIndex, DropIndex, DropTable, Insert

LEMMA NoStamp ==
  /\ \A t : DropTable(t).op # "stamp"
  /\ \A t, key, refs : CreateTable(t, key, refs).op # "stamp"
  /\ \A i, t : CreateIndex(i, t).op # "stamp"
  /\ \A t, from : CopyAsDefault(t, from).op # "stamp"
  /\ \A t, from : CopyOfDefault(t, from).op # "stamp"
  BY DEF DropTable, CreateTable, CreateIndex, CopyAsDefault, CopyOfDefault

LEMMA UpOps ==
  /\ \A n \in 2..25 : FromEnd(Up, n).op # "stamp"
  /\ FromEnd(Up, 26).op = "insert"
  <1> SUFFICES ASSUME NEW n \in 2..25
               PROVE  FromEnd(Up, n).op # "stamp"
    BY UpEnd DEF Insert
  <1>1. CASE n \in {11, 12, 13, 15, 19, 20, 22, 25}
    <2>1. /\ FromEnd(Up, 11).op # "stamp" /\ FromEnd(Up, 12).op # "stamp"
          /\ FromEnd(Up, 13).op # "stamp" /\ FromEnd(Up, 15).op # "stamp"
      BY UpEnd, NoStamp
    <2>2. /\ FromEnd(Up, 19).op # "stamp" /\ FromEnd(Up, 20).op # "stamp"
          /\ FromEnd(Up, 22).op # "stamp" /\ FromEnd(Up, 25).op # "stamp"
      BY UpEnd, NoStamp
    <2> QED  BY <1>1, <2>1, <2>2
  <1>2. CASE n \notin {11, 12, 13, 15, 19, 20, 22, 25}
    <2>1. n \in (2..10) \cup {14} \cup (16..18) \cup {21, 23, 24}
      BY <1>2
    <2> QED  BY <2>1, UpEnd, MinorOps
  <1> QED  BY <1>1, <1>2

LEMMA DownOps ==
  /\ \A n \in 2..33 : FromEnd(Down, n).op # "stamp"
  /\ FromEnd(Down, 10).op = "copy_of_default"
  <1> SUFFICES ASSUME NEW n \in 2..33
               PROVE  FromEnd(Down, n).op # "stamp"
    BY DownEnd DEF CopyOfDefault
  <1>1. CASE n \in {2, 3, 4, 5, 9, 10, 13}
    BY <1>1, DownEnd, NoStamp
  <1>2. CASE n \in {14, 15}
    <2>1. \A t, new : Rename(t, new).op # "stamp"
      BY DEF Rename
    <2> QED  BY <1>2, <2>1, DownEnd
  <1>3. CASE n \in {17, 21}
    <2>1. \A i : DropIndex(i).op # "stamp"
      BY DEF DropIndex
    <2> QED  BY <1>3, <2>1, DownEnd
  <1>4. CASE n \in (6..8) \cup (18..20) \cup (22..33) \cup {11, 12, 16}
    BY <1>4, DownEnd, MinorOps
  <1> QED  BY <1>1, <1>2, <1>3, <1>4

-----------------------------------------------------------------------------
(* create_all, with the statements p left. *)

MakeVaults == CreateTable("vaults", VaultKey, NoRefs)
MakeFacts(d, p) ==
  /\ \A j \in 1..Len(p) : Creation(p[j])
  /\ \A j \in 2..Len(p) : /\ p[j] = IndexNotes => p[j - 1] = MakeNotes
                          /\ p[j] = IndexChunks => p[j - 1] = MakeChunks
  /\ p[1] = IndexNotes => HasKey(d, "notes", ScopedKey)
  /\ p[1] = IndexChunks => HasKey(d, "note_chunks", ScopedKey)
  /\ Has(d, "vaults") \/ p[1] = MakeVaults

LEMMA MakersDiffer ==
  /\ MakeNotes # MakeChunks /\ MakeNotes # IndexNotes /\ MakeNotes # IndexChunks
  /\ MakeChunks # IndexNotes /\ MakeChunks # IndexChunks /\ IndexNotes # IndexChunks
  /\ MakeVaults \notin {MakeNotes, MakeChunks, IndexNotes, IndexChunks}
  /\ \A s : Minor(s) => s \notin {MakeNotes, MakeChunks, IndexNotes, IndexChunks}
  <1>1. /\ MakeVaults.op = "create_table" /\ MakeVaults.name = "vaults"
        /\ MakeNotes.op = "create_table" /\ MakeNotes.name = "notes"
        /\ MakeChunks.op = "create_table" /\ MakeChunks.name = "note_chunks"
        /\ IndexNotes.op = "create_index" /\ IndexNotes.name = "ix_notes_vault_note"
        /\ IndexChunks.op = "create_index" /\ IndexChunks.name = "ix_chunks_vault_note"
    BY DEF MakeVaults, MakeNotes, MakeChunks, IndexNotes, IndexChunks, CreateTable, CreateIndex
  <1>2. ASSUME NEW s, Minor(s)
        PROVE  /\ s.op = "create_table" => s.name \notin Stages
               /\ s.op = "create_index" => s.name \notin Watched
    BY <1>2 DEF Minor, CreateTable, CreateIndex, DropIndex, DropTable, Insert
  <1>3. \A s : Minor(s) => s \notin {MakeNotes, MakeChunks, IndexNotes, IndexChunks}
    BY <1>1, <1>2, Names DEF Watched
  <1> QED  BY <1>1, <1>3

LEMMA TailOf ==
  ASSUME NEW S, NEW p \in Seq(S), Len(p) > 0
  PROVE  /\ Tail(p) \in Seq(S) /\ Len(Tail(p)) = Len(p) - 1
         /\ Head(p) = p[1] /\ Len(p) \in Nat /\ p[1] \in S
         /\ \A j \in 1..Len(p) - 1 : Tail(p)[j] = p[j + 1]
  OBVIOUS

LEMMA TailFacts ==
  ASSUME NEW d, NEW e, NEW p \in Seq(Statement), Len(p) > 1, MakeFacts(d, p), Has(e, "vaults"),
         p[1] = MakeNotes => HasKey(e, "notes", ScopedKey),
         p[1] = MakeChunks => HasKey(e, "note_chunks", ScopedKey)
  PROVE  MakeFacts(e, Tail(p))
  <1> DEFINE q == Tail(p)
  <1>1. /\ Len(q) = Len(p) - 1 /\ Len(p) \in Nat
        /\ \A j \in 1..Len(p) - 1 : q[j] = p[j + 1]
    BY TailOf
  <1> HIDE DEF q
  <1>2. \A j \in 1..Len(q) : Creation(q[j])
    BY <1>1 DEF MakeFacts
  <1>3. ASSUME NEW j \in 2..Len(q)
        PROVE  /\ q[j] = IndexNotes => q[j - 1] = MakeNotes
               /\ q[j] = IndexChunks => q[j - 1] = MakeChunks
    <2>1. j + 1 \in 2..Len(p) /\ q[j] = p[j + 1] /\ q[j - 1] = p[j] /\ (j + 1) - 1 = j
      BY <1>1
    <2>2. /\ p[j + 1] = IndexNotes => p[(j + 1) - 1] = MakeNotes
          /\ p[j + 1] = IndexChunks => p[(j + 1) - 1] = MakeChunks
      BY <2>1 DEF MakeFacts
    <2> QED  BY <2>1, <2>2
  <1>4. q[1] = p[2]
    BY <1>1
  <1>5. /\ p[2] = IndexNotes => p[1] = MakeNotes
        /\ p[2] = IndexChunks => p[1] = MakeChunks
    <2>1. 2 \in 2..Len(p) /\ 2 - 1 = 1
      BY <1>1
    <2> QED  BY <2>1 DEF MakeFacts
  <1>6. MakeFacts(e, q)
    BY <1>2, <1>3, <1>4, <1>5 DEF MakeFacts
  <1> QED  BY <1>6 DEF q

LEMMA MakeStep ==
  ASSUME NEW d, Sound(d), NEW p \in Seq(Statement), Len(p) > 0, MakeFacts(d, p),
         NEW s, s = Head(p), Fits(d, s), NEW e, e = After(d, s)
  PROVE  /\ Sound(e) /\ Carry(d, e) /\ e.version = d.version
         /\ Len(p) > 1 => MakeFacts(e, Tail(p))
  <1>1. s = p[1] /\ Len(p) \in Nat
    BY TailOf
  <1>2. Creation(s)
    BY <1>1 DEF MakeFacts
  <1>3. s # MakeVaults => Has(d, "vaults")
    BY <1>1 DEF MakeFacts
  <1>4. CASE Minor(s)
    <2>1. Alike(d, e)
      BY <1>4, MinorAlike DEF Sound, Fits
    <2>2. Sound(e) /\ Carry(d, e) /\ e.version = d.version
      BY <2>1, AlikeSound, MinorCarries DEF Alike
    <2>3. Has(e, "vaults")
      <3>1. CASE s = MakeVaults
        <4>1. ~Has(d, "vaults")
          BY <3>1 DEF Fits, MakeVaults, CreateTable
        <4>2. HasKey(e, "vaults", VaultKey)
          BY <3>1, <4>1, CreateTableEffect DEF Sound, MakeVaults
        <4> QED  BY <4>2 DEF HasKey
      <3>2. CASE s # MakeVaults
        BY <1>3, <2>1, <3>2 DEF Alike
      <3> QED  BY <3>1, <3>2
    <2>4. p[1] # MakeNotes /\ p[1] # MakeChunks
      BY <1>1, <1>4, MakersDiffer
    <2>5. Len(p) > 1 => MakeFacts(e, Tail(p))
      BY <2>3, <2>4, TailFacts
    <2> QED  BY <2>2, <2>5
  <1>5. ASSUME NEW t \in {"notes", "note_chunks"}, NEW refs, s = CreateTable(t, ScopedKey, refs),
               s # MakeVaults
        PROVE  /\ Sound(e) /\ Carry(d, e) /\ e.version = d.version
               /\ HasKey(e, t, ScopedKey) /\ Has(e, "vaults")
    <2>1. ~Has(d, t)
      BY <1>5 DEF Fits, CreateTable
    <2>2. Sound(e) /\ Carry(d, e)
      BY <1>3, <1>5, <2>1, CreateStage
    <2>3. /\ e.version = d.version /\ HasKey(e, t, ScopedKey)
          /\ \A u : u # t => SameTable(d, e, u)
      BY <1>5, <2>1, CreateTableEffect DEF Sound
    <2>4. SameTable(d, e, "vaults")
      BY <2>3
    <2> QED  BY <1>3, <1>5, <2>2, <2>3, <2>4 DEF SameTable
  <1>6. ASSUME NEW i, NEW t, HasKey(d, t, ScopedKey), s = CreateIndex(i, t), s # MakeVaults,
               \/ i = "ix_notes_vault_note" /\ t = "notes"
               \/ i = "ix_chunks_vault_note" /\ t = "note_chunks"
        PROVE  Sound(e) /\ Carry(d, e) /\ e.version = d.version /\ Has(e, "vaults")
    <2>1. Sound(e) /\ Carry(d, e)
      BY <1>6, IndexStage
    <2>2. e.version = d.version /\ e.tables = d.tables
      BY <1>6, CreateIndexEffect DEF Sound
    <2> QED  BY <1>3, <1>6, <2>1, <2>2 DEF Has
  <1>7. CASE s = MakeNotes
    <2>1. /\ Sound(e) /\ Carry(d, e) /\ e.version = d.version
          /\ HasKey(e, "notes", ScopedKey) /\ Has(e, "vaults")
      BY <1>5, <1>7, MakersDiffer DEF MakeNotes
    <2>2. p[1] # MakeChunks
      BY <1>1, <1>7, MakersDiffer
    <2>3. Len(p) > 1 => MakeFacts(e, Tail(p))
      BY <2>1, <2>2, TailFacts
    <2> QED  BY <2>1, <2>3
  <1>8. CASE s = MakeChunks
    <2>1. /\ Sound(e) /\ Carry(d, e) /\ e.version = d.version
          /\ HasKey(e, "note_chunks", ScopedKey) /\ Has(e, "vaults")
      BY <1>5, <1>8, MakersDiffer DEF MakeChunks
    <2>2. p[1] # MakeNotes
      BY <1>1, <1>8, MakersDiffer
    <2>3. Len(p) > 1 => MakeFacts(e, Tail(p))
      BY <2>1, <2>2, TailFacts
    <2> QED  BY <2>1, <2>3
  <1>9. CASE s = IndexNotes
    <2>1. HasKey(d, "notes", ScopedKey)
      BY <1>1, <1>9 DEF MakeFacts
    <2>2. Sound(e) /\ Carry(d, e) /\ e.version = d.version /\ Has(e, "vaults")
      BY <1>6, <1>9, <2>1, MakersDiffer DEF IndexNotes
    <2>3. p[1] # MakeNotes /\ p[1] # MakeChunks
      BY <1>1, <1>9, MakersDiffer
    <2>4. Len(p) > 1 => MakeFacts(e, Tail(p))
      BY <2>2, <2>3, TailFacts
    <2> QED  BY <2>2, <2>4
  <1>10. CASE s = IndexChunks
    <2>1. HasKey(d, "note_chunks", ScopedKey)
      BY <1>1, <1>10 DEF MakeFacts
    <2>2. Sound(e) /\ Carry(d, e) /\ e.version = d.version /\ Has(e, "vaults")
      BY <1>6, <1>10, <2>1, MakersDiffer DEF IndexChunks
    <2>3. p[1] # MakeNotes /\ p[1] # MakeChunks
      BY <1>1, <1>10, MakersDiffer
    <2>4. Len(p) > 1 => MakeFacts(e, Tail(p))
      BY <2>2, <2>3, TailFacts
    <2> QED  BY <2>2, <2>4
  <1> QED  BY <1>2, <1>4, <1>7, <1>8, <1>9, <1>10 DEF Creation

LEMMA MakeStart ==
  ASSUME NEW d, CreateAll(d) # <<>>
  PROVE  CreateAll(d) \in Seq(Statement) /\ MakeFacts(d, CreateAll(d))
  <1> DEFINE p == CreateAll(d)
  <1>1. WellMade(p) /\ (~Has(d, "vaults") => p[1] = MakeVaults)
    BY CreateAllWellMade DEF MakeVaults
  <1>2. p # <<>>
    OBVIOUS
  <1> HIDE DEF p
  <1>3. p \in Seq(Statement) /\ 1 \in 1..Len(p)
    BY <1>1, <1>2 DEF WellMade
  <1>4. p[1] # IndexNotes /\ p[1] # IndexChunks
    BY <1>1, <1>3 DEF WellMade
  <1>5. MakeFacts(d, p)
    BY <1>1, <1>3, <1>4 DEF WellMade, MakeFacts
  <1> QED  BY <1>3, <1>5 DEF p

-----------------------------------------------------------------------------
(* The inductive invariant. *)

Held(d, N, C) ==
  N \subseteq Rows(d, NoteTables) /\ C \subseteq Rows(d, ChunkTables)

\* q is the end of the script p.
EndOf(q, p) == Len(q) \in 1..Len(p) /\ \A n \in 1..Len(q) : FromEnd(q, n) = FromEnd(p, n)

TypeInv == /\ backend \in {"postgresql", "sqlite"} /\ inTxn \in BOOLEAN
           /\ todo \in Seq(Statement)

\* What is not in a transaction is committed.
Txn == /\ ~inTxn => db = committed
       /\ Idle => ~inTxn
       /\ backend = "postgresql" /\ ~Idle => inTxn

\* A running command has the end of its script left, and the database is as the
\* statements before leave it.
UpScript == EndOf(todo, Up) /\ UpFacts(db, Len(todo)) /\ (Len(todo) < 26 => inTxn)
DownScript(p, n) == EndOf(todo, p) /\ DownFacts(db, n) /\ (n < 10 => inTxn)
Script ==
  ~Idle =>
    /\ command \in {"upgrade", "create_all", DownTo(Revision1), DownTo(Base)}
    /\ command = "upgrade" => UpScript
    /\ command = "create_all" => MakeFacts(db, todo)
    /\ command = DownTo(Revision1) => DownScript(Down, Len(todo))
    /\ command = DownTo(Base) =>
         /\ EndOf(todo, DownAll)
         /\ Len(todo) > 3 => DownScript(DownAll, Len(todo) - 3)
         /\ Len(todo) <= 3 => db.version = Revision1

\* The rows the running command still has to keep: those of the default vault once
\* a downgrade is copying, and none once it goes on to base.
NoneDue == ~Idle /\ command = DownTo(Base) /\ (backend = "postgresql" \/ db.version = Revision1)
DefaultsDue ==
  ~Idle /\ command \in {DownTo(Base), DownTo(Revision1)} /\ inTxn /\ db.version = Revision2
Due(ids) == IF NoneDue THEN {} ELSE IF DefaultsDue THEN Defaults(ids) ELSE ids

IInv ==
  /\ TypeInv /\ Sound(db) /\ Sound(committed) /\ Txn /\ Script
  /\ Held(db, Due(kept), Due(keptChunks))
  /\ Held(committed, kept, keptChunks)

LEMMA RowsHeld ==
  IInv => NoRowLost
  BY DEF IInv, Held, Rows, NoRowLost

LEMMA Commands ==
  /\ DownTo(Base) = "downgrade base" /\ DownTo(Revision1) = "downgrade 0001_initial"
  /\ DownTo(Base) # DownTo(Revision1)
  /\ DownTo(Base) \notin {"upgrade", "create_all"} /\ DownTo(Revision1) \notin {"upgrade", "create_all"}
  /\ Base # Revision1 /\ Base # Revision2 /\ Revision1 # Revision2
  BY DEF DownTo, Base, Revision1, Revision2

LEMMA HeldCarried ==
  ASSUME NEW d, NEW e, NEW N, NEW C, Carry(d, e), Held(d, N, C)
  PROVE  Held(e, N, C)
  <1>1. Rows(d, NoteTables) \subseteq Rows(e, NoteTables)
        /\ Rows(d, ChunkTables) \subseteq Rows(e, ChunkTables)
    BY DEF Carry
  <1> QED  BY <1>1 DEF Held

LEMMA HeldDefaults ==
  ASSUME NEW d, NEW e, NEW N, NEW C, CarryDefaults(d, e), Held(d, Defaults(N), Defaults(C))
  PROVE  Held(e, Defaults(N), Defaults(C))
  <1>1. Defaults(Rows(d, NoteTables)) \subseteq Rows(e, NoteTables)
        /\ Defaults(Rows(d, ChunkTables)) \subseteq Rows(e, ChunkTables)
    BY DEF CarryDefaults
  <1>2. \A I, R : Defaults(I) \subseteq R => Defaults(I) \subseteq Defaults(R)
    BY DEF Defaults
  <1> QED  BY <1>1, <1>2 DEF Held

LEMMA HeldFewer ==
  ASSUME NEW d, NEW N, NEW C, Held(d, N, C)
  PROVE  Held(d, Defaults(N), Defaults(C)) /\ Held(d, {}, {})
  BY DEF Held, Defaults

LEMMA EndOfTail ==
  ASSUME NEW q \in Seq(Statement), NEW p \in Seq(Statement), EndOf(q, p)
  PROVE  /\ Len(q) \in Nat /\ Len(q) > 0 /\ Len(q) \in 1..Len(p)
         /\ Head(q) = FromEnd(p, Len(q))
         /\ Len(q) > 1 => EndOf(Tail(q), p)
  <1>1. Len(q) \in Nat /\ Len(p) \in Nat /\ Len(q) \in 1..Len(p)
    BY DEF EndOf
  <1>2. FromEnd(q, Len(q)) = q[1]
    BY <1>1 DEF FromEnd
  <1>3. Head(q) = q[1] /\ Len(Tail(q)) = Len(q) - 1
        /\ \A j \in 1..Len(q) - 1 : Tail(q)[j] = q[j + 1]
    BY <1>1, TailOf
  <1>4. FromEnd(q, Len(q)) = FromEnd(p, Len(q))
    BY <1>1 DEF EndOf
  <1>5. ASSUME Len(q) > 1
        PROVE  EndOf(Tail(q), p)
    <2> DEFINE r == Tail(q)
    <2>1. Len(r) \in 1..Len(p)
      BY <1>1, <1>3, <1>5
    <2>2. ASSUME NEW n \in 1..Len(r)
          PROVE  FromEnd(r, n) = FromEnd(p, n)
      <3>1. n \in 1..Len(q) /\ Len(r) + 1 - n \in 1..Len(q) - 1
            /\ (Len(r) + 1 - n) + 1 = Len(q) + 1 - n
        BY <1>1, <1>3, <2>2
      <3>2. r[Len(r) + 1 - n] = q[Len(q) + 1 - n]
        BY <1>3, <3>1
      <3>3. FromEnd(q, n) = FromEnd(p, n)
        BY <3>1 DEF EndOf
      <3> HIDE DEF r
      <3> QED  BY <3>2, <3>3 DEF FromEnd
    <2> HIDE DEF r
    <2>3. EndOf(r, p)
      BY <2>1, <2>2 DEF EndOf
    <2> QED  BY <2>3 DEF r
  <1> QED  BY <1>1, <1>2, <1>3, <1>4, <1>5

\* What every execution of a statement does, whatever the command.
Executes(s, n, ends, keeps) ==
  /\ s = Head(todo) /\ n = Len(todo) /\ n \in Nat /\ n > 0 /\ Fits(db, s)
  /\ ends = (n = 1 \/ (s.op = "stamp" /\ backend = "sqlite"))
  /\ keeps = (ends \/ ~(inTxn \/ WritesRows(s)))
  /\ db' = After(db, s)
  /\ committed' = IF keeps THEN db' ELSE committed
  /\ inTxn' = ~keeps
  /\ kept' = IF keeps THEN StillKept(kept, db') ELSE kept
  /\ keptChunks' = IF keeps THEN StillKept(keptChunks, db') ELSE keptChunks
  /\ todo' = Tail(todo) /\ backend' = backend /\ command' = command
  /\ todo' \in Seq(Statement) /\ Len(todo') = n - 1
  /\ ~Idle /\ (Idle' <=> n = 1)

LEMMA ExecuteIs ==
  ASSUME TypeInv, Execute
  PROVE  \E s, n, ends, keeps : Executes(s, n, ends, keeps)
  <1> DEFINE s == Head(todo)
             n == Len(todo)
             ends == n = 1 \/ (s.op = "stamp" /\ backend = "sqlite")
             keeps == ends \/ ~(inTxn \/ WritesRows(s))
  <1>1. todo \in Seq(Statement) /\ todo # <<>>
    BY DEF TypeInv, Execute, Idle
  <1>2. n \in Nat /\ n > 0
    BY <1>1
  <1>3. Tail(todo) \in Seq(Statement) /\ Len(Tail(todo)) = n - 1
    BY <1>1, <1>2, TailOf
  <1>4. todo' = Tail(todo) /\ backend' = backend /\ command' = command /\ ~Idle
    BY DEF Execute
  <1>5. Idle' <=> n = 1
    <2>1. \A q \in Seq(Statement) : q = <<>> <=> Len(q) = 0
      OBVIOUS
    <2> QED  BY <1>2, <1>3, <1>4, <2>1 DEF Idle
  <1>6. Fits(db, s)
    BY AcceptsFits DEF Execute
  <1>7. /\ db' = After(db, s)
        /\ committed' = IF keeps THEN db' ELSE committed
        /\ inTxn' = ~keeps
        /\ kept' = IF keeps THEN StillKept(kept, db') ELSE kept
        /\ keptChunks' = IF keeps THEN StillKept(keptChunks, db') ELSE keptChunks
    BY DEF Execute
  <1>8. Executes(s, n, ends, keeps)
    BY <1>2, <1>3, <1>4, <1>5, <1>6, <1>7 DEF Executes
  <1> QED  BY <1>8

LEMMA ExecuteRest ==
  ASSUME TypeInv, Txn, NEW s, NEW n, NEW ends, NEW keeps, Executes(s, n, ends, keeps)
  PROVE  /\ TypeInv' /\ Txn' /\ keeps \in BOOLEAN
         /\ keeps => committed' = db' /\ kept' = StillKept(kept, db')
                     /\ keptChunks' = StillKept(keptChunks, db') /\ inTxn' = FALSE
         /\ ~keeps => /\ committed' = committed /\ kept' = kept /\ keptChunks' = keptChunks
                      /\ inTxn' = TRUE /\ n > 1
         /\ n > 1 /\ (inTxn \/ WritesRows(s)) /\ (s.op = "stamp" => backend # "sqlite")
              => ~keeps
  <1>1. keeps \in BOOLEAN /\ inTxn' = ~keeps /\ (n = 1 => keeps)
    BY DEF Executes
  <1>2. TypeInv'
    BY <1>1 DEF TypeInv, Executes
  <1>3. (~inTxn => db = committed)'
    BY <1>1 DEF Executes
  <1>4. (Idle => ~inTxn)'
    BY <1>1 DEF Executes
  <1>5. (backend = "postgresql" /\ ~Idle => inTxn)'
    <2> SUFFICES ASSUME backend' = "postgresql", ~Idle'
                 PROVE  inTxn'
      OBVIOUS
    <2>1. backend = "postgresql" /\ n # 1 /\ ~Idle
      BY DEF Executes
    <2>2. inTxn
      BY <2>1 DEF Txn
    <2> QED  BY <2>1, <2>2 DEF Executes
  <1>6. n \in Nat /\ n > 0
    BY DEF Executes
  <1>7. n > 1 /\ (inTxn \/ WritesRows(s)) /\ (s.op = "stamp" => backend # "sqlite") => ~keeps
    <2>1. n > 1 => n # 1
      BY <1>6
    <2> QED  BY <2>1 DEF Executes
  <1>8. keeps => committed' = db' /\ kept' = StillKept(kept, db')
                 /\ keptChunks' = StillKept(keptChunks, db')
    BY DEF Executes
  <1>9. ~keeps => committed' = committed /\ kept' = kept /\ keptChunks' = keptChunks
    BY DEF Executes
  <1>10. ~keeps => n > 1
    BY <1>1, <1>6
  <1> QED  BY <1>1, <1>2, <1>3, <1>4, <1>5, <1>7, <1>8, <1>9, <1>10 DEF Txn

\* What is left to show of a statement executed.
LEMMA Executed ==
  ASSUME IInv, NEW s, NEW n, NEW ends, NEW keeps, Executes(s, n, ends, keeps),
         Sound(db'), Script', Held(db, Due(kept), Due(keptChunks))',
         keeps => Held(db', kept', keptChunks')
  PROVE  IInv'
  <1>1. TypeInv /\ Txn /\ Sound(committed) /\ Held(committed, kept, keptChunks)
    BY DEF IInv
  <1>2. TypeInv' /\ Txn'
    BY <1>1, ExecuteRest
  <1>3. Sound(committed') /\ Held(committed', kept', keptChunks')
    <2>1. CASE keeps
      BY <1>1, <2>1, ExecuteRest
    <2>2. CASE ~keeps
      <3>1. committed' = committed /\ kept' = kept /\ keptChunks' = keptChunks
        BY <2>2 DEF Executes
      <3> QED  BY <1>1, <3>1
    <2> QED  BY <2>1, <2>2
  <1> QED  BY <1>2, <1>3 DEF IInv

LEMMA AllDue ==
  ASSUME ~NoneDue, ~DefaultsDue
  PROVE  \A ids : Due(ids) = ids
  BY DEF Due

LEMMA AllDueNext ==
  ASSUME ~NoneDue', ~DefaultsDue', Held(db', kept', keptChunks')
  PROVE  Held(db, Due(kept), Due(keptChunks))'
  BY DEF Due

LEMMA ScriptNext ==
  /\ command' = "upgrade" /\ (~Idle' => UpScript') => Script'
  /\ command' = "create_all" /\ (~Idle' => MakeFacts(db', todo')) => Script'
  /\ command' = DownTo(Revision1) /\ (~Idle' => DownScript(Down, Len(todo))') => Script'
  /\ Idle' => Script'
  BY DEF Script, DownTo, Base, Revision1

LEMMA UpgradeExecuted ==
  ASSUME IInv, command = "upgrade",
         NEW s, NEW n, NEW ends, NEW keeps, Executes(s, n, ends, keeps)
  PROVE  IInv'
  <1>1. TypeInv /\ Txn /\ Sound(db) /\ ~Idle /\ UpScript
    BY DEF IInv, Script, Executes
  <1>2. todo \in Seq(Statement) /\ Up \in Seq(Statement) /\ Len(Up) = 43 /\ EndOf(todo, Up)
        /\ n = Len(todo) /\ s = Head(todo) /\ todo' = Tail(todo) /\ Len(todo') = n - 1
        /\ (n < 26 => inTxn)
    BY <1>1, UpEnd DEF TypeInv, UpScript, Executes
  <1>3. n \in 1..43 /\ s = FromEnd(Up, n) /\ (n > 1 => EndOf(todo', Up))
    BY <1>2, EndOfTail
  <1>4. UpFacts(db, n) /\ Fits(db, s) /\ db' = After(db, s)
    BY <1>1, <1>2 DEF UpScript, Executes
  <1>5. Sound(db') /\ Carry(db, db') /\ (n > 1 => UpFacts(db', n - 1))
    BY <1>1, <1>3, <1>4, UpStep
  <1>6. ~NoneDue /\ ~DefaultsDue /\ ~NoneDue' /\ ~DefaultsDue' /\ command' = "upgrade"
    BY Commands DEF NoneDue, DefaultsDue, Executes
  <1>7. Held(db, kept, keptChunks)
    BY <1>6, AllDue DEF IInv
  <1>8. db.version # Revision2
    BY <1>4, Commands DEF UpFacts
  <1>9. \A ids : StillKept(ids, db') = ids
    BY <1>8, Commands DEF StillKept
  <1>10. kept' = kept /\ keptChunks' = keptChunks
    BY <1>1, <1>9, ExecuteRest
  <1>11. Held(db', kept', keptChunks')
    BY <1>5, <1>7, <1>10, HeldCarried
  <1>12. ASSUME n > 1, n - 1 < 26
         PROVE  inTxn'
    <2>1. CASE n = 26
      <3>1. s.op = "insert"
        BY <1>3, <2>1, UpOps
      <3>2. WritesRows(s) /\ s.op # "stamp" /\ n > 1
        BY <3>1, <2>1 DEF WritesRows
      <3> QED  BY <1>1, <3>2, ExecuteRest
    <2>2. CASE n # 26
      <3>1. n \in 2..25 /\ n < 26
        BY <1>3, <1>12, <2>2
      <3>2. s.op # "stamp"
        BY <1>3, <3>1, UpOps
      <3> QED  BY <1>1, <1>2, <1>12, <3>1, <3>2, ExecuteRest
    <2> QED  BY <2>1, <2>2
  <1>13. ASSUME n > 1 PROVE UpScript'
    BY <1>2, <1>3, <1>5, <1>12, <1>13 DEF UpScript
  <1>14. Idle' <=> n = 1
    BY DEF Executes
  <1>15. Script'
    BY <1>3, <1>6, <1>13, <1>14, ScriptNext
  <1>16. Held(db, Due(kept), Due(keptChunks))'
    BY <1>6, <1>11, AllDueNext
  <1> QED  BY <1>5, <1>11, <1>15, <1>16, Executed

LEMMA CreateAllExecuted ==
  ASSUME IInv, command = "create_all",
         NEW s, NEW n, NEW ends, NEW keeps, Executes(s, n, ends, keeps)
  PROVE  IInv'
  <1>1. TypeInv /\ Txn /\ Sound(db) /\ ~Idle /\ MakeFacts(db, todo)
    BY DEF IInv, Script, Executes
  <1>2. todo \in Seq(Statement) /\ Len(todo) > 0
        /\ n = Len(todo) /\ s = Head(todo) /\ todo' = Tail(todo) /\ Len(todo') = n - 1
        /\ n \in Nat /\ Fits(db, s) /\ db' = After(db, s)
    BY <1>1 DEF TypeInv, Executes
  <1>3. Sound(db') /\ Carry(db, db') /\ db'.version = db.version
        /\ (n > 1 => MakeFacts(db', todo'))
    BY <1>1, <1>2, MakeStep
  <1>4. ~NoneDue /\ ~DefaultsDue /\ ~NoneDue' /\ ~DefaultsDue' /\ command' = "create_all"
    BY Commands DEF NoneDue, DefaultsDue, Executes
  <1>5. Held(db, kept, keptChunks)
    BY <1>4, AllDue DEF IInv
  <1>6. \A ids : StillKept(ids, db') = ids
    BY <1>3, Commands DEF StillKept
  <1>7. kept' = kept /\ keptChunks' = keptChunks
    BY <1>1, <1>6, ExecuteRest
  <1>8. Held(db', kept', keptChunks')
    BY <1>3, <1>5, <1>7, HeldCarried
  <1>9. Idle' <=> n = 1
    BY DEF Executes
  <1>10. Script'
    BY <1>2, <1>3, <1>4, <1>9, ScriptNext
  <1>11. Held(db, Due(kept), Due(keptChunks))'
    BY <1>4, <1>8, AllDueNext
  <1> QED  BY <1>3, <1>8, <1>10, <1>11, Executed

LEMMA DueFewer ==
  ASSUME Held(db', kept', keptChunks')
  PROVE  Held(db, Due(kept), Due(keptChunks))'
  <1>1. Held(db', Defaults(kept'), Defaults(keptChunks')) /\ Held(db', {}, {})
    BY HeldFewer
  <1>2. CASE NoneDue'
    BY <1>1, <1>2 DEF Due
  <1>3. CASE ~NoneDue' /\ DefaultsDue'
    BY <1>1, <1>3 DEF Due
  <1>4. CASE ~NoneDue' /\ ~DefaultsDue'
    BY <1>4, AllDueNext
  <1> QED  BY <1>2, <1>3, <1>4

\* A downgrade of the second revision that has to keep the default vault's rows,
\* m statements before its end.
Downs(s, n, keeps, m) ==
  /\ command \in {DownTo(Base), DownTo(Revision1)} /\ ~NoneDue
  /\ m \in 1..33 /\ DownFacts(db, m) /\ s = FromEnd(Down, m) /\ (m < 10 => inTxn)
  /\ m > 1 => n > 1
  /\ m = 1 => keeps

LEMMA DownHeld ==
  ASSUME IInv, NEW s, NEW n, NEW ends, NEW keeps, Executes(s, n, ends, keeps),
         NEW m, Downs(s, n, keeps, m)
  PROVE  /\ Held(db, Due(kept), Due(keptChunks))'
         /\ keeps => Held(db', kept', keptChunks')
  <1>1. TypeInv /\ Txn /\ Sound(db) /\ Held(db, Due(kept), Due(keptChunks))
        /\ ~Idle /\ Fits(db, s) /\ db' = After(db, s) /\ command' = command
        /\ backend' = backend /\ n \in Nat
    BY DEF IInv, Executes
  <1>2. m \in 1..33 /\ DownFacts(db, m) /\ s = FromEnd(Down, m) /\ db.version = Revision2
    BY DEF Downs, DownFacts
  <1>3. /\ CarryDefaults(db, db') /\ (m >= 10 => Carry(db, db'))
        /\ m > 1 => DownFacts(db', m - 1)
        /\ m = 1 => db'.version = Revision1
    BY <1>1, <1>2, DownStep
  <1>4. m > 1 => db'.version = Revision2
    BY <1>3 DEF DownFacts
  <1>5. CASE inTxn
    <2>1. \A ids : Due(ids) = Defaults(ids)
      BY <1>1, <1>2, <1>5 DEF Due, DefaultsDue, Downs
    <2>2. Held(db', Defaults(kept), Defaults(keptChunks))
      BY <1>1, <1>3, <2>1, HeldDefaults
    <2>3. CASE m = 1
      <3>1. \A ids : StillKept(ids, db') = Defaults(ids)
        BY <1>2, <1>3, <2>3, Commands DEF StillKept, Defaults
      <3>2. keeps
        BY <2>3 DEF Downs
      <3>3. kept' = Defaults(kept) /\ keptChunks' = Defaults(keptChunks)
        BY <1>1, <3>1, <3>2, ExecuteRest
      <3>4. Held(db', kept', keptChunks')
        BY <2>2, <3>3
      <3> QED  BY <3>4, DueFewer
    <2>4. CASE m # 1
      <3>1. m \in 2..33 /\ m > 1
        BY <1>2, <2>4
      <3>2. s.op # "stamp" /\ n > 1
        BY <1>2, <3>1, DownOps DEF Downs
      <3>3. ~keeps
        BY <1>1, <1>5, <3>2, ExecuteRest
      <3>4. kept' = kept /\ keptChunks' = keptChunks /\ inTxn'
        BY <3>3 DEF Executes
      <3>5. ~Idle'
        BY <3>2 DEF Executes
      <3>6. ~NoneDue'
        BY <1>1, <1>4, <3>1, Commands DEF NoneDue, Downs
      <3>7. DefaultsDue'
        BY <1>1, <1>4, <3>1, <3>4, <3>5 DEF DefaultsDue, Downs, DownTo, Base, Revision1
      <3>8. Due(kept)' = Defaults(kept') /\ Due(keptChunks)' = Defaults(keptChunks')
        BY <3>6, <3>7 DEF Due
      <3> QED  BY <2>2, <3>3, <3>4, <3>8
    <2> QED  BY <2>3, <2>4
  <1>6. CASE ~inTxn
    <2>1. m >= 10 /\ m > 1
      BY <1>2, <1>6 DEF Downs
    <2>2. \A ids : Due(ids) = ids
      BY <1>6 DEF Due, DefaultsDue, Downs
    <2>3. Held(db', kept, keptChunks)
      BY <1>1, <1>3, <2>1, <2>2, HeldCarried
    <2>4. db'.version = Revision2
      BY <1>4, <2>1
    <2>5. \A ids : StillKept(ids, db') = ids
      BY <1>2, <2>4, Commands DEF StillKept
    <2>6. kept' = kept /\ keptChunks' = keptChunks
      BY <1>1, <2>5, ExecuteRest
    <2>7. Held(db', kept', keptChunks')
      BY <2>3, <2>6
    <2> QED  BY <2>7, DueFewer
  <1>7. inTxn \in BOOLEAN
    BY <1>1 DEF TypeInv
  <1> QED  BY <1>5, <1>6, <1>7

\* What does not depend on how far the command goes.
LEMMA DownMoves ==
  ASSUME IInv, NEW s, NEW n, NEW ends, NEW keeps, Executes(s, n, ends, keeps),
         NEW m \in 1..33, DownFacts(db, m), s = FromEnd(Down, m), m < 10 => inTxn, m > 1 => n > 1
  PROVE  /\ Sound(db')
         /\ m > 1 => DownFacts(db', m - 1) /\ (m - 1 < 10 => inTxn')
         /\ m = 1 => db'.version = Revision1
  <1>1. TypeInv /\ Txn /\ Sound(db) /\ Fits(db, s) /\ db' = After(db, s)
    BY DEF IInv, Executes
  <1>2. /\ Sound(db')
        /\ m > 1 => DownFacts(db', m - 1)
        /\ m = 1 => db'.version = Revision1
    BY <1>1, DownStep
  <1>3. ASSUME m > 1, m - 1 < 10
        PROVE  inTxn'
    <2>1. m \in 2..33 /\ m \in 2..10
      BY <1>3
    <2>2. s.op # "stamp"
      BY <2>1, DownOps
    <2>3. inTxn \/ WritesRows(s)
      <3>1. CASE m = 10
        BY <3>1, DownOps DEF WritesRows
      <3>2. CASE m # 10
        BY <2>1, <3>2
      <3> QED  BY <3>1, <3>2
    <2> QED  BY <1>1, <1>3, <2>2, <2>3, ExecuteRest
  <1> QED  BY <1>2, <1>3

LEMMA DowngradeExecuted ==
  ASSUME IInv, command = DownTo(Revision1),
         NEW s, NEW n, NEW ends, NEW keeps, Executes(s, n, ends, keeps)
  PROVE  IInv'
  <1>1. TypeInv /\ Txn /\ ~Idle /\ DownScript(Down, Len(todo))
    BY DEF IInv, Script, Executes
  <1>2. todo \in Seq(Statement) /\ Down \in Seq(Statement) /\ Len(Down) = 33 /\ EndOf(todo, Down)
        /\ n = Len(todo) /\ s = Head(todo) /\ todo' = Tail(todo) /\ Len(todo') = n - 1
        /\ (n < 10 => inTxn) /\ DownFacts(db, n) /\ command' = command /\ (Idle' <=> n = 1)
    BY <1>1, DownEnd DEF TypeInv, DownScript, Executes
  <1>3. n \in 1..33 /\ s = FromEnd(Down, n) /\ (n > 1 => EndOf(todo', Down))
    BY <1>2, EndOfTail
  <1>4. /\ Sound(db')
        /\ n > 1 => DownFacts(db', n - 1) /\ (n - 1 < 10 => inTxn')
    BY <1>2, <1>3, DownMoves
  <1>5. ASSUME n > 1 PROVE DownScript(Down, Len(todo))'
    BY <1>2, <1>3, <1>4, <1>5 DEF DownScript
  <1>6. Script'
    BY <1>2, <1>3, <1>5, ScriptNext
  <1>7. ~NoneDue /\ (n = 1 => keeps)
    BY Commands DEF NoneDue, Executes
  <1>8. Downs(s, n, keeps, n)
    BY <1>2, <1>3, <1>7 DEF Downs
  <1> QED  BY <1>4, <1>6, <1>8, DownHeld, Executed

LEMMA NoneHeld == \A d : Held(d, {}, {})
  BY DEF Held


LEMMA ScriptToBase ==
  ASSUME command' = DownTo(Base), EndOf(todo', DownAll),
         Len(todo') > 3 => DownScript(DownAll, Len(todo) - 3)',
         Len(todo') <= 3 => db'.version = Revision1
  PROVE  Script'
  <1>1. command' # "upgrade" /\ command' # "create_all" /\ command' # DownTo(Revision1)
    BY Commands
  <1>2. command' \in {"upgrade", "create_all", DownTo(Revision1), DownTo(Base)}
    OBVIOUS
  <1> QED  BY <1>1, <1>2 DEF Script, DownTo, Base, Revision1

LEMMA SecondUndone ==
  ASSUME IInv, command = DownTo(Base),
         NEW s, NEW n, NEW ends, NEW keeps, Executes(s, n, ends, keeps), n > 3
  PROVE  IInv'
  <1>1. TypeInv /\ Txn /\ ~Idle /\ EndOf(todo, DownAll) /\ command' = command
        /\ n = Len(todo) /\ s = Head(todo) /\ todo' = Tail(todo) /\ Len(todo') = n - 1
        /\ backend' = backend
    BY DEF IInv, Script, Executes
  <1>2. DownScript(DownAll, n - 3)
    BY <1>1 DEF IInv, Script
  <1>3. todo \in Seq(Statement) /\ DownAll \in Seq(Statement) /\ Len(DownAll) = 36
    BY <1>1, DownAllEnd DEF TypeInv
  <1>4. n \in 4..36 /\ s = FromEnd(DownAll, n) /\ EndOf(todo', DownAll)
    <2>1. n \in 1..36 /\ s = FromEnd(DownAll, n) /\ (n > 1 => EndOf(todo', DownAll))
      BY <1>1, <1>3, EndOfTail
    <2>2. n \in 4..36 /\ n > 1
      BY <2>1
    <2> QED  BY <2>1, <2>2
  <1> DEFINE m == n - 3
  <1>5. m \in 1..33 /\ s = FromEnd(Down, m) /\ n = m + 3 /\ (m = 1 <=> n = 4)
        /\ n > 1 /\ n # 1 /\ Len(todo') = m + 2 /\ Len(todo') - 3 = m - 1
    <2>1. m \in 1..33 /\ n = m + 3 /\ (m = 1 <=> n = 4)
          /\ n > 1 /\ n # 1 /\ n - 1 = m + 2 /\ (n - 1) - 3 = m - 1
      BY <1>4
    <2>2. FromEnd(DownAll, n) = FromEnd(Down, n - 3)
      BY <1>4, DownAllEnd
    <2> QED  BY <1>1, <1>4, <2>1, <2>2
  <1>6. DownFacts(db, m) /\ (m < 10 => inTxn) /\ db.version = Revision2
    BY <1>2 DEF DownScript, DownFacts
  <1> HIDE DEF m
  <1>7. /\ Sound(db')
        /\ m > 1 => DownFacts(db', m - 1) /\ (m - 1 < 10 => inTxn')
        /\ m = 1 => db'.version = Revision1
    BY <1>5, <1>6, DownMoves
  <1>8. ~Idle'
    BY <1>5 DEF Executes
  <1>9. Len(todo') > 3 => DownScript(DownAll, Len(todo) - 3)'
    <2> SUFFICES ASSUME Len(todo') > 3
                 PROVE  DownScript(DownAll, Len(todo) - 3)'
      OBVIOUS
    <2>1. m > 1
      BY <1>5
    <2> QED  BY <1>4, <1>5, <1>7, <2>1 DEF DownScript
  <1>10. Len(todo') <= 3 => db'.version = Revision1
    BY <1>5, <1>7
  <1>11. Script'
    BY <1>1, <1>4, <1>9, <1>10, ScriptToBase
  <1>12. CASE NoneDue
    <2>1. backend = "postgresql"
      BY <1>6, <1>12, Commands DEF NoneDue
    <2>2. inTxn
      BY <1>1, <2>1 DEF Txn
    <2>3. ~keeps
      BY <1>1, <1>5, <2>1, <2>2, ExecuteRest
    <2>4. NoneDue'
      BY <1>1, <1>8, <2>1 DEF NoneDue, DownTo, Base
    <2>5. Held(db, Due(kept), Due(keptChunks))'
      BY <2>4, NoneHeld DEF Due
    <2> QED  BY <1>7, <1>11, <2>3, <2>5, Executed
  <1>13. CASE ~NoneDue
    <2>1. backend = "sqlite"
      BY <1>1, <1>13 DEF TypeInv, NoneDue
    <2>2. m = 1 => keeps
      <3> SUFFICES ASSUME m = 1
                   PROVE  keeps
        OBVIOUS
      <3>1. s = Stamp(Revision1)
        BY <1>5, DownEnd
      <3>2. s.op = "stamp"
        BY <3>1 DEF Stamp
      <3> QED  BY <2>1, <3>2 DEF Executes
    <2>3. Downs(s, n, keeps, m)
      BY <1>5, <1>6, <1>13, <2>2 DEF Downs
    <2> QED  BY <1>7, <1>11, <2>3, DownHeld, Executed
  <1> QED  BY <1>12, <1>13

LEMMA FirstUndone ==
  ASSUME IInv, command = DownTo(Base),
         NEW s, NEW n, NEW ends, NEW keeps, Executes(s, n, ends, keeps), n <= 3
  PROVE  IInv'
  <1>1. TypeInv /\ Txn /\ ~Idle /\ EndOf(todo, DownAll) /\ command' = command
        /\ n = Len(todo) /\ s = Head(todo) /\ todo' = Tail(todo) /\ Len(todo') = n - 1
        /\ Sound(db) /\ db' = After(db, s) /\ (Idle' <=> n = 1)
    BY DEF IInv, Script, Executes
  <1>2. db.version = Revision1 /\ db.version # Revision2
    BY <1>1, Commands DEF IInv, Script
  <1>3. todo \in Seq(Statement) /\ DownAll \in Seq(Statement) /\ Len(DownAll) = 36
    BY <1>1, DownAllEnd DEF TypeInv
  <1>4. n \in 1..3 /\ s = FromEnd(DownAll, n) /\ (n > 1 => EndOf(todo', DownAll))
    BY <1>1, <1>3, EndOfTail
  <1>5. Sound(db') /\ (n > 1 => db'.version = Revision1)
    <2>1. CASE n = 1
      <3>1. s = Stamp(Base)
        BY <1>4, <2>1, DownAllEnd
      <3>2. db' = After(db, Stamp(Base)) /\ Base \in {Base, Revision1, Revision2}
        BY <1>1, <3>1
      <3>3. Sound(db')
        BY <1>1, <1>2, <3>2, StampCarries, Commands
      <3> QED  BY <2>1, <3>3
    <2>2. CASE n = 2
      <3>1. s = DropTable("notes")
        BY <1>4, <2>2, DownAllEnd
      <3> QED  BY <1>1, <1>2, <3>1, DropStage, Names
    <2>3. CASE n = 3
      <3>1. s = DropTable("note_chunks")
        BY <1>4, <2>3, DownAllEnd
      <3> QED  BY <1>1, <1>2, <3>1, DropStage, Names
    <2> QED  BY <1>4, <2>1, <2>2, <2>3
  <1>6. keeps => kept' = {} /\ keptChunks' = {}
    <2>1. \A ids : StillKept(ids, db') = {}
      BY <1>2 DEF StillKept
    <2> QED  BY <2>1 DEF Executes
  <1>7. keeps => Held(db', kept', keptChunks')
    BY <1>6, NoneHeld
  <1>8. CASE n = 1
    <2>1. keeps
      BY <1>8 DEF Executes
    <2>2. Script'
      BY <1>1, <1>8, ScriptNext
    <2>3. Held(db, Due(kept), Due(keptChunks))'
      BY <1>7, <2>1, DueFewer
    <2> QED  BY <1>5, <1>7, <2>2, <2>3, Executed
  <1>9. CASE n # 1
    <2>1. n > 1 /\ Len(todo') <= 3 /\ ~(Len(todo') > 3)
      BY <1>1, <1>4, <1>9
    <2>2. Script'
      BY <1>1, <1>4, <1>5, <2>1, ScriptToBase
    <2>3. NoneDue'
      BY <1>1, <1>5, <1>9, <2>1 DEF NoneDue, DownTo, Base, Revision1
    <2>4. Held(db, Due(kept), Due(keptChunks))'
      BY <2>3, NoneHeld DEF Due
    <2> QED  BY <1>5, <1>7, <2>2, <2>4, Executed
  <1> QED  BY <1>8, <1>9

LEMMA ExecuteStep ==
  ASSUME IInv, Execute
  PROVE  IInv'
  <1>1. TypeInv
    BY DEF IInv
  <1>2. PICK s, n, ends, keeps : Executes(s, n, ends, keeps)
    BY <1>1, ExecuteIs
  <1>3. command \in {"upgrade", "create_all", DownTo(Revision1), DownTo(Base)} /\ n \in Nat
    BY <1>2 DEF IInv, Script, Executes
  <1>4. n > 3 \/ n <= 3
    BY <1>3
  <1> QED  BY <1>2, <1>3, <1>4, UpgradeExecuted, CreateAllExecuted, DowngradeExecuted,
              SecondUndone, FirstUndone

-----------------------------------------------------------------------------
(* A command begins. *)

LEMMA Begun ==
  ASSUME IInv, NEW name, NEW p \in Seq(Statement), Begin(name, p), Script'
  PROVE  IInv'
  <1>1. /\ Idle /\ p # <<>> /\ todo' = p /\ inTxn' = (backend = "postgresql")
        /\ backend' = backend /\ db' = db /\ committed' = committed
        /\ kept' = kept /\ keptChunks' = keptChunks
    BY DEF Begin
  <1>2. db = committed
    BY <1>1 DEF IInv, Txn
  <1>3. TypeInv'
    BY <1>1 DEF IInv, TypeInv
  <1>4. ~Idle'
    BY <1>1 DEF Idle
  <1>5. Txn'
    BY <1>1, <1>2, <1>4 DEF Txn
  <1>6. Held(db', kept', keptChunks') /\ Held(committed', kept', keptChunks')
    BY <1>1, <1>2 DEF IInv
  <1>7. Held(db, Due(kept), Due(keptChunks))'
    BY <1>6, DueFewer
  <1>8. Sound(db') /\ Sound(committed')
    BY <1>1 DEF IInv
  <1> QED  BY <1>3, <1>5, <1>6, <1>7, <1>8 DEF IInv

LEMMA EmptyBoth ==
  /\ \A p \in Seq(Statement) : <<>> \o p = p /\ p \o <<>> = p
  /\ <<>> \o <<>> = <<>>
  OBVIOUS

LEMMA WholeIsEnd ==
  ASSUME NEW p \in Seq(Statement), NEW n \in Nat, n > 0, Len(p) = n
  PROVE  EndOf(p, p)
  BY DEF EndOf

\* A script with everything left.
LEMMA WholeScript ==
  ASSUME NEW n \in Nat, Len(todo') = n
  PROVE  /\ n >= 26 /\ EndOf(todo', Up) /\ UpFacts(db', n) => UpScript'
         /\ n >= 10 /\ EndOf(todo', Down) /\ DownFacts(db', n) => DownScript(Down, Len(todo))'
         /\ n >= 13 /\ EndOf(todo', DownAll) /\ DownFacts(db', n - 3) =>
              DownScript(DownAll, Len(todo) - 3)'
  <1>1. /\ n >= 26 => ~(Len(todo') < 26)
        /\ n >= 10 => ~(Len(todo') < 10)
        /\ n >= 13 => ~(Len(todo') - 3 < 10)
    OBVIOUS
  <1> QED  BY <1>1 DEF UpScript, DownScript

LEMMA UpBegins ==
  ASSUME NEW d, NEW n \in 28..43, d.version = IF n >= 36 THEN Base ELSE Revision1
  PROVE  UpFacts(d, n)
  <1>1. UpgradingNotes(d, n)
    BY DEF UpgradingNotes, Upgrading
  <1>2. UpgradingChunks(d, n)
    BY DEF UpgradingChunks, Upgrading
  <1> QED  BY <1>1, <1>2 DEF UpFacts

LEMMA DownBegins ==
  ASSUME NEW d, d.version = Revision2
  PROVE  DownFacts(d, 33)
  <1>1. DowngradingNotes(d, 33)
    BY DEF DowngradingNotes, Downgrading
  <1>2. DowngradingChunks(d, 33)
    BY DEF DowngradingChunks, Downgrading
  <1> QED  BY <1>1, <1>2 DEF DownFacts

LEMMA UpgradeBegun ==
  ASSUME IInv, Upgrade
  PROVE  IInv'
  <1> DEFINE second == Upgrade2 \o <<Stamp(Revision2)>>
  <1>1. db.version \in {Base, Revision1, Revision2}
    BY DEF IInv, Sound, Shaped
  <1>2. CASE db.version = Base
    <2>1. Begin("upgrade", Up)
      BY <1>2, Commands DEF Upgrade, Up
    <2>2. todo' = Up /\ command' = "upgrade" /\ db' = db
      BY <2>1 DEF Begin
    <2>3. Up \in Seq(Statement) /\ Len(Up) = 43 /\ EndOf(Up, Up)
      <3>1. Up \in Seq(Statement) /\ Len(Up) = 43
        BY UpEnd
      <3>2. 43 \in Nat /\ 43 > 0
        OBVIOUS
      <3> QED  BY <3>1, <3>2, WholeIsEnd
    <2>4. UpFacts(db, 43)
      <3>1. 43 \in 28..43 /\ 43 >= 36
        OBVIOUS
      <3> QED  BY <1>2, <3>1, UpBegins
    <2>5. UpScript'
      <3>1. 43 \in Nat /\ 43 >= 26 /\ Len(todo') = 43
        BY <2>2, <2>3
      <3> QED  BY <2>2, <2>3, <2>4, <3>1, WholeScript
    <2>6. Script'
      BY <2>2, <2>5, ScriptNext
    <2> QED  BY <2>1, <2>3, <2>6, Begun
  <1>3. CASE db.version = Revision1
    <2>1. /\ second \in Seq(Statement) /\ Len(second) = 35 /\ Len(Up) = 43
          /\ \A n \in 1..35 : FromEnd(second, n) = FromEnd(Up, n)
      BY UpEnd
    <2>2. Begin("upgrade", <<>> \o second)
      BY <1>3, Commands DEF Upgrade
    <2> HIDE DEF second
    <2>3. Begin("upgrade", second)
      BY <2>1, <2>2, EmptyBoth
    <2>4. todo' = second /\ command' = "upgrade" /\ db' = db
      BY <2>3 DEF Begin
    <2>5. EndOf(second, Up)
      BY <2>1 DEF EndOf
    <2>6. UpFacts(db, 35)
      <3>1. 35 \in 28..43 /\ ~(35 >= 36)
        OBVIOUS
      <3> QED  BY <1>3, <3>1, UpBegins
    <2>7. UpScript'
      <3>1. Len(todo') = 35
        BY <2>1, <2>4
      <3>2. 35 \in Nat /\ 35 >= 26
        OBVIOUS
      <3> QED  BY <2>4, <2>5, <2>6, <3>1, <3>2, WholeScript
    <2>8. Script'
      BY <2>4, <2>7, ScriptNext
    <2> QED  BY <2>1, <2>3, <2>8, Begun
  <1>4. CASE db.version = Revision2
    <2>1. Begin("upgrade", <<>> \o <<>>)
      BY <1>4, Commands DEF Upgrade
    <2>2. FALSE
      BY <2>1, EmptyBoth DEF Begin
    <2> QED  BY <2>2
  <1> QED  BY <1>1, <1>2, <1>3, <1>4

LEMMA DowngradeBegun ==
  ASSUME IInv, Downgrade(Revision1)
  PROVE  IInv'
  <1>1. db.version \in {Base, Revision1, Revision2} /\ db.version # Revision1
    BY DEF IInv, Sound, Shaped, Downgrade
  <1>2. CASE db.version = Base
    <2>1. Begin(DownTo(Revision1), <<>> \o <<>>)
      BY <1>2, Commands DEF Downgrade
    <2>2. FALSE
      BY <2>1, EmptyBoth DEF Begin
    <2> QED  BY <2>2
  <1>3. CASE db.version = Revision2
    <2>1. Down \in Seq(Statement) /\ Len(Down) = 33 /\ EndOf(Down, Down)
      <3>1. Down \in Seq(Statement) /\ Len(Down) = 33
        BY DownEnd
      <3>2. 33 \in Nat /\ 33 > 0
        OBVIOUS
      <3> QED  BY <3>1, <3>2, WholeIsEnd
    <2>2. Begin(DownTo(Revision1), Down \o <<>>)
      BY <1>3, Commands DEF Downgrade, Down
    <2>3. Begin(DownTo(Revision1), Down)
      BY <2>1, <2>2, EmptyBoth
    <2>4. todo' = Down /\ command' = DownTo(Revision1) /\ db' = db
      BY <2>3 DEF Begin
    <2>5. DownScript(Down, Len(todo))'
      <3>1. Len(todo') = 33 /\ EndOf(todo', Down)
        BY <2>1, <2>4
      <3>2. DownFacts(db', 33)
        BY <1>3, <2>4, DownBegins
      <3>3. 33 \in Nat /\ 33 >= 10
        OBVIOUS
      <3> QED  BY <3>1, <3>2, <3>3, WholeScript
    <2>6. Script'
      BY <2>4, <2>5, ScriptNext
    <2> QED  BY <2>1, <2>3, <2>6, Begun
  <1> QED  BY <1>1, <1>2, <1>3

LEMMA DowngradeToBaseBegun ==
  ASSUME IInv, Downgrade(Base)
  PROVE  IInv'
  <1> DEFINE last == Downgrade1 \o <<Stamp(Base)>>
  <1>1. db.version \in {Revision1, Revision2}
    BY DEF IInv, Sound, Shaped, Downgrade
  <1>2. CASE db.version = Revision1
    <2>1. /\ last \in Seq(Statement) /\ Len(last) = 3 /\ Len(DownAll) = 36
          /\ \A n \in 1..3 : FromEnd(last, n) = FromEnd(DownAll, n)
      BY DownAllEnd
    <2>2. Begin(DownTo(Base), <<>> \o last)
      BY <1>2, Commands DEF Downgrade
    <2> HIDE DEF last
    <2>3. Begin(DownTo(Base), last)
      BY <2>1, <2>2, EmptyBoth
    <2>4. todo' = last /\ command' = DownTo(Base) /\ db' = db
      BY <2>3 DEF Begin
    <2>5. EndOf(last, DownAll)
      BY <2>1 DEF EndOf
    <2>6. ~(Len(todo') > 3)
      <3>1. Len(todo') = 3
        BY <2>1, <2>4
      <3> QED  BY <3>1
    <2>7. Script'
      BY <1>2, <2>4, <2>5, <2>6, ScriptToBase
    <2> QED  BY <2>1, <2>3, <2>7, Begun
  <1>3. CASE db.version = Revision2
    <2>1. DownAll \in Seq(Statement) /\ Len(DownAll) = 36 /\ EndOf(DownAll, DownAll)
      <3>1. DownAll \in Seq(Statement) /\ Len(DownAll) = 36
        BY DownAllEnd
      <3>2. 36 \in Nat /\ 36 > 0
        OBVIOUS
      <3> QED  BY <3>1, <3>2, WholeIsEnd
    <2>2. Begin(DownTo(Base), Down \o last)
      BY <1>3, Commands DEF Downgrade, Down
    <2>3. Begin(DownTo(Base), DownAll)
      BY <2>2 DEF DownAll
    <2>4. todo' = DownAll /\ command' = DownTo(Base) /\ db' = db
      BY <2>3 DEF Begin
    <2>5. Len(todo') = 36 /\ EndOf(todo', DownAll)
      BY <2>1, <2>4
    <2>6. DownScript(DownAll, Len(todo) - 3)'
      <3>1. DownFacts(db', 33)
        BY <1>3, <2>4, DownBegins
      <3>2. 36 \in Nat /\ 36 >= 13 /\ 36 - 3 = 33
        OBVIOUS
      <3>3. DownFacts(db', 36 - 3)
        BY <3>1, <3>2
      <3> QED  BY <2>5, <3>2, <3>3, WholeScript
    <2>7. ~(Len(todo') <= 3)
      <3>1. Len(todo') = 36
        BY <2>5
      <3> QED  BY <3>1
    <2>8. Script'
      BY <2>4, <2>5, <2>6, <2>7, ScriptToBase
    <2> QED  BY <2>1, <2>3, <2>8, Begun
  <1> QED  BY <1>1, <1>2, <1>3

LEMMA StartAppBegun ==
  ASSUME IInv, StartApp
  PROVE  IInv'
  <1> DEFINE p == CreateAll(db)
  <1>1. Begin("create_all", p) /\ p # <<>>
    BY DEF StartApp, Begin
  <1>2. p \in Seq(Statement) /\ MakeFacts(db, p)
    BY <1>1, MakeStart
  <1> HIDE DEF p
  <1>3. todo' = p /\ command' = "create_all" /\ db' = db
    BY <1>1 DEF Begin
  <1>4. Script'
    BY <1>2, <1>3, ScriptNext
  <1> QED  BY <1>1, <1>2, <1>4, Begun

-----------------------------------------------------------------------------
(* A command stops. *)

LEMMA Abandoned ==
  ASSUME IInv, Abandon
  PROVE  IInv'
  <1>1. /\ db' = committed /\ todo' = <<>> /\ inTxn' = FALSE /\ backend' = backend
        /\ committed' = committed /\ kept' = kept /\ keptChunks' = keptChunks
    BY DEF Abandon
  <1>2. Idle'
    BY <1>1 DEF Idle
  <1>3. TypeInv'
    <2>1. <<>> \in Seq(Statement)
      OBVIOUS
    <2>2. backend \in {"postgresql", "sqlite"}
      BY DEF IInv, TypeInv
    <2> QED  BY <1>1, <2>1, <2>2 DEF TypeInv
  <1>4. Txn'
    BY <1>1, <1>2 DEF Txn
  <1>5. Held(db', kept', keptChunks') /\ Held(committed', kept', keptChunks')
    BY <1>1 DEF IInv
  <1>6. Sound(db') /\ Sound(committed')
    BY <1>1 DEF IInv
  <1> QED  BY <1>2, <1>3, <1>4, <1>5, <1>6, DueFewer, ScriptNext DEF IInv

-----------------------------------------------------------------------------
(* The application replaces the notes of a vault. *)

VaultOf(d, v) == Has(d, "vaults") /\ \E x \in d.tables["vaults"].rows : x.vault = v

\* The table t of e has other rows, and nothing else is changed.
Replaced(d, e, t, rows) ==
  /\ Shaped(e) /\ e.version = d.version /\ e.indexes = d.indexes
  /\ DOMAIN e.tables = DOMAIN d.tables
  /\ e.tables[t].key = d.tables[t].key /\ e.tables[t].refs = d.tables[t].refs
  /\ e.tables[t].rows = rows
  /\ \A u \in DOMAIN d.tables : u # t => e.tables[u] = d.tables[u]

LEMMA RowsReplaced ==
  ASSUME NEW d, Shaped(d), NEW t, Has(d, t), NEW rows,
         NEW e, e = [d EXCEPT !.tables[t].rows = rows]
  PROVE  Replaced(d, e, t, rows)
  <1> DEFINE T == [d.tables EXCEPT ![t].rows = rows]
  <1>1. e = [d EXCEPT !.tables = T]
    OBVIOUS
  <1>2. /\ DOMAIN T = DOMAIN d.tables
        /\ T[t] = [d.tables[t] EXCEPT !.rows = rows]
        /\ \A u \in DOMAIN d.tables : u # t => T[u] = d.tables[u]
    BY DEF Has
  <1>3. DOMAIN d.tables[t] = {"key", "refs", "rows"}
    BY DEF Shaped, Has
  <1> HIDE DEF T
  <1>4. /\ T[t].key = d.tables[t].key /\ T[t].refs = d.tables[t].refs /\ T[t].rows = rows
        /\ DOMAIN T[t] = {"key", "refs", "rows"}
    BY <1>2, <1>3
  <1>5. e.tables = T /\ e.version = d.version /\ e.indexes = d.indexes
        /\ DOMAIN e = {"tables", "indexes", "version"}
    BY <1>1 DEF Shaped
  <1>6. Shaped(e)
    BY <1>2, <1>4, <1>5 DEF Shaped
  <1> QED  BY <1>2, <1>4, <1>5, <1>6 DEF Replaced

StoredRows(v, ids) == {[id |-> i, vault |-> v, note |-> i[2]] : i \in ids}
Stored(d, t, v, ids) == {r \in d.tables[t].rows : r.vault # v} \cup StoredRows(v, ids)

\* e is d with the notes of the vault v replaced.
Stores(d, e, v, ids) ==
  /\ Shaped(e) /\ e.version = d.version /\ e.indexes = d.indexes
  /\ \A u : /\ Has(e, u) <=> Has(d, u)
            /\ \A key : HasKey(e, u, key) <=> HasKey(d, u, key)
  /\ \A u \in {"notes", "note_chunks"} :
       /\ HasKey(d, u, ScopedKey)
       /\ e.tables[u].rows = Stored(d, u, v, ids)
  /\ \A u \in Stages : u \notin {"notes", "note_chunks"} => SameTable(d, e, u)
  /\ e.tables["note_chunks"].refs = d.tables["note_chunks"].refs
  /\ VaultOf(e, v) /\ \A w : VaultOf(d, w) => VaultOf(e, w)

LEMMA StoreEffect ==
  ASSUME NEW d, Shaped(d), Has(d, "vaults"), HasKey(d, "notes", ScopedKey),
         HasKey(d, "note_chunks", ScopedKey), NEW v, NEW ids,
         NEW rows, d.tables["vaults"].rows \subseteq rows, \E x \in rows : x.vault = v, NEW e,
         e = [d EXCEPT !.tables["vaults"].rows = rows,
                       !.tables["notes"].rows = Stored(d, "notes", v, ids),
                       !.tables["note_chunks"].rows = Stored(d, "note_chunks", v, ids)]
  PROVE  Stores(d, e, v, ids)
  <1> DEFINE N == Stored(d, "notes", v, ids)
             C == Stored(d, "note_chunks", v, ids)
             d1 == [d EXCEPT !.tables["vaults"].rows = rows]
             d2 == [d1 EXCEPT !.tables["notes"].rows = N]
  <1> HIDE DEF N, C
  <1>1. e = [d2 EXCEPT !.tables["note_chunks"].rows = C]
    BY DEF N, C
  <1>2. Replaced(d, d1, "vaults", rows)
    BY RowsReplaced
  <1> HIDE DEF d1
  <1>3. Has(d1, "notes") /\ Has(d1, "note_chunks") /\ Shaped(d1)
    BY <1>2 DEF Replaced, Has, HasKey
  <1>4. Replaced(d1, d2, "notes", N)
    BY <1>3, RowsReplaced
  <1> HIDE DEF d2
  <1>5. Has(d2, "note_chunks") /\ Shaped(d2)
    BY <1>3, <1>4 DEF Replaced, Has
  <1>6. Replaced(d2, e, "note_chunks", C)
    BY <1>1, <1>5, RowsReplaced
  <1>7. /\ Shaped(e) /\ e.version = d.version /\ e.indexes = d.indexes
        /\ DOMAIN e.tables = DOMAIN d.tables
    BY <1>2, <1>4, <1>6 DEF Replaced
  <1>8. /\ "notes" \in DOMAIN d.tables /\ "note_chunks" \in DOMAIN d.tables
        /\ "vaults" \in DOMAIN d.tables
        /\ DOMAIN d1.tables = DOMAIN d.tables /\ DOMAIN d2.tables = DOMAIN d.tables
    BY <1>2, <1>4 DEF Replaced, Has, HasKey
  <1>9. \A u \in DOMAIN d.tables : u \notin {"vaults", "notes", "note_chunks"} =>
          e.tables[u] = d.tables[u]
    BY <1>2, <1>4, <1>6, <1>8 DEF Replaced
  <1>10. /\ e.tables["notes"].rows = N /\ e.tables["notes"].key = d.tables["notes"].key
         /\ e.tables["note_chunks"].rows = C
         /\ e.tables["note_chunks"].key = d.tables["note_chunks"].key
         /\ e.tables["vaults"].key = d.tables["vaults"].key
    BY <1>2, <1>4, <1>6, <1>8 DEF Replaced
  <1>11. \A u \in DOMAIN d.tables : e.tables[u].key = d.tables[u].key
    BY <1>9, <1>10
  <1>12. \A u : /\ Has(e, u) <=> Has(d, u)
                /\ \A key : HasKey(e, u, key) <=> HasKey(d, u, key)
    BY <1>7, <1>11 DEF Has, HasKey
  <1>13. \A u \in Stages : u \notin {"notes", "note_chunks"} => SameTable(d, e, u)
    BY <1>7, <1>9, Names DEF SameTable, Has
  <1>14. e.tables["note_chunks"].refs = d.tables["note_chunks"].refs
         /\ e.tables["vaults"].rows = rows
    BY <1>2, <1>4, <1>6, <1>8 DEF Replaced
  <1>15. VaultOf(e, v) /\ \A w : VaultOf(d, w) => VaultOf(e, w)
    BY <1>7, <1>8, <1>14 DEF VaultOf, Has
  <1> QED  BY <1>7, <1>10, <1>12, <1>13, <1>14, <1>15 DEF Stores, N, C

LEMMA StoreSound ==
  ASSUME NEW d, Sound(d), NEW e, NEW v, NEW ids, Stores(d, e, v, ids), \A i \in ids : i[1] = v
  PROVE  Sound(e)
  <1>1. \A u \in {"notes", "note_chunks"} : Keyed(e, u)
    <2> SUFFICES ASSUME NEW u \in {"notes", "note_chunks"}
                 PROVE  Keyed(e, u)
      OBVIOUS
    <2>1. HasKey(d, u, ScopedKey) /\ HasKey(e, u, ScopedKey)
          /\ e.tables[u].rows = Stored(d, u, v, ids)
      BY DEF Stores
    <2>2. \A r \in d.tables[u].rows : r.vault = r.id[1]
      <3>1. Keyed(d, u)
        BY Names DEF Sound
      <3> QED  BY <2>1, <3>1, Keys DEF Keyed, HasKey
    <2>3. \A r \in StoredRows(v, ids) : r.vault = r.id[1]
      BY DEF StoredRows
    <2>4. \A r \in e.tables[u].rows : r.vault = r.id[1]
      BY <2>1, <2>2, <2>3 DEF Stored
    <2> QED  BY <2>1, <2>4 DEF Keyed, HasKey
  <1>2. \A u \in Stages : Keyed(e, u)
    <2> SUFFICES ASSUME NEW u \in Stages, u \notin {"notes", "note_chunks"}
                 PROVE  Keyed(e, u)
      BY <1>1
    <2>1. SameTable(d, e, u) /\ Keyed(d, u)
      BY DEF Stores, Sound
    <2> QED  BY <2>1, SameRows
  <1>3. Behind(e)
    BY DEF Stores, Sound, Behind
  <1>4. \A i, u : IndexOn(d, i, u) => IndexOn(e, i, u)
    BY DEF Stores, IndexOn
  <1>5. AtHead(e)
    BY <1>4 DEF Stores, Sound, AtHead
  <1> QED  BY <1>2, <1>3, <1>5 DEF Sound, Stores

\* One family of tables keeps the rows of the other vaults and has the new ones.
LEMMA StoreFamily ==
  ASSUME NEW d, Sound(d), NEW e, NEW v, NEW ids, Stores(d, e, v, ids),
         NEW t \in {"notes", "note_chunks"}, NEW T \in {NoteTables, ChunkTables}, t \in T,
         \A u \in T : u # t => u \notin {"notes", "note_chunks"},
         NEW K, K \subseteq Rows(d, T)
  PROVE  {i \in K : i[1] # v} \cup ids \subseteq Rows(e, T)
  <1>1. HasKey(d, t, ScopedKey) /\ HasKey(e, t, ScopedKey)
        /\ e.tables[t].rows = Stored(d, t, v, ids)
    BY DEF Stores
  <1>2. \A r \in d.tables[t].rows : r.vault = r.id[1]
    <2>1. Keyed(d, t)
      BY Names DEF Sound
    <2> QED  BY <1>1, <2>1, Keys DEF Keyed, HasKey
  <1>3. IdsIn(e, t) = {r.id : r \in Stored(d, t, v, ids)}
    BY <1>1 DEF IdsIn, HasKey, Has
  <1>4. ASSUME NEW i \in ids
        PROVE  i \in Rows(e, T)
    <2>1. [id |-> i, vault |-> v, note |-> i[2]] \in Stored(d, t, v, ids)
      BY DEF Stored, StoredRows
    <2>2. [id |-> i, vault |-> v, note |-> i[2]].id = i
      OBVIOUS
    <2>3. i \in IdsIn(e, t)
      BY <1>3, <2>1, <2>2
    <2> QED  BY <2>3 DEF Rows
  <1>5. ASSUME NEW i \in K, i[1] # v
        PROVE  i \in Rows(e, T)
    <2>1. PICK u \in T : i \in IdsIn(d, u)
      BY DEF Rows
    <2>2. CASE u = t
      <3>1. PICK r \in d.tables[t].rows : r.id = i
        BY <1>1, <2>1, <2>2 DEF IdsIn, HasKey, Has
      <3>2. r \in Stored(d, t, v, ids)
        BY <1>2, <1>5, <3>1 DEF Stored
      <3>3. i \in IdsIn(e, t)
        BY <1>3, <3>1, <3>2
      <3> QED  BY <3>3 DEF Rows
    <2>3. CASE u # t
      <3>1. u \in Stages /\ u \notin {"notes", "note_chunks"}
        BY <2>3, Families
      <3>2. SameTable(d, e, u)
        BY <3>1 DEF Stores
      <3>3. i \in IdsIn(e, u)
        BY <2>1, <3>2, SameRows
      <3> QED  BY <3>3 DEF Rows
    <2> QED  BY <2>2, <2>3
  <1> QED  BY <1>4, <1>5

LEMMA StoreHeld ==
  ASSUME NEW d, Sound(d), NEW e, NEW v, NEW ids, Stores(d, e, v, ids),
         NEW N, NEW C, Held(d, N, C)
  PROVE  Held(e, {i \in N : i[1] # v} \cup ids, {i \in C : i[1] # v} \cup ids)
  <1>1. {i \in N : i[1] # v} \cup ids \subseteq Rows(e, NoteTables)
    <2>1. /\ "notes" \in NoteTables
          /\ \A u \in NoteTables : u # "notes" => u \notin {"notes", "note_chunks"}
      BY DEF NoteTables
    <2>2. N \subseteq Rows(d, NoteTables)
      BY DEF Held
    <2> QED  BY <2>1, <2>2, StoreFamily
  <1>2. {i \in C : i[1] # v} \cup ids \subseteq Rows(e, ChunkTables)
    <2>1. /\ "note_chunks" \in ChunkTables
          /\ \A u \in ChunkTables : u # "note_chunks" => u \notin {"notes", "note_chunks"}
      BY DEF ChunkTables
    <2>2. C \subseteq Rows(d, ChunkTables)
      BY DEF Held
    <2> QED  BY <2>1, <2>2, StoreFamily
  <1> QED  BY <1>1, <1>2 DEF Held

\* Outside a transaction, a script does not mind.
LEMMA StoreUp ==
  ASSUME NEW d, NEW e, NEW v, NEW ids, Stores(d, e, v, ids),
         NEW n \in 26..43, UpFacts(d, n)
  PROVE  UpFacts(e, n)
  <1>1. e.version = d.version /\ (Has(d, "vaults") => Has(e, "vaults"))
        /\ \A u, key : HasKey(e, u, key) => HasKey(d, u, key)
    BY DEF Stores
  <1>2. UpgradingNotes(e, n)
    BY <1>1 DEF UpFacts, UpgradingNotes, Upgrading
  <1>3. UpgradingChunks(e, n)
    BY <1>1 DEF UpFacts, UpgradingChunks, Upgrading
  <1> QED  BY <1>1, <1>2, <1>3 DEF UpFacts

LEMMA StoreDown ==
  ASSUME NEW d, NEW e, NEW v, NEW ids, Stores(d, e, v, ids),
         NEW n \in 10..33, DownFacts(d, n)
  PROVE  DownFacts(e, n)
  <1>1. e.version = d.version /\ e.indexes = d.indexes
    BY DEF Stores
  <1>2. \A u, key : HasKey(d, u, key) => HasKey(e, u, key)
    BY DEF Stores
  <1>3. DowngradingNotes(e, n)
    BY <1>1, <1>2 DEF DownFacts, DowngradingNotes, Downgrading
  <1>4. DowngradingChunks(e, n)
    BY <1>1, <1>2 DEF DownFacts, DowngradingChunks, Downgrading
  <1> QED  BY <1>1, <1>3, <1>4 DEF DownFacts

LEMMA StoreMake ==
  ASSUME NEW d, NEW e, NEW v, NEW ids, Stores(d, e, v, ids), NEW p, MakeFacts(d, p)
  PROVE  MakeFacts(e, p)
  <1>1. \A u, key : HasKey(d, u, key) => HasKey(e, u, key)
    BY DEF Stores
  <1>2. \A u : Has(d, u) => Has(e, u)
    BY DEF Stores
  <1> QED  BY <1>1, <1>2 DEF MakeFacts

LEMMA StoreIs ==
  ASSUME IInv, NEW v, NEW notes, StoreNotes(v, notes)
  PROVE  \E ids : /\ \A i \in ids : i[1] = v
                  /\ Stores(db, db', v, ids) /\ committed' = db'
                  /\ kept' = {i \in kept : i[1] # v} \cup ids
                  /\ keptChunks' = {i \in keptChunks : i[1] # v} \cup ids
                  /\ db = committed /\ ~inTxn /\ inTxn' = inTxn /\ (backend = "postgresql" => Idle)
                  /\ todo' = todo /\ command' = command /\ backend' = backend
  <1> DEFINE ids == {<<v, n, writes + 1>> : n \in notes}
             old == committed.tables["vaults"].rows
             rows == IF \E r \in old : r.vault = v THEN old
                     ELSE old \cup {[id |-> <<v>>, vault |-> v]}
  <1>1. db = committed /\ ~inTxn /\ inTxn' = inTxn /\ (backend = "postgresql" => Idle)
        /\ todo' = todo /\ command' = command /\ backend' = backend /\ db' = committed'
    BY DEF StoreNotes, IInv, Txn
  <1>2. Has(db, "vaults") /\ HasKey(db, "notes", ScopedKey)
        /\ HasKey(db, "note_chunks", ScopedKey) /\ Shaped(db)
    BY <1>1 DEF StoreNotes, Has, HasKey, IInv, Sound
  <1>3. kept' = {i \in kept : i[1] # v} \cup ids
        /\ keptChunks' = {i \in keptChunks : i[1] # v} \cup ids
    BY DEF StoreNotes
  <1>4. \A i \in ids : i[1] = v
    OBVIOUS
  <1>5. committed' = [committed EXCEPT
                        !.tables["vaults"].rows = rows,
                        !.tables["notes"].rows = Stored(committed, "notes", v, ids),
                        !.tables["note_chunks"].rows = Stored(committed, "note_chunks", v, ids)]
    BY DEF StoreNotes, Stored, StoredRows
  <1>6. old \subseteq rows /\ \E x \in rows : x.vault = v
    <2>1. CASE \E r \in old : r.vault = v
      BY <2>1
    <2>2. CASE ~\E r \in old : r.vault = v
      <3>1. [id |-> <<v>>, vault |-> v] \in rows /\ [id |-> <<v>>, vault |-> v].vault = v
        BY <2>2
      <3> QED  BY <2>2, <3>1
    <2> QED  BY <2>1, <2>2
  <1> HIDE DEF ids, rows
  <1>7. Stores(db, db', v, ids)
    BY <1>1, <1>2, <1>5, <1>6, StoreEffect
  <1> QED  BY <1>1, <1>3, <1>4, <1>7

LEMMA StoreStep ==
  ASSUME IInv, NEW v, NEW notes, StoreNotes(v, notes)
  PROVE  IInv'
  <1>1. PICK ids : /\ \A i \in ids : i[1] = v
                   /\ Stores(db, db', v, ids) /\ committed' = db'
                   /\ kept' = {i \in kept : i[1] # v} \cup ids
                   /\ keptChunks' = {i \in keptChunks : i[1] # v} \cup ids
                   /\ db = committed /\ ~inTxn /\ inTxn' = inTxn
                   /\ (backend = "postgresql" => Idle)
                   /\ todo' = todo /\ command' = command /\ backend' = backend
    BY StoreIs
  <1>2. TypeInv /\ Sound(db) /\ Txn /\ Script /\ Held(db, kept, keptChunks)
    BY <1>1 DEF IInv
  <1>3. Sound(db') /\ Sound(committed')
    BY <1>1, <1>2, StoreSound
  <1>4. Held(db', kept', keptChunks')
    BY <1>1, <1>2, StoreHeld
  <1>5. Held(committed', kept', keptChunks')
    BY <1>1, <1>4
  <1>6. Held(db, Due(kept), Due(keptChunks))'
    BY <1>4, DueFewer
  <1>7. TypeInv'
    BY <1>1, <1>2 DEF TypeInv
  <1>8. Txn'
    BY <1>1, <1>2 DEF Txn, Idle
  <1>9. Idle' <=> Idle
    BY <1>1 DEF Idle
  <1>10. db'.version = db.version
    BY <1>1 DEF Stores
  <1>11. ASSUME NEW m \in 1..33, DownFacts(db, m), m < 10 => inTxn
         PROVE  DownFacts(db', m) /\ ~(m < 10)
    <2>1. m \in 10..33
      BY <1>1, <1>11
    <2> QED  BY <1>1, <1>11, <2>1, StoreDown
  <1>12. Script'
    <2>1. CASE Idle
      BY <1>9, <2>1, ScriptNext
    <2>2. CASE ~Idle /\ command = "upgrade"
      <3>1. UpScript
        BY <1>2, <2>2 DEF Script
      <3>2. Len(todo) \in 1..43
        BY <3>1, UpEnd DEF UpScript, EndOf
      <3>3. Len(todo) \in 26..43
        <4>1. ~(Len(todo) < 26)
          BY <1>1, <3>1 DEF UpScript
        <4>2. \A n \in 1..43 : ~(n < 26) => n \in 26..43
          OBVIOUS
        <4> QED  BY <3>2, <4>1, <4>2
      <3>4. UpFacts(db', Len(todo))
        BY <1>1, <3>1, <3>3, StoreUp DEF UpScript
      <3>5. UpScript'
        BY <1>1, <3>1, <3>4 DEF UpScript
      <3> QED  BY <1>1, <2>2, <3>5, ScriptNext
    <2>3. CASE ~Idle /\ command = "create_all"
      <3>1. MakeFacts(db', todo)
        BY <1>1, <1>2, <2>3, StoreMake DEF Script
      <3> QED  BY <1>1, <2>3, <3>1, ScriptNext
    <2>4. CASE ~Idle /\ command = DownTo(Revision1)
      <3>1. DownScript(Down, Len(todo))
        BY <1>2, <2>4 DEF Script
      <3>2. Len(todo) \in 1..33
        BY <3>1, DownEnd DEF DownScript, EndOf
      <3>3. DownFacts(db', Len(todo)) /\ ~(Len(todo) < 10)
        BY <1>11, <3>1, <3>2 DEF DownScript
      <3>4. DownScript(Down, Len(todo))'
        BY <1>1, <3>1, <3>3 DEF DownScript
      <3> QED  BY <1>1, <2>4, <3>4, ScriptNext
    <2>5. CASE ~Idle /\ command = DownTo(Base)
      <3>1. EndOf(todo, DownAll)
        BY <1>2, <2>5 DEF Script
      <3>2. Len(todo') > 3 => DownScript(DownAll, Len(todo) - 3)'
        <4> SUFFICES ASSUME Len(todo') > 3
                     PROVE  DownScript(DownAll, Len(todo) - 3)'
          OBVIOUS
        <4>1. Len(todo) > 3
          BY <1>1
        <4>2. DownScript(DownAll, Len(todo) - 3)
          BY <1>2, <2>5, <4>1 DEF Script
        <4>3. Len(todo) - 3 \in 1..33
          <5>1. Len(todo) \in 1..36
            BY <3>1, DownAllEnd DEF EndOf
          <5>2. \A n \in 1..36 : n > 3 => n - 3 \in 1..33
            OBVIOUS
          <5> QED  BY <4>1, <5>1, <5>2
        <4>4. DownFacts(db', Len(todo) - 3) /\ ~(Len(todo) - 3 < 10)
          BY <1>11, <4>2, <4>3 DEF DownScript
        <4> QED  BY <1>1, <3>1, <4>4 DEF DownScript
      <3>3. Len(todo') <= 3 => db'.version = Revision1
        BY <1>1, <1>2, <1>10, <2>5 DEF Script
      <3> QED  BY <1>1, <2>5, <3>1, <3>2, <3>3, ScriptToBase
    <2> QED  BY <1>2, <2>1, <2>2, <2>3, <2>4, <2>5 DEF Script
  <1> QED  BY <1>3, <1>5, <1>6, <1>7, <1>8, <1>12 DEF IInv

-----------------------------------------------------------------------------
(* The first databases. *)

LEMMA EmptySound ==
  Sound(Empty) /\ Held(Empty, {}, {})
  <1>1. /\ DOMAIN Empty = {"tables", "indexes", "version"} /\ DOMAIN Empty.tables = {}
        /\ Empty.version = Base /\ DOMAIN Empty.indexes = {}
    BY DEF Empty
  <1>2. \A t : ~Has(Empty, t)
    BY <1>1 DEF Has
  <1>3. Shaped(Empty)
    BY <1>1 DEF Shaped
  <1>4. Behind(Empty) /\ AtHead(Empty)
    BY <1>1, <1>2, Commands DEF Behind, AtHead, HasKey
  <1> QED  BY <1>2, <1>3, <1>4, NoneHeld DEF Sound, Keyed

LEMMA FirstReleaseSound ==
  ASSUME NEW N, NEW C, \A i \in N \cup C : i[1] = Default
  PROVE  Sound(FirstRelease(N, C)) /\ Held(FirstRelease(N, C), N, C)
  <1> DEFINE d == FirstRelease(N, C)
             ids(t) == IF t = "notes" THEN N ELSE C
             rows(t) == {[id |-> i, note |-> i[2]] : i \in ids(t)}
  <1>1. /\ DOMAIN d = {"tables", "indexes", "version"}
        /\ DOMAIN d.tables = {"notes", "note_chunks"} /\ d.version = Revision1
    BY DEF FirstRelease
  <1>2. \A t \in {"notes", "note_chunks"} :
          /\ DOMAIN d.tables[t] = {"key", "refs", "rows"}
          /\ d.tables[t].key = {"note"} /\ d.tables[t].rows = rows(t)
    BY DEF FirstRelease
  <1>3. \A t \in {"notes", "note_chunks"} : \A r \in rows(t) : r.id[1] = Default
    OBVIOUS
  <1>4. \A t : \A i \in ids(t) : \E r \in rows(t) : r.id = i
    <2> SUFFICES ASSUME NEW t, NEW i \in ids(t)
                 PROVE  \E r \in rows(t) : r.id = i
      OBVIOUS
    <2>1. [id |-> i, note |-> i[2]] \in rows(t) /\ [id |-> i, note |-> i[2]].id = i
      OBVIOUS
    <2> QED  BY <2>1
  <1> HIDE DEF d, rows, ids
  <1>5. Shaped(d)
    BY <1>1, <1>2 DEF Shaped
  <1>6. \A t : Has(d, t) <=> t \in {"notes", "note_chunks"}
    BY <1>1 DEF Has
  <1>7. \A t \in Stages : Keyed(d, t)
    BY <1>2, <1>3, <1>6 DEF Keyed
  <1>8. \A t : ~HasKey(d, t, ScopedKey)
    BY <1>2, <1>6, Keys DEF HasKey
  <1>9. Behind(d) /\ AtHead(d)
    BY <1>1, <1>8, Commands DEF Behind, AtHead
  <1>10. \A t \in {"notes", "note_chunks"} : ids(t) \subseteq IdsIn(d, t)
    <2> SUFFICES ASSUME NEW t \in {"notes", "note_chunks"}, NEW i \in ids(t)
                 PROVE  i \in IdsIn(d, t)
      OBVIOUS
    <2>1. PICK r \in d.tables[t].rows : r.id = i
      BY <1>2, <1>4
    <2> QED  BY <1>6, <2>1 DEF IdsIn, Has
  <1>11. N \subseteq IdsIn(d, "notes") /\ C \subseteq IdsIn(d, "note_chunks")
    BY <1>10 DEF ids
  <1>12. Held(d, N, C)
    BY <1>11 DEF Held, Rows, NoteTables, ChunkTables
  <1> QED  BY <1>5, <1>7, <1>9, <1>12 DEF Sound, d

LEMMA InitInv ==
  Init => IInv
  <1> SUFFICES ASSUME Init
               PROVE  IInv
    OBVIOUS
  <1>1. Sound(db) /\ Held(db, kept, keptChunks)
    <2>1. CASE db = Empty /\ kept = {} /\ keptChunks = {}
      BY <2>1, EmptySound
    <2>2. CASE \E N \in SUBSET NoteIds : \E C \in SUBSET N :
                 /\ kept = {<<Default, n, 0>> : n \in N}
                 /\ keptChunks = {<<Default, n, 0>> : n \in C}
                 /\ db = FirstRelease(kept, keptChunks)
      <3>1. \A i \in kept \cup keptChunks : i[1] = Default
        BY <2>2
      <3>2. db = FirstRelease(kept, keptChunks)
        BY <2>2
      <3> QED  BY <3>1, <3>2, FirstReleaseSound
    <2> QED  BY <2>1, <2>2 DEF Init
  <1>2. committed = db /\ inTxn = FALSE /\ todo = <<>> /\ backend \in {"postgresql", "sqlite"}
    BY DEF Init
  <1>3. Idle /\ TypeInv
    <2>1. <<>> \in Seq(Statement)
      OBVIOUS
    <2> QED  BY <1>2, <2>1 DEF Idle, TypeInv
  <1>4. Txn /\ Script
    BY <1>2, <1>3 DEF Txn, Script
  <1>5. Due(kept) = kept /\ Due(keptChunks) = keptChunks
    BY <1>3 DEF Due, NoneDue, DefaultsDue
  <1> QED  BY <1>1, <1>2, <1>3, <1>4, <1>5 DEF IInv

LEMMA UnchangedInv ==
  ASSUME IInv, UNCHANGED vars
  PROVE  IInv'
  BY DEF IInv, vars, TypeInv, Txn, Idle, Script, UpScript, DownScript, Due, NoneDue,
         DefaultsDue, Sound, Shaped, Keyed, Behind, AtHead, Has, HasKey, IndexOn

LEMMA NextInv ==
  ASSUME IInv, Next
  PROVE  IInv'
  <1>1. CASE Upgrade
    BY <1>1, UpgradeBegun
  <1>2. CASE Downgrade(Base)
    BY <1>2, DowngradeToBaseBegun
  <1>3. CASE Downgrade(Revision1)
    BY <1>3, DowngradeBegun
  <1>4. CASE StartApp
    BY <1>4, StartAppBegun
  <1>5. CASE Execute
    BY <1>5, ExecuteStep
  <1>6. CASE Refuse
    BY <1>6, Abandoned DEF Refuse
  <1>7. CASE Crash
    BY <1>7, Abandoned DEF Crash
  <1>8. CASE \E v \in Vaults, notes \in SUBSET NoteIds : StoreNotes(v, notes)
    BY <1>8, StoreStep
  <1> QED  BY <1>1, <1>2, <1>3, <1>4, <1>5, <1>6, <1>7, <1>8 DEF Next

THEOREM NoRowLostAlways == Spec => []NoRowLost
  <1>1. IInv /\ [Next]_vars => IInv'
    BY NextInv, UnchangedInv
  <1> QED  BY <1>1, InitInv, RowsHeld, PTL DEF Spec

-----------------------------------------------------------------------------
(* Rows in place.  While no command has stopped half way and create_all has *)
(* made nothing below head, the database has no row but those to keep.      *)

Calm == ~torn /\ ~mixed

\* A row names the note its id was given for.
Noted(d) == \A t \in Stages : Has(d, t) => \A r \in d.tables[t].rows : r.note = r.id[2]
Within(d, N, C) ==
  Rows(d, NoteTables) \subseteq N /\ Rows(d, ChunkTables) \subseteq C /\ Noted(d)
AllDefault(N) == \A i \in N : i[1] = Default
Refers(d, refs) == Has(d, "note_chunks") /\ d.tables["note_chunks"].refs = refs
Clean(d) ==
  /\ ~Has(d, "notes_legacy") /\ ~Has(d, "note_chunks_legacy")
  /\ ~Has(d, "notes_scoped") /\ ~Has(d, "note_chunks_scoped")

\* A database between two commands.
Settled(d, N, C) ==
  /\ Clean(d) /\ Within(d, N, C)
  /\ d.version = Base => ~Has(d, "notes")
  /\ d.version = Revision1 => /\ HasKey(d, "notes", {"note"})
                              /\ HasKey(d, "note_chunks", {"note"}) /\ Refers(d, ChunkRefs)
  /\ d.version = Revision2 => /\ HasKey(d, "notes", ScopedKey)
                              /\ HasKey(d, "note_chunks", ScopedKey) /\ Refers(d, OfNote)
                              /\ \A i \in N : VaultOf(d, i[1])
  /\ d.version # Revision2 => AllDefault(N)

\* What an upgrade, a downgrade and the last three statements of one to base find.
UpFinds(d, n) ==
  /\ ~Has(d, "notes_scoped") /\ ~Has(d, "note_chunks_scoped")
  /\ n >= 29 => ~Has(d, "notes_legacy")
  /\ n >= 30 => ~Has(d, "note_chunks_legacy")
  /\ n \in (25..28) \cup {43} => ~Has(d, "notes")
  /\ n \in 29..42 => HasKey(d, "notes", {"note"})
  /\ n \in 30..39 => HasKey(d, "note_chunks", {"note"}) /\ Refers(d, ChunkRefs)
  /\ n < 19 => Refers(d, OfNote)
  /\ n < 26 => VaultOf(d, Default)
DownFinds(d, n) ==
  /\ n >= 14 => ~Has(d, "notes_scoped")
  /\ n >= 15 => ~Has(d, "note_chunks_scoped")
  /\ n = 13 => ~Has(d, "notes")
  /\ n = 14 => ~Has(d, "note_chunks")
  /\ n < 9 => Refers(d, ChunkRefs)
BaseFinds(d, n) ==
  /\ Clean(d)
  /\ n < 3 => ~Has(d, "note_chunks")
  /\ n < 2 => ~Has(d, "notes")
  /\ n >= 2 => HasKey(d, "notes", {"note"})

-----------------------------------------------------------------------------
(* Where a statement's rows come from. *)

\* e has the table u exactly as d has it.
Whole(d, e, u) == (Has(e, u) <=> Has(d, u)) /\ (Has(d, u) => e.tables[u] = d.tables[u])
Still(d, e) == (\A u \in Stages : Whole(d, e, u)) /\ \A v : VaultOf(d, v) => VaultOf(e, v)

\* Every row of the table u of e is, or is the copy of, a row of d in the same family.
FromRow(d, u, r) ==
  \E w \in Stages : /\ OneFamily(u, w) /\ Has(d, w)
                    /\ \E q \in d.tables[w].rows : q.id = r.id /\ q.note = r.note
From(d, e, u) == Has(e, u) => \A r \in e.tables[u].rows : FromRow(d, u, r)
\* No row is new.
Tame(d, e) ==
  /\ \A T \in {NoteTables, ChunkTables} : Rows(e, T) \subseteq Rows(d, T)
  /\ Noted(d) => Noted(e)

LEMMA WholeFacts ==
  ASSUME NEW d, NEW e, NEW u, Whole(d, e, u)
  PROVE  /\ SameTable(d, e, u) /\ (Has(e, u) <=> Has(d, u))
         /\ \A key : HasKey(e, u, key) <=> HasKey(d, u, key)
  BY DEF Whole, SameTable, HasKey

LEMMA WholeRefers ==
  ASSUME NEW d, NEW e, Whole(d, e, "note_chunks")
  PROVE  \A refs : Refers(d, refs) => Refers(e, refs)
  BY DEF Whole, Refers

LEMMA WholeVaults ==
  ASSUME NEW d, NEW e, Whole(d, e, "vaults")
  PROVE  \A v : VaultOf(d, v) => VaultOf(e, v)
  BY DEF Whole, VaultOf

LEMMA CreateWhole ==
  ASSUME NEW d, NEW t, NEW key, NEW refs, Shaped(d), ~Has(d, t),
         NEW e, e = After(d, CreateTable(t, key, refs))
  PROVE  /\ HasKey(e, t, key) /\ e.tables[t].refs = refs /\ e.tables[t].rows = {}
         /\ \A u : u # t => Whole(d, e, u)
  <1> DEFINE T == With(d.tables, t, [key |-> key, refs |-> refs, rows |-> {}])
  <1>1. e = [d EXCEPT !.tables = T]
    BY DEF After, CreateTable
  <1>2. e.tables = T
    BY <1>1 DEF Shaped
  <1>3. /\ DOMAIN T = DOMAIN d.tables \cup {t}
        /\ T[t] = [key |-> key, refs |-> refs, rows |-> {}]
        /\ \A u \in DOMAIN d.tables : u # t => T[u] = d.tables[u]
    BY DEF With
  <1> HIDE DEF T
  <1> QED  BY <1>2, <1>3 DEF Whole, HasKey, Has

LEMMA DropWhole ==
  ASSUME NEW d, NEW t, Shaped(d), NEW e, e = After(d, DropTable(t))
  PROVE  \A u : u # t => Whole(d, e, u)
  <1> DEFINE T == Without(d.tables, {t})
             I == Without(d.indexes, {i \in DOMAIN d.indexes : d.indexes[i] = t})
  <1>1. e = [d EXCEPT !.tables = T, !.indexes = I]
    BY DEF After, DropTable
  <1>2. /\ DOMAIN T = DOMAIN d.tables \ {t}
        /\ \A u \in DOMAIN T : T[u] = d.tables[u]
    BY DEF Without
  <1> HIDE DEF T, I
  <1>3. e.tables = T
    BY <1>1 DEF Shaped
  <1> QED  BY <1>2, <1>3 DEF Whole, Has

LEMMA RowsWhole ==
  ASSUME NEW d, NEW s, s.op \in {"insert", "copy_as_default", "copy_of_default"},
         Shaped(d), Has(d, s.name), NEW e, e = After(d, s)
  PROVE  /\ e.tables[s.name].refs = d.tables[s.name].refs
         /\ \A u : u # s.name => Whole(d, e, u)
  <1> DEFINE n == s.name
             R == RowsOf(d, s)
             T == [d.tables EXCEPT ![n].rows = @ \cup R]
  <1>1. e = [d EXCEPT !.tables = T]
    BY DEF After
  <1>2. /\ DOMAIN T = DOMAIN d.tables
        /\ T[n] = [d.tables[n] EXCEPT !.rows = @ \cup R]
        /\ \A u \in DOMAIN d.tables : u # n => T[u] = d.tables[u]
    BY DEF Has
  <1>3. DOMAIN d.tables[n] = {"key", "refs", "rows"}
    BY DEF Shaped, Has
  <1> HIDE DEF T, R, n
  <1>4. T[n].refs = d.tables[n].refs
    BY <1>2, <1>3
  <1>5. e.tables = T
    BY <1>1 DEF Shaped
  <1>6. \A u : u # n => Whole(d, e, u)
    BY <1>2, <1>5 DEF Whole, Has
  <1> QED  BY <1>4, <1>5, <1>6 DEF n

LEMMA SameTables ==
  ASSUME NEW d, NEW e, e.tables = d.tables
  PROVE  (\A u : Whole(d, e, u)) /\ Still(d, e)
  <1>1. \A u : Whole(d, e, u)
    BY DEF Whole, Has
  <1> QED  BY <1>1, WholeVaults DEF Still

\* A statement that touches no stage leaves the stages and the vaults' rows.
LEMMA MinorStill ==
  ASSUME NEW d, NEW s, Minor(s), Shaped(d), Fits(d, s), NEW e, e = After(d, s)
  PROVE  Still(d, e)
  <1>1. ASSUME NEW t, NEW key, NEW refs, s = CreateTable(t, key, refs), t \notin Stages
        PROVE  Still(d, e)
    <2>1. ~Has(d, t)
      BY <1>1 DEF CreateTable, Fits
    <2>2. \A u : u # t => Whole(d, e, u)
      BY <1>1, <2>1, CreateWhole
    <2>3. \A u \in Stages : Whole(d, e, u)
      BY <1>1, <2>2
    <2>4. \A v : VaultOf(d, v) => VaultOf(e, v)
      <3>1. CASE t = "vaults"
        BY <2>1, <3>1 DEF VaultOf
      <3>2. CASE t # "vaults"
        BY <2>2, <3>2, WholeVaults
      <3> QED  BY <3>1, <3>2
    <2> QED  BY <2>3, <2>4 DEF Still
  <1>2. ASSUME NEW i, NEW t, s = CreateIndex(i, t)
        PROVE  Still(d, e)
    <2>1. e.tables = d.tables
      BY <1>2, CreateIndexEffect
    <2> QED  BY <2>1, SameTables
  <1>3. ASSUME NEW i, s = DropIndex(i)
        PROVE  Still(d, e)
    <2>1. e.tables = d.tables
      BY <1>3, DropIndexEffect
    <2> QED  BY <2>1, SameTables
  <1>4. ASSUME NEW t, s = DropTable(t), t \notin Stages \cup {"vaults"}
        PROVE  Still(d, e)
    <2>1. \A u : u # t => Whole(d, e, u)
      BY <1>4, DropWhole
    <2> QED  BY <1>4, <2>1, WholeVaults DEF Still
  <1>5. ASSUME NEW row, s = Insert("vaults", row)
        PROVE  Still(d, e)
    <2>1. s.op = "insert" /\ s.name = "vaults"
      BY <1>5 DEF Insert
    <2>2. Has(d, s.name)
      BY <2>1 DEF Fits
    <2>3. /\ Has(e, "vaults") /\ e.tables["vaults"].rows = d.tables["vaults"].rows \cup RowsOf(d, s)
      BY <2>1, <2>2, RowsEffect
    <2>4. \A u : u # "vaults" => Whole(d, e, u)
      BY <2>1, <2>2, RowsWhole
    <2> QED  BY <2>3, <2>4, Names DEF Still, VaultOf
  <1> QED  BY <1>1, <1>2, <1>3, <1>4, <1>5 DEF Minor

LEMMA OwnFamily == \A u : OneFamily(u, u)
  BY DEF OneFamily

LEMMA FromSame ==
  ASSUME NEW d, NEW e, NEW u \in Stages, SameTable(d, e, u)
  PROVE  From(d, e, u)
  <1> SUFFICES ASSUME Has(e, u), NEW r \in e.tables[u].rows
               PROVE  FromRow(d, u, r)
    BY DEF From
  <1>1. Has(d, u) /\ r \in d.tables[u].rows
    BY DEF SameTable
  <1> QED  BY <1>1, OwnFamily DEF FromRow

LEMMA TameFrom ==
  ASSUME NEW d, NEW e, \A u \in Stages : From(d, e, u)
  PROVE  Tame(d, e)
  <1>1. ASSUME NEW T \in {NoteTables, ChunkTables}
        PROVE  Rows(e, T) \subseteq Rows(d, T)
    <2> SUFFICES ASSUME NEW i \in Rows(e, T)
                 PROVE  i \in Rows(d, T)
      OBVIOUS
    <2>1. PICK u \in T : i \in IdsIn(e, u)
      BY DEF Rows
    <2>2. Has(e, u) /\ \E r \in e.tables[u].rows : r.id = i
      BY <2>1 DEF IdsIn, Has
    <2>3. PICK r \in e.tables[u].rows : r.id = i
      BY <2>2
    <2>4. u \in Stages
      BY Families
    <2>5. FromRow(d, u, r)
      BY <2>2, <2>4 DEF From
    <2>6. PICK w \in Stages : /\ OneFamily(u, w) /\ Has(d, w)
                              /\ \E q \in d.tables[w].rows : q.id = r.id
      BY <2>5 DEF FromRow
    <2>7. w \in T
      BY <2>6 DEF OneFamily
    <2>8. i \in IdsIn(d, w)
      BY <2>3, <2>6 DEF IdsIn, Has
    <2> QED  BY <2>7, <2>8 DEF Rows
  <1>2. ASSUME Noted(d), NEW u \in Stages, Has(e, u), NEW r \in e.tables[u].rows
        PROVE  r.note = r.id[2]
    <2>1. FromRow(d, u, r)
      BY <1>2 DEF From
    <2>2. PICK w \in Stages : /\ Has(d, w)
                              /\ \E q \in d.tables[w].rows : q.id = r.id /\ q.note = r.note
      BY <2>1 DEF FromRow
    <2>3. PICK q \in d.tables[w].rows : q.id = r.id /\ q.note = r.note
      BY <2>2
    <2>4. q.note = q.id[2]
      BY <1>2, <2>2 DEF Noted
    <2> QED  BY <2>3, <2>4
  <1>3. Noted(d) => Noted(e)
    BY <1>2 DEF Noted
  <1> QED  BY <1>1, <1>3 DEF Tame

LEMMA StillTame ==
  ASSUME NEW d, NEW e, Still(d, e)
  PROVE  Tame(d, e)
  <1>1. \A u \in Stages : SameTable(d, e, u)
    BY WholeFacts DEF Still
  <1> QED  BY <1>1, FromSame, TameFrom

\* All stages but t are as they were.
LEMMA TameBut ==
  ASSUME NEW d, NEW e, NEW t, \A u \in Stages : u # t => SameTable(d, e, u), From(d, e, t)
  PROVE  Tame(d, e)
  <1>1. \A u \in Stages : From(d, e, u)
    BY FromSame
  <1> QED  BY <1>1, TameFrom

LEMMA CreateTame ==
  ASSUME NEW d, Shaped(d), NEW t, ~Has(d, t), NEW key, NEW refs,
         NEW e, e = After(d, CreateTable(t, key, refs))
  PROVE  Tame(d, e)
  <1>1. e.tables[t].rows = {} /\ \A u : u # t => SameTable(d, e, u)
    BY CreateTableEffect
  <1>2. From(d, e, t)
    BY <1>1 DEF From
  <1> QED  BY <1>1, <1>2, TameBut

LEMMA DropTame ==
  ASSUME NEW d, Shaped(d), NEW t, NEW e, e = After(d, DropTable(t))
  PROVE  Tame(d, e)
  <1>1. ~Has(e, t) /\ \A u : u # t => SameTable(d, e, u)
    BY DropTableEffect
  <1>2. From(d, e, t)
    BY <1>1 DEF From
  <1> QED  BY <1>1, <1>2, TameBut

LEMMA RenameTame ==
  ASSUME NEW d, Shaped(d), NEW t \in Stages, NEW new, OneFamily(new, t), Has(d, t), ~Has(d, new),
         NEW e, e = After(d, Rename(t, new))
  PROVE  Tame(d, e)
  <1>1. /\ ~Has(e, t) /\ e.tables[new].rows = d.tables[t].rows
        /\ \A u : u \notin {t, new} => SameTable(d, e, u)
    BY RenameEffect
  <1>2. From(d, e, t)
    BY <1>1 DEF From
  <1>3. From(d, e, new)
    BY <1>1 DEF From, FromRow
  <1>4. \A u \in Stages : From(d, e, u)
    BY <1>1, <1>2, <1>3, FromSame
  <1> QED  BY <1>4, TameFrom

\* A copy, whichever way.
LEMMA CopyTame ==
  ASSUME NEW d, Shaped(d), NEW t \in Stages, NEW old \in Stages, OneFamily(t, old), Has(d, t),
         Has(d, old), NEW s, s \in {CopyAsDefault(t, old), CopyOfDefault(t, old)},
         NEW e, e = After(d, s)
  PROVE  Tame(d, e)
  <1>1. s.op \in {"copy_as_default", "copy_of_default"} /\ s.name = t /\ s.from = old
    BY DEF CopyAsDefault, CopyOfDefault
  <1>2. \A r \in RowsOf(d, s) : \E q \in d.tables[old].rows : q.id = r.id /\ q.note = r.note
    <2>1. \A r : /\ Scoped(r).id = r.id /\ Scoped(r).note = r.note
                 /\ Unscoped(r).id = r.id /\ Unscoped(r).note = r.note
      BY DEF Scoped, Unscoped
    <2>2. RowsOf(d, s) \in {{Scoped(r) : r \in d.tables[old].rows},
                            {Unscoped(r) : r \in {x \in d.tables[old].rows : x.vault = Default}}}
      BY <1>1 DEF RowsOf
    <2> QED  BY <2>1, <2>2
  <1>3. /\ e.tables[t].rows = d.tables[t].rows \cup RowsOf(d, s)
        /\ \A u : u # t => SameTable(d, e, u)
    <2>1. Has(d, s.name) /\ s.op \in {"insert", "copy_as_default", "copy_of_default"}
      BY <1>1
    <2> QED  BY <1>1, <2>1, RowsEffect
  <1>4. From(d, e, t)
    <2> SUFFICES ASSUME NEW r \in e.tables[t].rows
                 PROVE  FromRow(d, t, r)
      BY DEF From
    <2>1. CASE r \in d.tables[t].rows
      BY <2>1, OwnFamily DEF FromRow
    <2>2. CASE r \in RowsOf(d, s)
      BY <1>2, <2>2 DEF FromRow
    <2> QED  BY <1>3, <2>1, <2>2
  <1> QED  BY <1>3, <1>4, TameBut

LEMMA WithinTame ==
  ASSUME NEW d, NEW e, NEW N, NEW C, Tame(d, e), Within(d, N, C)
  PROVE  Within(e, N, C)
  <1>1. Rows(e, NoteTables) \subseteq Rows(d, NoteTables)
        /\ Rows(e, ChunkTables) \subseteq Rows(d, ChunkTables)
    BY DEF Tame
  <1> QED  BY <1>1 DEF Tame, Within

LEMMA FamiliesAre ==
  /\ OneFamily("notes", "notes_legacy") /\ OneFamily("notes_legacy", "notes")
  /\ OneFamily("notes", "notes_scoped") /\ OneFamily("notes_scoped", "notes")
  /\ OneFamily("note_chunks", "note_chunks_legacy") /\ OneFamily("note_chunks_legacy", "note_chunks")
  /\ OneFamily("note_chunks", "note_chunks_scoped") /\ OneFamily("note_chunks_scoped", "note_chunks")
  BY DEF OneFamily, NoteTables, ChunkTables

-----------------------------------------------------------------------------
(* The scripts, one statement at a time. *)

LEMMA UpFindsKept ==
  ASSUME NEW d, NEW e, Still(d, e), NEW n \in 2..43, n \notin {19, 26, 29, 40, 43}, UpFinds(d, n)
  PROVE  UpFinds(e, n - 1)
  <1>1. \A u \in Stages : \A key : HasKey(e, u, key) <=> HasKey(d, u, key)
    BY WholeFacts DEF Still
  <1>2. \A u \in Stages : Has(e, u) <=> Has(d, u)
    BY DEF Still, Whole
  <1>3. \A refs : Refers(d, refs) => Refers(e, refs)
    BY Names, WholeRefers DEF Still
  <1>4. /\ n - 1 >= 29 => n >= 29
        /\ n - 1 >= 30 => n >= 30
        /\ n - 1 \in (25..28) \cup {43} => n \in (25..28) \cup {43}
        /\ n - 1 \in 29..42 => n \in 29..42
        /\ n - 1 \in 30..39 => n \in 30..39
        /\ n - 1 < 19 => n < 19
        /\ n - 1 < 26 => n < 26
    OBVIOUS
  <1> QED  BY <1>1, <1>2, <1>3, <1>4, Names DEF UpFinds, Still

LEMMA UpPlace ==
  ASSUME NEW d, Shaped(d), NEW n \in 1..43, UpFinds(d, n), NEW s, s = FromEnd(Up, n),
         Fits(d, s), NEW e, e = After(d, s)
  PROVE  Tame(d, e) /\ (n > 1 => UpFinds(e, n - 1))
  <1>1. ASSUME Still(d, e), n \notin {1, 19, 26, 29, 40, 43}
        PROVE  Tame(d, e) /\ UpFinds(e, n - 1)
    <2>1. n \in 2..43
      BY <1>1
    <2> QED  BY <1>1, <2>1, StillTame, UpFindsKept
  <1>2. CASE n = 1
    <2>1. e.tables = d.tables
      BY <1>2, UpEnd, StampEffect
    <2> QED  BY <1>2, <2>1, SameTables, StillTame
  <1>3. CASE n = 36
    <2>1. e.tables = d.tables
      BY <1>3, UpEnd, StampEffect
    <2> QED  BY <1>1, <1>3, <2>1, SameTables
  <1>4. CASE n \in {15, 22}
    <2>1. \E i, t : s = CreateIndex(i, t)
      BY <1>4, UpEnd
    <2>2. e.tables = d.tables
      BY <2>1, CreateIndexEffect
    <2> QED  BY <1>1, <1>4, <2>2, SameTables
  <1>5. CASE n \in {11, 12}
    <2>1. PICK t \in {"notes_legacy", "note_chunks_legacy"} : s = DropTable(t)
      BY <1>5, UpEnd
    <2>2. Tame(d, e) /\ \A u : u # t => Whole(d, e, u)
      BY <2>1, DropTame, DropWhole
    <2>3. /\ Whole(d, e, "notes_scoped") /\ Whole(d, e, "note_chunks_scoped")
          /\ Whole(d, e, "note_chunks") /\ Whole(d, e, "vaults")
      BY <2>2
    <2> QED  BY <1>5, <2>2, <2>3, WholeFacts, WholeRefers, WholeVaults DEF UpFinds
  <1>6. CASE n = 13
    <2>1. s = CopyAsDefault("note_chunks", "note_chunks_legacy")
      BY <1>6, UpEnd
    <2>2. s.op = "copy_as_default" /\ s.name = "note_chunks" /\ s.from = "note_chunks_legacy"
      BY <2>1 DEF CopyAsDefault
    <2>3. Has(d, "note_chunks") /\ Has(d, "note_chunks_legacy")
      BY <2>2 DEF Fits
    <2>4. Tame(d, e)
      BY <2>1, <2>3, CopyTame, FamiliesAre, Names
    <2>5. /\ e.tables["note_chunks"].refs = d.tables["note_chunks"].refs
          /\ \A u : u # "note_chunks" => Whole(d, e, u)
      BY <2>2, <2>3, RowsWhole
    <2>6. Has(e, "note_chunks")
      BY <2>2, <2>3, RowsEffect
    <2>7. /\ Whole(d, e, "notes_scoped") /\ Whole(d, e, "note_chunks_scoped")
          /\ Whole(d, e, "vaults")
      BY <2>5
    <2> QED  BY <1>6, <2>4, <2>5, <2>6, <2>7, WholeFacts, WholeVaults DEF UpFinds, Refers
  <1>7. CASE n = 19
    <2>1. s = CreateTable("note_chunks", ScopedKey, OfNote)
      BY <1>7, UpEnd
    <2>2. ~Has(d, "note_chunks")
      BY <2>1 DEF Fits, CreateTable
    <2>3. Tame(d, e)
      BY <2>1, <2>2, CreateTame
    <2>4. /\ HasKey(e, "note_chunks", ScopedKey) /\ e.tables["note_chunks"].refs = OfNote
          /\ \A u : u # "note_chunks" => Whole(d, e, u)
      BY <2>1, <2>2, CreateWhole
    <2>5. /\ Whole(d, e, "notes_scoped") /\ Whole(d, e, "note_chunks_scoped")
          /\ Whole(d, e, "vaults")
      BY <2>4
    <2> QED  BY <1>7, <2>3, <2>4, <2>5, WholeFacts, WholeVaults DEF UpFinds, Refers, HasKey
  <1>8. CASE n = 20
    <2>1. s = CopyAsDefault("notes", "notes_legacy")
      BY <1>8, UpEnd
    <2>2. s.op = "copy_as_default" /\ s.name = "notes" /\ s.from = "notes_legacy"
      BY <2>1 DEF CopyAsDefault
    <2>3. Has(d, "notes") /\ Has(d, "notes_legacy")
      BY <2>2 DEF Fits
    <2>4. Tame(d, e)
      BY <2>1, <2>3, CopyTame, FamiliesAre, Names
    <2>5. \A u : u # "notes" => Whole(d, e, u)
      BY <2>2, <2>3, RowsWhole
    <2>6. /\ Whole(d, e, "notes_scoped") /\ Whole(d, e, "note_chunks_scoped")
          /\ Whole(d, e, "vaults")
      BY <2>5
    <2> QED  BY <1>8, <2>4, <2>6, WholeFacts, WholeVaults DEF UpFinds
  <1>9. CASE n = 25
    <2>1. s = CreateTable("notes", ScopedKey, InVault)
      BY <1>9, UpEnd
    <2>2. ~Has(d, "notes")
      BY <2>1 DEF Fits, CreateTable
    <2>3. Tame(d, e)
      BY <2>1, <2>2, CreateTame
    <2>4. \A u : u # "notes" => Whole(d, e, u)
      BY <2>1, <2>2, CreateWhole
    <2>5. /\ Whole(d, e, "notes_scoped") /\ Whole(d, e, "note_chunks_scoped")
          /\ Whole(d, e, "vaults")
      BY <2>4
    <2> QED  BY <1>9, <2>3, <2>5, WholeFacts, WholeVaults DEF UpFinds
  <1>10. CASE n = 26
    <2>1. s = Insert("vaults", FirstRow)
      BY <1>10, UpEnd
    <2>2. s.op = "insert" /\ s.name = "vaults" /\ s.row = FirstRow
      BY <2>1 DEF Insert
    <2>3. Has(d, s.name) /\ RowsOf(d, s) = {FirstRow}
      BY <2>2 DEF Fits, RowsOf
    <2>4. /\ Has(e, "vaults") /\ e.tables["vaults"].rows = d.tables["vaults"].rows \cup {FirstRow}
      BY <2>2, <2>3, RowsEffect
    <2>5. VaultOf(e, Default)
      <3>1. FirstRow.vault = Default /\ FirstRow \in e.tables["vaults"].rows
        BY <2>4 DEF FirstRow
      <3> QED  BY <2>4, <3>1 DEF VaultOf
    <2>6. \A u \in Stages : Whole(d, e, u)
      BY <2>2, <2>3, RowsWhole, Names
    <2>7. Minor(s)
      BY <2>1, MinorKinds
    <2>8. Still(d, e)
      BY <2>7, MinorStill
    <2>9. /\ Whole(d, e, "notes_scoped") /\ Whole(d, e, "note_chunks_scoped")
          /\ Whole(d, e, "notes")
      BY <2>6, Names
    <2> QED  BY <1>10, <2>5, <2>8, <2>9, StillTame, WholeFacts DEF UpFinds
  <1>11. CASE n = 29
    <2>1. s = Rename("notes", "notes_legacy")
      BY <1>11, UpEnd
    <2>2. Has(d, "notes") /\ ~Has(d, "notes_legacy")
      BY <2>1 DEF Fits, Rename
    <2>3. Tame(d, e)
      BY <2>1, <2>2, RenameTame, FamiliesAre, Names
    <2>4. ~Has(e, "notes") /\ \A u : u \notin {"notes", "notes_legacy"} => SameTable(d, e, u)
      BY <2>1, <2>2, RenameEffect
    <2>5. SameTable(d, e, "notes_scoped") /\ SameTable(d, e, "note_chunks_scoped")
      BY <2>4
    <2> QED  BY <1>11, <2>3, <2>4, <2>5 DEF UpFinds, SameTable
  <1>12. CASE n = 30
    <2>1. s = Rename("note_chunks", "note_chunks_legacy")
      BY <1>12, UpEnd
    <2>2. Has(d, "note_chunks") /\ ~Has(d, "note_chunks_legacy")
      BY <2>1 DEF Fits, Rename
    <2>3. Tame(d, e)
      BY <2>1, <2>2, RenameTame, FamiliesAre, Names
    <2>4. \A u : u \notin {"note_chunks", "note_chunks_legacy"} => SameTable(d, e, u)
      BY <2>1, <2>2, RenameEffect
    <2>5. /\ SameTable(d, e, "notes_scoped") /\ SameTable(d, e, "note_chunks_scoped")
          /\ SameTable(d, e, "notes") /\ SameTable(d, e, "notes_legacy")
      BY <2>4
    <2> QED  BY <1>12, <2>3, <2>5 DEF UpFinds, SameTable, HasKey
  <1>13. CASE n = 40
    <2>1. s = CreateTable("note_chunks", {"note"}, ChunkRefs)
      BY <1>13, UpEnd
    <2>2. ~Has(d, "note_chunks")
      BY <2>1 DEF Fits, CreateTable
    <2>3. Tame(d, e)
      BY <2>1, <2>2, CreateTame
    <2>4. /\ HasKey(e, "note_chunks", {"note"}) /\ e.tables["note_chunks"].refs = ChunkRefs
          /\ \A u : u # "note_chunks" => Whole(d, e, u)
      BY <2>1, <2>2, CreateWhole
    <2>5. /\ Whole(d, e, "notes_scoped") /\ Whole(d, e, "note_chunks_scoped")
          /\ Whole(d, e, "notes_legacy") /\ Whole(d, e, "note_chunks_legacy")
          /\ Whole(d, e, "notes")
      BY <2>4
    <2> QED  BY <1>13, <2>3, <2>4, <2>5, WholeFacts DEF UpFinds, Refers, HasKey
  <1>14. CASE n = 43
    <2>1. s = CreateTable("notes", {"note"}, NoRefs)
      BY <1>14, UpEnd
    <2>2. ~Has(d, "notes")
      BY <2>1 DEF Fits, CreateTable
    <2>3. Tame(d, e)
      BY <2>1, <2>2, CreateTame
    <2>4. HasKey(e, "notes", {"note"}) /\ \A u : u # "notes" => Whole(d, e, u)
      BY <2>1, <2>2, CreateWhole
    <2>5. /\ Whole(d, e, "notes_scoped") /\ Whole(d, e, "note_chunks_scoped")
          /\ Whole(d, e, "notes_legacy") /\ Whole(d, e, "note_chunks_legacy")
      BY <2>4
    <2> QED  BY <1>14, <2>3, <2>4, <2>5, WholeFacts DEF UpFinds
  <1>15. CASE n \notin {1, 11, 12, 13, 15, 19, 20, 22, 25, 26, 29, 30, 36, 40, 43}
    <2>1. n \in (2..10) \cup {14} \cup (16..18) \cup {21, 23, 24} \cup (26..28) \cup (31..35)
               \cup (37..39) \cup {41, 42}
      BY <1>15
    <2>2. Minor(s)
      BY <2>1, UpEnd
    <2> QED  BY <1>1, <1>15, <2>2, MinorStill
  <1> QED  BY <1>2, <1>3, <1>4, <1>5, <1>6, <1>7, <1>8, <1>9, <1>10, <1>11, <1>12,
              <1>13, <1>14, <1>15

LEMMA DownFindsKept ==
  ASSUME NEW d, NEW e, Still(d, e), NEW n \in 2..33, n \notin {9, 14, 15}, DownFinds(d, n)
  PROVE  DownFinds(e, n - 1)
  <1>1. \A u \in Stages : Has(e, u) <=> Has(d, u)
    BY DEF Still, Whole
  <1>2. \A refs : Refers(d, refs) => Refers(e, refs)
    BY Names, WholeRefers DEF Still
  <1>3. /\ n - 1 >= 14 => n >= 14
        /\ n - 1 >= 15 => n >= 15
        /\ n - 1 # 13 /\ n - 1 # 14
        /\ n - 1 < 9 => n < 9
    OBVIOUS
  <1> QED  BY <1>1, <1>2, <1>3, Names DEF DownFinds

LEMMA DownPlace ==
  ASSUME NEW d, Shaped(d), NEW n \in 1..33, DownFinds(d, n), NEW s, s = FromEnd(Down, n),
         Fits(d, s), NEW e, e = After(d, s)
  PROVE  Tame(d, e) /\ (n > 1 => DownFinds(e, n - 1))
  <1>1. ASSUME Still(d, e), n \notin {1, 9, 14, 15}
        PROVE  Tame(d, e) /\ DownFinds(e, n - 1)
    <2>1. n \in 2..33
      BY <1>1
    <2> QED  BY <1>1, <2>1, StillTame, DownFindsKept
  <1>2. CASE n = 1
    <2>1. e.tables = d.tables
      BY <1>2, DownEnd, StampEffect
    <2> QED  BY <1>2, <2>1, SameTables, StillTame
  <1>3. CASE n \in {2, 3, 4}
    <2>1. PICK t \in {"vaults", "notes_scoped", "note_chunks_scoped"} : s = DropTable(t)
      BY <1>3, DownEnd
    <2>2. Tame(d, e) /\ \A u : u # t => Whole(d, e, u)
      BY <2>1, DropTame, DropWhole
    <2>3. Whole(d, e, "note_chunks")
      BY <2>2
    <2> QED  BY <1>3, <2>2, <2>3, WholeRefers DEF DownFinds
  <1>4. CASE n = 5
    <2>1. s = CopyOfDefault("note_chunks", "note_chunks_scoped")
      BY <1>4, DownEnd
    <2>2. s.op = "copy_of_default" /\ s.name = "note_chunks" /\ s.from = "note_chunks_scoped"
      BY <2>1 DEF CopyOfDefault
    <2>3. Has(d, "note_chunks") /\ Has(d, "note_chunks_scoped")
      BY <2>2 DEF Fits
    <2>4. Tame(d, e)
      BY <2>1, <2>3, CopyTame, FamiliesAre, Names
    <2>5. e.tables["note_chunks"].refs = d.tables["note_chunks"].refs
      BY <2>2, <2>3, RowsWhole
    <2>6. Has(e, "note_chunks")
      BY <2>2, <2>3, RowsEffect
    <2> QED  BY <1>4, <2>4, <2>5, <2>6 DEF DownFinds, Refers
  <1>5. CASE n = 9
    <2>1. s = CreateTable("note_chunks", {"note"}, ChunkRefs)
      BY <1>5, DownEnd
    <2>2. ~Has(d, "note_chunks")
      BY <2>1 DEF Fits, CreateTable
    <2>3. Tame(d, e)
      BY <2>1, <2>2, CreateTame
    <2>4. HasKey(e, "note_chunks", {"note"}) /\ e.tables["note_chunks"].refs = ChunkRefs
      BY <2>1, <2>2, CreateWhole
    <2> QED  BY <1>5, <2>3, <2>4 DEF DownFinds, Refers, HasKey
  <1>6. CASE n = 10
    <2>1. s = CopyOfDefault("notes", "notes_scoped")
      BY <1>6, DownEnd
    <2>2. s.op = "copy_of_default" /\ s.name = "notes" /\ s.from = "notes_scoped"
      BY <2>1 DEF CopyOfDefault
    <2>3. Has(d, "notes") /\ Has(d, "notes_scoped")
      BY <2>2 DEF Fits
    <2>4. Tame(d, e)
      BY <2>1, <2>3, CopyTame, FamiliesAre, Names
    <2> QED  BY <1>6, <2>4 DEF DownFinds
  <1>7. CASE n = 13
    <2>1. s = CreateTable("notes", {"note"}, NoRefs)
      BY <1>7, DownEnd
    <2>2. ~Has(d, "notes")
      BY <2>1 DEF Fits, CreateTable
    <2>3. Tame(d, e)
      BY <2>1, <2>2, CreateTame
    <2> QED  BY <1>7, <2>3 DEF DownFinds
  <1>8. CASE n = 14
    <2>1. s = Rename("notes", "notes_scoped")
      BY <1>8, DownEnd
    <2>2. Has(d, "notes") /\ ~Has(d, "notes_scoped")
      BY <2>1 DEF Fits, Rename
    <2>3. Tame(d, e)
      BY <2>1, <2>2, RenameTame, FamiliesAre, Names
    <2>4. ~Has(e, "notes")
      BY <2>1, <2>2, RenameEffect
    <2> QED  BY <1>8, <2>3, <2>4 DEF DownFinds
  <1>9. CASE n = 15
    <2>1. s = Rename("note_chunks", "note_chunks_scoped")
      BY <1>9, DownEnd
    <2>2. Has(d, "note_chunks") /\ ~Has(d, "note_chunks_scoped")
      BY <2>1 DEF Fits, Rename
    <2>3. Tame(d, e)
      BY <2>1, <2>2, RenameTame, FamiliesAre, Names
    <2>4. /\ ~Has(e, "note_chunks")
          /\ \A u : u \notin {"note_chunks", "note_chunks_scoped"} => SameTable(d, e, u)
      BY <2>1, <2>2, RenameEffect
    <2>5. SameTable(d, e, "notes_scoped")
      BY <2>4
    <2> QED  BY <1>9, <2>3, <2>4, <2>5 DEF DownFinds, SameTable
  <1>10. CASE n \in {17, 21}
    <2>1. \E i : s = DropIndex(i)
      BY <1>10, DownEnd
    <2>2. e.tables = d.tables
      BY <2>1, DropIndexEffect
    <2> QED  BY <1>1, <1>10, <2>2, SameTables
  <1>11. CASE n \notin {1, 2, 3, 4, 5, 9, 10, 13, 14, 15, 17, 21}
    <2>1. n \in (6..8) \cup (18..20) \cup (22..33) \cup {11, 12, 16}
      BY <1>11
    <2>2. Minor(s)
      BY <2>1, DownEnd
    <2> QED  BY <1>1, <1>11, <2>2, MinorStill
  <1> QED  BY <1>2, <1>3, <1>4, <1>5, <1>6, <1>7, <1>8, <1>9, <1>10, <1>11

\* A database without any stage has no rows.
LEMMA NoStages ==
  ASSUME NEW d, \A u \in Stages : ~Has(d, u)
  PROVE  Within(d, {}, {})
  <1>1. \A u \in Stages : IdsIn(d, u) = {}
    BY DEF IdsIn, Has
  <1>2. Rows(d, NoteTables) = {} /\ Rows(d, ChunkTables) = {}
    BY <1>1, Families DEF Rows
  <1>3. Noted(d)
    BY DEF Noted
  <1> QED  BY <1>2, <1>3 DEF Within

LEMMA StagesAre ==
  Stages = {"notes", "notes_legacy", "notes_scoped",
            "note_chunks", "note_chunks_legacy", "note_chunks_scoped"}
  BY DEF Stages, NoteTables, ChunkTables

LEMMA BasePlace ==
  ASSUME NEW d, Shaped(d), NEW n \in 1..3, BaseFinds(d, n), NEW s, s = FromEnd(DownAll, n),
         Fits(d, s), NEW e, e = After(d, s)
  PROVE  (n > 1 => BaseFinds(e, n - 1)) /\ (n = 1 => Settled(e, {}, {}))
  <1>1. CASE n = 1
    <2>1. e.tables = d.tables /\ e.version = Base
      BY <1>1, DownAllEnd, StampEffect
    <2>2. \A u \in Stages : ~Has(d, u)
      BY <1>1, StagesAre DEF BaseFinds, Clean
    <2>3. \A u \in Stages : ~Has(e, u)
      BY <2>1, <2>2 DEF Has
    <2>4. Within(e, {}, {}) /\ Clean(e) /\ ~Has(e, "notes")
      BY <2>3, NoStages, Names DEF Clean
    <2>5. e.version # Revision1 /\ e.version # Revision2
      BY <2>1, Commands
    <2>6. AllDefault({})
      BY DEF AllDefault
    <2>7. Settled(e, {}, {})
      BY <2>4, <2>5, <2>6 DEF Settled
    <2> QED  BY <1>1, <2>7
  <1>2. CASE n = 2
    <2>1. s = DropTable("notes")
      BY <1>2, DownAllEnd
    <2>2. ~Has(e, "notes") /\ \A u : u # "notes" => SameTable(d, e, u)
      BY <2>1, DropTableEffect
    <2>3. \A u \in Stages : Has(e, u) => Has(d, u)
      BY <2>2 DEF SameTable
    <2> QED  BY <1>2, <2>2, <2>3, Names DEF BaseFinds, Clean
  <1>3. CASE n = 3
    <2>1. s = DropTable("note_chunks")
      BY <1>3, DownAllEnd
    <2>2. ~Has(e, "note_chunks") /\ \A u : u # "note_chunks" => SameTable(d, e, u)
      BY <2>1, DropTableEffect
    <2>3. \A u \in Stages : Has(e, u) => Has(d, u)
      BY <2>2 DEF SameTable
    <2>4. HasKey(e, "notes", {"note"})
      <3>1. HasKey(d, "notes", {"note"})
        BY <1>3 DEF BaseFinds
      <3>2. SameTable(d, e, "notes")
        BY <2>2
      <3> QED  BY <3>1, <3>2 DEF SameTable, HasKey
    <2> QED  BY <1>3, <2>2, <2>3, <2>4, Names DEF BaseFinds, Clean
  <1> QED  BY <1>1, <1>2, <1>3

LEMMA SettledStill ==
  ASSUME NEW d, NEW e, NEW N, NEW C, Settled(d, N, C), Still(d, e), e.version = d.version
  PROVE  Settled(e, N, C)
  <1>1. \A u \in Stages : \A key : HasKey(e, u, key) <=> HasKey(d, u, key)
    BY WholeFacts DEF Still
  <1>2. \A u \in Stages : Has(e, u) <=> Has(d, u)
    BY DEF Still, Whole
  <1>3. \A refs : Refers(d, refs) => Refers(e, refs)
    BY Names, WholeRefers DEF Still
  <1>4. Within(e, N, C)
    BY StillTame, WithinTame DEF Settled
  <1>5. \A v : VaultOf(d, v) => VaultOf(e, v)
    BY DEF Still
  <1> QED  BY <1>1, <1>2, <1>3, <1>4, <1>5, Names DEF Settled, Clean

\* At head, create_all has nothing of notes and chunks to make.
LEMMA MakePlace ==
  ASSUME NEW d, Shaped(d), NEW N, NEW C, Settled(d, N, C), d.version = Revision2,
         NEW s, Creation(s), Fits(d, s), NEW e, e = After(d, s)
  PROVE  Settled(e, N, C)
  <1>1. Has(d, "notes") /\ Has(d, "note_chunks")
    BY DEF Settled, HasKey
  <1>2. CASE s \in {MakeNotes, MakeChunks}
    <2>1. s.op = "create_table" /\ s.name \in {"notes", "note_chunks"}
      BY <1>2 DEF MakeNotes, MakeChunks, CreateTable
    <2> QED  BY <1>1, <2>1 DEF Fits
  <1>3. CASE s \in {IndexNotes, IndexChunks}
    <2>1. \E i, t : s = CreateIndex(i, t)
      BY <1>3 DEF IndexNotes, IndexChunks
    <2>2. e.tables = d.tables /\ e.version = d.version
      BY <2>1, CreateIndexEffect
    <2> QED  BY <2>2, SameTables, SettledStill
  <1>4. CASE Minor(s)
    <2>1. s.op = "create_table" => ~Has(d, s.name)
      BY DEF Fits
    <2>2. s.op = "insert" => Has(d, s.name)
      BY DEF Fits
    <2>3. e.version = d.version
      BY <1>4, <2>1, <2>2, MinorAlike DEF Alike
    <2>4. Still(d, e)
      BY <1>4, MinorStill
    <2> QED  BY <2>3, <2>4, SettledStill
  <1> QED  BY <1>2, <1>3, <1>4 DEF Creation

-----------------------------------------------------------------------------
(* Where a revision ends. *)

LEMMA UpStamps ==
  \A n \in 2..43 : n # 36 => FromEnd(Up, n).op # "stamp"
  <1> SUFFICES ASSUME NEW n \in 2..43, n # 36
               PROVE  FromEnd(Up, n).op # "stamp"
    OBVIOUS
  <1>1. CASE n \in 2..25
    BY <1>1, UpOps
  <1>2. CASE n \in {29, 30}
    <2>1. \A t, new : Rename(t, new).op # "stamp"
      BY DEF Rename
    <2>2. FromEnd(Up, 29).op # "stamp" /\ FromEnd(Up, 30).op # "stamp"
      BY <2>1, UpEnd
    <2> QED  BY <1>2, <2>2
  <1>3. CASE n \in {40, 43}
    <2>1. FromEnd(Up, 40).op # "stamp" /\ FromEnd(Up, 43).op # "stamp"
      BY UpEnd, NoStamp
    <2> QED  BY <1>3, <2>1
  <1>4. CASE n \in (26..28) \cup (31..35) \cup (37..39) \cup {41, 42}
    <2>1. n \in (2..10) \cup {14} \cup (16..18) \cup {21, 23, 24} \cup (26..28) \cup (31..35)
               \cup (37..39) \cup {41, 42}
      BY <1>4
    <2> QED  BY <2>1, UpEnd, MinorOps
  <1> QED  BY <1>1, <1>2, <1>3, <1>4

LEMMA SecondRevisionSettled ==
  ASSUME NEW d, UpFacts(d, 1), UpFinds(d, 1), NEW N, NEW C, Within(d, N, C), AllDefault(N),
         NEW e, Still(d, e), e.version = Revision2
  PROVE  Settled(e, N, C)
  <1>1. /\ HasKey(d, "notes", ScopedKey) /\ ~Has(d, "notes_legacy")
        /\ HasKey(d, "note_chunks", ScopedKey) /\ ~Has(d, "note_chunks_legacy")
    BY DEF UpFacts, UpgradingNotes, UpgradingChunks, Upgrading
  <1>2. Refers(d, OfNote) /\ VaultOf(d, Default) /\ Clean(d)
    BY <1>1 DEF UpFinds, Clean
  <1>3. \A u \in Stages : /\ Has(e, u) <=> Has(d, u)
                          /\ \A key : HasKey(e, u, key) <=> HasKey(d, u, key)
    BY WholeFacts DEF Still
  <1>4. HasKey(e, "notes", ScopedKey) /\ HasKey(e, "note_chunks", ScopedKey) /\ Clean(e)
    BY <1>1, <1>2, <1>3, Names DEF Clean
  <1>5. Refers(e, OfNote) /\ VaultOf(e, Default)
    BY <1>2, WholeRefers, Names DEF Still
  <1>6. \A i \in N : VaultOf(e, i[1])
    BY <1>5 DEF AllDefault
  <1>7. Within(e, N, C)
    BY StillTame, WithinTame
  <1> QED  BY <1>4, <1>5, <1>6, <1>7, Commands DEF Settled

LEMMA FirstRevisionSettled ==
  ASSUME NEW d, UpFinds(d, 36), NEW N, NEW C, Within(d, N, C), AllDefault(N),
         NEW e, Still(d, e), e.version = Revision1
  PROVE  Settled(e, N, C)
  <1>1. /\ HasKey(d, "notes", {"note"}) /\ HasKey(d, "note_chunks", {"note"})
        /\ Clean(d) /\ Refers(d, ChunkRefs)
    BY DEF UpFinds, Clean
  <1>2. \A u \in Stages : /\ Has(e, u) <=> Has(d, u)
                          /\ \A key : HasKey(e, u, key) <=> HasKey(d, u, key)
    BY WholeFacts DEF Still
  <1>3. HasKey(e, "notes", {"note"}) /\ HasKey(e, "note_chunks", {"note"}) /\ Clean(e)
    BY <1>1, <1>2, Names DEF Clean
  <1>4. Refers(e, ChunkRefs)
    BY <1>1, WholeRefers, Names DEF Still
  <1>5. Within(e, N, C)
    BY StillTame, WithinTame
  <1> QED  BY <1>3, <1>4, <1>5, Commands DEF Settled

\* The rows of tables of the first release are the default vault's.
LEMMA WithinDefaults ==
  ASSUME NEW d, Sound(d), \A u \in Stages : Has(d, u) => HasKey(d, u, {"note"}),
         NEW N, NEW C, Within(d, N, C)
  PROVE  Within(d, Defaults(N), Defaults(C))
  <1>1. ASSUME NEW u \in Stages, NEW i \in IdsIn(d, u)
        PROVE  i[1] = Default
    <2>1. Has(d, u)
      BY <1>1 DEF IdsIn, Has
    <2>2. PICK r \in d.tables[u].rows : r.id = i
      BY <1>1, <2>1 DEF IdsIn, Has
    <2>3. HasKey(d, u, {"note"}) /\ Keyed(d, u)
      BY <2>1 DEF Sound
    <2> QED  BY <2>1, <2>2, <2>3, Keys DEF Keyed, HasKey
  <1>2. \A T \in {NoteTables, ChunkTables} : \A i \in Rows(d, T) : i[1] = Default
    BY <1>1, Families DEF Rows
  <1>3. Rows(d, NoteTables) \subseteq N /\ Rows(d, ChunkTables) \subseteq C
    BY DEF Within
  <1>4. Rows(d, NoteTables) \subseteq Defaults(N)
    BY <1>2, <1>3 DEF Defaults
  <1>5. Rows(d, ChunkTables) \subseteq Defaults(C)
    BY <1>2, <1>3 DEF Defaults
  <1> QED  BY <1>4, <1>5 DEF Within

LEMMA DowngradeSettled ==
  ASSUME NEW d, Sound(d), DownFacts(d, 1), DownFinds(d, 1), NEW N, NEW C, Within(d, N, C),
         NEW e, Still(d, e), e.version = Revision1
  PROVE  Settled(e, Defaults(N), Defaults(C))
  <1>1. /\ HasKey(d, "notes", {"note"}) /\ ~Has(d, "notes_scoped")
        /\ HasKey(d, "note_chunks", {"note"}) /\ ~Has(d, "note_chunks_scoped")
        /\ d.version = Revision2
    BY DEF DownFacts, DowngradingNotes, DowngradingChunks, Downgrading
  <1>2. Clean(d)
    BY <1>1 DEF Sound, AtHead, Clean
  <1>3. \A u \in Stages : Has(d, u) => HasKey(d, u, {"note"})
    BY <1>1, <1>2, StagesAre DEF Clean
  <1>4. Within(e, Defaults(N), Defaults(C))
    BY <1>3, WithinDefaults, StillTame, WithinTame
  <1>5. \A u \in Stages : /\ Has(e, u) <=> Has(d, u)
                          /\ \A key : HasKey(e, u, key) <=> HasKey(d, u, key)
    BY WholeFacts DEF Still
  <1>6. HasKey(e, "notes", {"note"}) /\ HasKey(e, "note_chunks", {"note"}) /\ Clean(e)
    BY <1>1, <1>2, <1>5, Names DEF Clean
  <1>7. Refers(e, ChunkRefs)
    BY WholeRefers, Names DEF Still, DownFinds
  <1>8. AllDefault(Defaults(N))
    BY DEF AllDefault, Defaults
  <1> QED  BY <1>4, <1>6, <1>7, <1>8, Commands DEF Settled

-----------------------------------------------------------------------------
(* What a settled database shows. *)

LEMMA CleanRows ==
  ASSUME NEW d, Clean(d)
  PROVE  /\ Rows(d, NoteTables) = IdsIn(d, "notes")
         /\ Rows(d, ChunkTables) = IdsIn(d, "note_chunks")
  <1>1. /\ IdsIn(d, "notes_legacy") = {} /\ IdsIn(d, "notes_scoped") = {}
        /\ IdsIn(d, "note_chunks_legacy") = {} /\ IdsIn(d, "note_chunks_scoped") = {}
    BY DEF Clean, IdsIn, Has
  <1>2. Rows(d, NoteTables) = IdsIn(d, "notes")
    BY <1>1 DEF Rows, NoteTables
  <1>3. Rows(d, ChunkTables) = IdsIn(d, "note_chunks")
    BY <1>1 DEF Rows, ChunkTables
  <1> QED  BY <1>2, <1>3

LEMMA SameColumns ==
  ASSUME NEW x, NEW r
  PROVE  /\ x.note = r.note => Project(x, {"note"}) = Project(r, {"note"})
         /\ x.vault = r.vault => Project(x, VaultKey) = Project(r, VaultKey)
         /\ x.vault = r.vault /\ x.note = r.note => Project(x, ScopedKey) = Project(r, ScopedKey)
  BY DEF Project, VaultKey, ScopedKey

\* The note of a chunk of a settled database, and in head its vault.
LEMMA ChunkHasNote ==
  ASSUME NEW d, Sound(d), NEW N, NEW C, Settled(d, N, C), Held(d, N, C), C \subseteq N,
         Has(d, "notes"), Has(d, "note_chunks"), NEW r \in d.tables["note_chunks"].rows
  PROVE  \E x \in d.tables["notes"].rows : x.id = r.id /\ x.note = r.note
  <1>1. Clean(d) /\ Within(d, N, C)
    BY DEF Settled
  <1>2. r.id \in IdsIn(d, "note_chunks")
    BY DEF IdsIn, Has
  <1>3. r.id \in IdsIn(d, "notes")
    BY <1>1, <1>2, CleanRows DEF Within, Held
  <1>4. PICK x \in d.tables["notes"].rows : x.id = r.id
    BY <1>3 DEF IdsIn, Has
  <1>5. x.note = x.id[2] /\ r.note = r.id[2]
    BY <1>1, Names DEF Within, Noted
  <1> QED  BY <1>4, <1>5

LEMMA SettledReferences ==
  ASSUME NEW d, Sound(d), d.version # Base, NEW N, NEW C, Settled(d, N, C), Held(d, N, C),
         C \subseteq N
  PROVE  ReferencesHold(d, "note_chunks")
  <1> DEFINE refs == d.tables["note_chunks"].refs
  <1> SUFFICES ASSUME NEW u \in DOMAIN refs, NEW r \in d.tables["note_chunks"].rows
               PROVE  \E x \in d.tables[u].rows : Project(x, refs[u]) = Project(r, refs[u])
    BY DEF ReferencesHold
  <1>1. d.version \in {Revision1, Revision2}
    BY DEF Sound, Shaped
  <1>2. Has(d, "notes") /\ Has(d, "note_chunks")
    BY <1>1 DEF Settled, HasKey
  <1>3. PICK n \in d.tables["notes"].rows : n.id = r.id /\ n.note = r.note
    BY <1>2, ChunkHasNote
  <1>4. CASE d.version = Revision1
    <2>1. refs = ChunkRefs
      BY <1>4 DEF Settled, Refers
    <2>2. u = "notes" /\ refs[u] = {"note"}
      BY <2>1 DEF ChunkRefs
    <2>3. Project(n, {"note"}) = Project(r, {"note"})
      BY <1>3, SameColumns
    <2> HIDE DEF refs
    <2> QED  BY <2>2, <2>3
  <1>5. CASE d.version = Revision2
    <2>1. refs = OfNote
      BY <1>5 DEF Settled, Refers
    <2>2. HasKey(d, "notes", ScopedKey) /\ HasKey(d, "note_chunks", ScopedKey)
      BY <1>5 DEF Settled
    <2>3. n.vault = n.id[1] /\ r.vault = r.id[1]
      BY <2>2, Keys, Names DEF Sound, Keyed, HasKey
    <2>4. u \in {"vaults", "notes"}
          /\ (u = "vaults" => refs[u] = VaultKey) /\ (u = "notes" => refs[u] = ScopedKey)
      BY <2>1 DEF OfNote
    <2> HIDE DEF refs
    <2>5. CASE u = "notes"
      <3>1. Project(n, ScopedKey) = Project(r, ScopedKey)
        BY <1>3, <2>3, SameColumns
      <3> QED  BY <2>4, <2>5, <3>1
    <2>6. CASE u = "vaults"
      <3>1. r.id \in N
        <4>1. n.id \in IdsIn(d, "notes")
          BY <1>2 DEF IdsIn, Has
        <4> QED  BY <1>3, <4>1, CleanRows DEF Settled, Within
      <3>2. VaultOf(d, r.vault)
        BY <1>5, <2>3, <3>1 DEF Settled
      <3>3. PICK x \in d.tables["vaults"].rows : x.vault = r.vault
        BY <3>2 DEF VaultOf
      <3>4. Project(x, VaultKey) = Project(r, VaultKey)
        BY <3>3, SameColumns
      <3> QED  BY <2>4, <2>6, <3>4
    <2> QED  BY <2>4, <2>5, <2>6
  <1> QED  BY <1>1, <1>4, <1>5

-----------------------------------------------------------------------------
(* The invariant of rows in place. *)

Finds ==
  ~Idle =>
    /\ command = "upgrade" =>
         UpFinds(db, Len(todo)) /\ Within(db, kept, keptChunks) /\ AllDefault(kept)
    /\ command = "create_all" /\ db.version = Revision2 => Settled(db, kept, keptChunks)
    /\ command = DownTo(Revision1) =>
         DownFinds(db, Len(todo)) /\ Within(db, kept, keptChunks)
    /\ command = DownTo(Base) =>
         /\ Len(todo) > 3 => DownFinds(db, Len(todo) - 3) /\ Within(db, kept, keptChunks)
         /\ Len(todo) <= 3 => BaseFinds(db, Len(todo))

PlaceInv ==
  /\ dirty \in BOOLEAN /\ torn \in BOOLEAN /\ mixed \in BOOLEAN
  /\ Idle => ~dirty
  /\ keptChunks \subseteq kept
  /\ Calm /\ ~dirty => Settled(committed, kept, keptChunks)
  /\ Calm => Finds

LEMMA PlaceIsEnough ==
  ASSUME IInv, PlaceInv
  PROVE  RowsInPlace
  <1> SUFFICES ASSUME Undisturbed, committed.version # Base
               PROVE  /\ IdsIn(committed, "notes") = kept
                      /\ IdsIn(committed, "note_chunks") = keptChunks
                      /\ ReferencesHold(committed, "note_chunks")
                      /\ committed.version = Revision2 =>
                           \A t \in {"notes", "note_chunks"} :
                             \A r \in committed.tables[t].rows : r.vault = r.id[1]
    BY DEF RowsInPlace
  <1>1. Sound(committed) /\ Held(committed, kept, keptChunks)
    BY DEF IInv
  <1>2. Settled(committed, kept, keptChunks) /\ keptChunks \subseteq kept
    BY DEF PlaceInv, Undisturbed, Calm
  <1>3. IdsIn(committed, "notes") = kept /\ IdsIn(committed, "note_chunks") = keptChunks
    BY <1>1, <1>2, CleanRows DEF Settled, Within, Held
  <1>4. ReferencesHold(committed, "note_chunks")
    BY <1>1, <1>2, SettledReferences
  <1>5. ASSUME committed.version = Revision2, NEW t \in {"notes", "note_chunks"},
               NEW r \in committed.tables[t].rows
        PROVE  r.vault = r.id[1]
    <2>1. HasKey(committed, t, ScopedKey) /\ Keyed(committed, t)
      BY <1>1, <1>2, <1>5, Names DEF Settled, Sound
    <2> QED  BY <1>5, <2>1, Keys DEF Keyed, HasKey
  <1> QED  BY <1>3, <1>4, <1>5

-----------------------------------------------------------------------------
(* A statement is executed. *)

\* What an execution notes of itself.
Marks(ends, keeps) ==
  /\ torn' = torn
  /\ dirty' = (~ends /\ (dirty \/ keeps))
  /\ mixed' = (mixed \/ (command = "create_all" /\ keeps /\ db.version # Revision2))

LEMMA ExecuteMarks ==
  ASSUME TypeInv, Execute
  PROVE  \E s, n, ends, keeps : Executes(s, n, ends, keeps) /\ Marks(ends, keeps)
  <1>1. PICK s, n, ends, keeps : Executes(s, n, ends, keeps)
    BY ExecuteIs
  <1>2. /\ ends = (Len(todo) = 1 \/ (Head(todo).op = "stamp" /\ backend = "sqlite"))
        /\ keeps = (ends \/ ~(inTxn \/ WritesRows(Head(todo))))
    BY <1>1 DEF Executes
  <1>3. Marks(ends, keeps)
    BY <1>2 DEF Execute, Marks
  <1> QED  BY <1>1, <1>3

LEMMA StillKeptFewer ==
  ASSUME NEW C, NEW N, C \subseteq N, NEW e
  PROVE  StillKept(C, e) \subseteq StillKept(N, e)
  BY DEF StillKept

LEMMA CalmBefore ==
  ASSUME PlaceInv, NEW ends, NEW keeps, Marks(ends, keeps), Calm'
  PROVE  /\ Calm /\ Finds
         /\ command = "create_all" /\ keeps => db.version = Revision2
  BY DEF PlaceInv, Marks, Calm

\* What is left to show of a statement executed.
LEMMA Placed ==
  ASSUME IInv, PlaceInv, NEW s, NEW n, NEW ends, NEW keeps, Executes(s, n, ends, keeps),
         Marks(ends, keeps), Calm' => Finds',
         ends /\ Calm' => Settled(db', kept', keptChunks')
  PROVE  PlaceInv'
  <1>1. keptChunks \subseteq kept /\ dirty \in BOOLEAN /\ torn \in BOOLEAN /\ mixed \in BOOLEAN
        /\ (Calm /\ ~dirty => Settled(committed, kept, keptChunks))
    BY DEF PlaceInv
  <1>2. ends \in BOOLEAN /\ keeps \in BOOLEAN /\ (n = 1 => ends) /\ (ends => keeps) /\ (Idle' <=> n = 1)
    BY DEF Executes
  <1>3. dirty' \in BOOLEAN /\ torn' \in BOOLEAN /\ mixed' \in BOOLEAN
    BY <1>1 DEF Marks
  <1>4. (Idle => ~dirty)'
    BY <1>2 DEF Marks
  <1>5. keptChunks' \subseteq kept'
    <2>1. CASE keeps
      BY <1>1, <2>1, StillKeptFewer DEF Executes
    <2>2. CASE ~keeps
      BY <1>1, <2>2 DEF Executes
    <2> QED  BY <1>2, <2>1, <2>2
  <1>6. ASSUME Calm', ~dirty'
        PROVE  Settled(committed', kept', keptChunks')
    <2>1. CASE ends
      <3>1. committed' = db'
        BY <1>2, <2>1 DEF Executes
      <3> QED  BY <1>6, <2>1, <3>1
    <2>2. CASE ~ends
      <3>1. ~dirty /\ ~keeps
        BY <1>6, <2>2 DEF Marks
      <3>2. Settled(committed, kept, keptChunks)
        BY <1>1, <1>6, <3>1, CalmBefore
      <3>3. committed' = committed /\ kept' = kept /\ keptChunks' = keptChunks
        BY <3>1 DEF Executes
      <3> QED  BY <3>2, <3>3
    <2> QED  BY <1>2, <2>1, <2>2
  <1> QED  BY <1>3, <1>4, <1>5, <1>6 DEF PlaceInv

LEMMA FindsNext ==
  /\ command' = "upgrade"
     /\ (~Idle' => /\ UpFinds(db', Len(todo')) /\ Within(db', kept', keptChunks')
                   /\ AllDefault(kept')) => Finds'
  /\ command' = "create_all"
     /\ (db'.version = Revision2 => Settled(db', kept', keptChunks')) => Finds'
  /\ command' = DownTo(Revision1)
     /\ (~Idle' => DownFinds(db', Len(todo')) /\ Within(db', kept', keptChunks')) => Finds'
  /\ command' = DownTo(Base)
     /\ (Len(todo') > 3 => DownFinds(db', Len(todo') - 3) /\ Within(db', kept', keptChunks'))
     /\ (~Idle' /\ Len(todo') <= 3 => BaseFinds(db', Len(todo'))) => Finds'
  /\ Idle' => Finds'
  BY DEF Finds, DownTo, Base, Revision1

LEMMA StampStill ==
  ASSUME NEW d, Shaped(d), NEW v \in {Base, Revision1, Revision2}, NEW e, e = After(d, Stamp(v))
  PROVE  Still(d, e) /\ e.version = v
  BY StampEffect, SameTables

LEMMA UpgradePlaced ==
  ASSUME IInv, PlaceInv, command = "upgrade", NEW s, NEW n, NEW ends, NEW keeps,
         Executes(s, n, ends, keeps), Marks(ends, keeps)
  PROVE  PlaceInv'
  <1>1. TypeInv /\ Txn /\ Shaped(db) /\ ~Idle /\ UpScript
    BY DEF IInv, Sound, Script, Executes
  <1>2. todo \in Seq(Statement) /\ Up \in Seq(Statement) /\ Len(Up) = 43 /\ EndOf(todo, Up)
        /\ n = Len(todo) /\ s = Head(todo) /\ Len(todo') = n - 1 /\ command' = "upgrade"
        /\ (Idle' <=> n = 1)
    BY <1>1, UpEnd DEF TypeInv, UpScript, Executes
  <1>3. n \in 1..43 /\ s = FromEnd(Up, n)
    BY <1>2, EndOfTail
  <1>4. UpFacts(db, n) /\ Fits(db, s) /\ db' = After(db, s)
    BY <1>1, <1>2 DEF UpScript, Executes
  <1>5. db.version # Revision2
    BY <1>4, Commands DEF UpFacts
  <1>6. \A ids : StillKept(ids, db') = ids
    BY <1>5, Commands DEF StillKept
  <1>7. kept' = kept /\ keptChunks' = keptChunks
    BY <1>1, <1>6, ExecuteRest
  <1>8. ASSUME Calm'
        PROVE  /\ UpFinds(db, n) /\ Within(db, kept, keptChunks) /\ AllDefault(kept)
               /\ Within(db', kept, keptChunks) /\ (n > 1 => UpFinds(db', n - 1))
    <2>1. Finds
      BY <1>8, CalmBefore
    <2>2. UpFinds(db, n) /\ Within(db, kept, keptChunks) /\ AllDefault(kept)
      BY <1>1, <1>2, <2>1 DEF Finds
    <2> QED  BY <1>1, <1>3, <1>4, <2>2, UpPlace, WithinTame
  <1>9. Calm' => Finds'
    <2> SUFFICES ASSUME Calm' PROVE Finds'
      OBVIOUS
    <2>1. ~Idle' => n > 1
      BY <1>2, <1>3
    <2> QED  BY <1>2, <1>7, <1>8, <2>1, FindsNext
  <1>10. ASSUME ends, Calm'
         PROVE  Settled(db', kept', keptChunks')
    <2>1. n = 1 \/ n = 36
      <3>1. n = 1 \/ s.op = "stamp"
        BY <1>10 DEF Executes
      <3>2. ASSUME n # 1, n # 36 PROVE s.op # "stamp"
        <4>1. n \in 2..43
          BY <1>3, <3>2
        <4> QED  BY <1>3, <3>2, <4>1, UpStamps
      <3> QED  BY <3>1, <3>2
    <2>2. CASE n = 1
      <3>1. s = Stamp(Revision2)
        BY <1>3, <2>2, UpEnd
      <3>2. Still(db, db') /\ db'.version = Revision2
        BY <1>1, <1>4, <3>1, StampStill
      <3> QED  BY <1>4, <1>7, <1>8, <1>10, <2>2, <3>2, SecondRevisionSettled
    <2>3. CASE n = 36
      <3>1. s = Stamp(Revision1)
        BY <1>3, <2>3, UpEnd
      <3>2. Still(db, db') /\ db'.version = Revision1
        BY <1>1, <1>4, <3>1, StampStill
      <3> QED  BY <1>7, <1>8, <1>10, <2>3, <3>2, FirstRevisionSettled
    <2> QED  BY <2>1, <2>2, <2>3
  <1> QED  BY <1>9, <1>10, Placed

LEMMA CreateAllPlaced ==
  ASSUME IInv, PlaceInv, command = "create_all", NEW s, NEW n, NEW ends, NEW keeps,
         Executes(s, n, ends, keeps), Marks(ends, keeps)
  PROVE  PlaceInv'
  <1>1. TypeInv /\ Txn /\ Sound(db) /\ ~Idle /\ MakeFacts(db, todo)
    BY DEF IInv, Script, Executes
  <1>2. todo \in Seq(Statement) /\ Len(todo) > 0
        /\ n = Len(todo) /\ s = Head(todo) /\ n \in Nat /\ Fits(db, s) /\ db' = After(db, s)
        /\ command' = "create_all"
    BY <1>1 DEF TypeInv, Executes
  <1>3. db'.version = db.version
    BY <1>1, <1>2, MakeStep
  <1>4. \A ids : StillKept(ids, db') = ids
    BY <1>3, Commands DEF StillKept
  <1>5. kept' = kept /\ keptChunks' = keptChunks
    BY <1>1, <1>4, ExecuteRest
  <1>6. Creation(s)
    <2>1. s = todo[1] /\ 1 \in 1..Len(todo)
      BY <1>2, TailOf
    <2> QED  BY <1>1, <2>1 DEF MakeFacts
  <1>7. ASSUME Calm', db.version = Revision2
        PROVE  Settled(db', kept', keptChunks')
    <2>1. Settled(db, kept, keptChunks)
      BY <1>1, <1>7, CalmBefore DEF Finds
    <2>2. Shaped(db)
      BY <1>1 DEF Sound
    <2> QED  BY <1>2, <1>5, <1>6, <1>7, <2>1, <2>2, MakePlace
  <1>8. Calm' => Finds'
    BY <1>2, <1>3, <1>7, FindsNext
  <1>9. ASSUME ends, Calm'
        PROVE  Settled(db', kept', keptChunks')
    <2>1. keeps
      BY <1>9 DEF Executes
    <2>2. db.version = Revision2
      BY <1>9, <2>1, CalmBefore
    <2> QED  BY <1>7, <1>9, <2>2
  <1> QED  BY <1>8, <1>9, Placed

\* A statement of the second revision's downgrade, m statements before its end.
LEMMA DownPlaced ==
  ASSUME IInv, PlaceInv, NEW s, NEW n, NEW ends, NEW keeps, Executes(s, n, ends, keeps),
         command \in {DownTo(Base), DownTo(Revision1)},
         NEW m \in 1..33, DownFacts(db, m), s = FromEnd(Down, m), m < 10 => inTxn, m > 1 => n > 1,
         DownFinds(db, m), Within(db, kept, keptChunks)
  PROVE  /\ m > 1 => /\ DownFinds(db', m - 1) /\ Within(db', kept', keptChunks') /\ ~ends
         /\ m = 1 => /\ Settled(db', Defaults(kept), Defaults(keptChunks))
                     /\ keeps => kept' = Defaults(kept) /\ keptChunks' = Defaults(keptChunks)
  <1>1. TypeInv /\ Txn /\ Sound(db) /\ Shaped(db) /\ Fits(db, s) /\ db' = After(db, s)
        /\ db.version = Revision2
    BY DEF IInv, Sound, Executes, DownFacts
  <1>2. /\ m > 1 => DownFacts(db', m - 1)
        /\ m = 1 => db'.version = Revision1
    BY DownMoves
  <1>3. ASSUME m > 1
        PROVE  DownFinds(db', m - 1) /\ Within(db', kept', keptChunks') /\ ~ends
    <2>1. Tame(db, db') /\ DownFinds(db', m - 1)
      BY <1>1, <1>3, DownPlace
    <2>2. Within(db', kept, keptChunks)
      BY <2>1, WithinTame
    <2>3. db'.version = Revision2
      BY <1>2, <1>3 DEF DownFacts
    <2>4. \A ids : StillKept(ids, db') = ids
      BY <1>1, <2>3, Commands DEF StillKept
    <2>5. kept' = kept /\ keptChunks' = keptChunks
      BY <1>1, <2>4, ExecuteRest
    <2>6. m \in 2..33 /\ n # 1
      <3>1. n > 1 /\ n \in Nat
        BY <1>3 DEF Executes
      <3> QED  BY <1>3, <3>1
    <2>7. ~ends
      BY <2>6, DownOps DEF Executes
    <2> QED  BY <2>1, <2>2, <2>5, <2>7
  <1>4. ASSUME m = 1
        PROVE  /\ Settled(db', Defaults(kept), Defaults(keptChunks))
               /\ keeps => kept' = Defaults(kept) /\ keptChunks' = Defaults(keptChunks)
    <2>1. s = Stamp(Revision1)
      BY <1>4, DownEnd
    <2>2. Still(db, db') /\ db'.version = Revision1
      BY <1>1, <2>1, StampStill
    <2>3. Settled(db', Defaults(kept), Defaults(keptChunks))
      BY <1>1, <1>4, <2>2, DowngradeSettled
    <2>4. \A ids : StillKept(ids, db') = Defaults(ids)
      BY <1>1, <2>2, Commands DEF StillKept, Defaults
    <2> QED  BY <1>1, <2>3, <2>4, ExecuteRest
  <1> QED  BY <1>3, <1>4

LEMMA DowngradePlaced ==
  ASSUME IInv, PlaceInv, command = DownTo(Revision1),
         NEW s, NEW n, NEW ends, NEW keeps, Executes(s, n, ends, keeps), Marks(ends, keeps)
  PROVE  PlaceInv'
  <1>1. TypeInv /\ ~Idle /\ DownScript(Down, Len(todo))
    BY DEF IInv, Script, Executes
  <1>2. todo \in Seq(Statement) /\ Down \in Seq(Statement) /\ Len(Down) = 33 /\ EndOf(todo, Down)
        /\ n = Len(todo) /\ s = Head(todo) /\ Len(todo') = n - 1
        /\ (n < 10 => inTxn) /\ DownFacts(db, n) /\ command' = command /\ (Idle' <=> n = 1)
    BY <1>1, DownEnd DEF TypeInv, DownScript, Executes
  <1>3. n \in 1..33 /\ s = FromEnd(Down, n)
    BY <1>2, EndOfTail
  <1>4. ends => keeps
    BY DEF Executes
  <1>5. ASSUME Calm'
        PROVE  /\ n > 1 => DownFinds(db', n - 1) /\ Within(db', kept', keptChunks') /\ ~ends
               /\ n = 1 /\ ends => Settled(db', kept', keptChunks')
    <2>1. Finds
      BY <1>5, CalmBefore
    <2>2. DownFinds(db, n) /\ Within(db, kept, keptChunks)
      BY <1>1, <1>2, <2>1 DEF Finds
    <2>3. /\ n > 1 => /\ DownFinds(db', n - 1) /\ Within(db', kept', keptChunks') /\ ~ends
          /\ n = 1 => /\ Settled(db', Defaults(kept), Defaults(keptChunks))
                      /\ keeps => kept' = Defaults(kept) /\ keptChunks' = Defaults(keptChunks)
      BY <1>2, <1>3, <2>2, DownPlaced
    <2> QED  BY <1>4, <2>3
  <1>6. ~Idle' => n > 1
    BY <1>2, <1>3
  <1>7. Calm' => Finds'
    BY <1>2, <1>5, <1>6, FindsNext
  <1>8. ends /\ Calm' => Settled(db', kept', keptChunks')
    <2>1. n > 1 \/ n = 1
      BY <1>3
    <2> QED  BY <1>5, <2>1
  <1> QED  BY <1>7, <1>8, Placed

LEMMA SecondUndonePlaced ==
  ASSUME IInv, PlaceInv, command = DownTo(Base), NEW s, NEW n, NEW ends, NEW keeps,
         Executes(s, n, ends, keeps), Marks(ends, keeps), n > 3
  PROVE  PlaceInv'
  <1>1. TypeInv /\ ~Idle /\ EndOf(todo, DownAll) /\ command' = command
        /\ n = Len(todo) /\ s = Head(todo) /\ Len(todo') = n - 1
        /\ DownScript(DownAll, n - 3)
    BY DEF IInv, Script, Executes
  <1>2. todo \in Seq(Statement) /\ DownAll \in Seq(Statement) /\ Len(DownAll) = 36
    BY <1>1, DownAllEnd DEF TypeInv
  <1>3. n \in 4..36 /\ s = FromEnd(DownAll, n)
    <2>1. n \in 1..36 /\ s = FromEnd(DownAll, n)
      BY <1>1, <1>2, EndOfTail
    <2>2. n \in 4..36
      BY <2>1
    <2> QED  BY <2>1, <2>2
  <1> DEFINE m == n - 3
  <1>4. m \in 1..33 /\ s = FromEnd(Down, m) /\ (m > 1 => n > 1) /\ Len(todo') - 3 = m - 1
        /\ (Len(todo') > 3 <=> m > 1) /\ (Len(todo') <= 3 <=> m = 1) /\ (m = 1 => Len(todo') = 3)
    <2>1. /\ m \in 1..33 /\ (m > 1 => n > 1) /\ (n - 1) - 3 = m - 1
          /\ (n - 1 > 3 <=> m > 1) /\ (n - 1 <= 3 <=> m = 1) /\ (m = 1 => n - 1 = 3)
      BY <1>3
    <2>2. FromEnd(DownAll, n) = FromEnd(Down, n - 3)
      BY <1>3, DownAllEnd
    <2> QED  BY <1>1, <1>3, <2>1, <2>2
  <1>5. DownFacts(db, m) /\ (m < 10 => inTxn)
    BY <1>1 DEF DownScript
  <1>6. ends => keeps
    BY DEF Executes
  <1>7. Finds => DownFinds(db, m) /\ Within(db, kept, keptChunks)
    BY <1>1 DEF Finds
  <1> HIDE DEF m
  <1>8. ASSUME Calm'
        PROVE  /\ m > 1 => DownFinds(db', m - 1) /\ Within(db', kept', keptChunks') /\ ~ends
               /\ m = 1 => BaseFinds(db', 3)
               /\ m = 1 /\ ends => Settled(db', kept', keptChunks')
    <2>1. DownFinds(db, m) /\ Within(db, kept, keptChunks)
      BY <1>7, <1>8, CalmBefore
    <2>2. /\ m > 1 => /\ DownFinds(db', m - 1) /\ Within(db', kept', keptChunks') /\ ~ends
          /\ m = 1 => /\ Settled(db', Defaults(kept), Defaults(keptChunks))
                      /\ keeps => kept' = Defaults(kept) /\ keptChunks' = Defaults(keptChunks)
      BY <1>4, <1>5, <2>1, DownPlaced
    <2>3. m = 1 => db'.version = Revision1
      BY <1>4, <1>5, DownMoves
    <2>4. m = 1 => BaseFinds(db', 3)
      BY <2>2, <2>3 DEF Settled, BaseFinds
    <2> QED  BY <1>6, <2>2, <2>4
  <1>9. Calm' => Finds'
    <2> SUFFICES ASSUME Calm'
                 PROVE  Finds'
      OBVIOUS
    <2>1. Len(todo') > 3 => DownFinds(db', Len(todo') - 3) /\ Within(db', kept', keptChunks')
      BY <1>4, <1>8
    <2>2. ~Idle' /\ Len(todo') <= 3 => BaseFinds(db', Len(todo'))
      BY <1>4, <1>8
    <2> QED  BY <1>1, <2>1, <2>2, FindsNext
  <1>10. ends /\ Calm' => Settled(db', kept', keptChunks')
    <2>1. m > 1 \/ m = 1
      BY <1>4
    <2> QED  BY <1>8, <2>1
  <1> QED  BY <1>9, <1>10, Placed

LEMMA FirstUndonePlaced ==
  ASSUME IInv, PlaceInv, command = DownTo(Base), NEW s, NEW n, NEW ends, NEW keeps,
         Executes(s, n, ends, keeps), Marks(ends, keeps), n <= 3
  PROVE  PlaceInv'
  <1>1. TypeInv /\ ~Idle /\ EndOf(todo, DownAll) /\ command' = command
        /\ n = Len(todo) /\ s = Head(todo) /\ Len(todo') = n - 1
        /\ Shaped(db) /\ Fits(db, s) /\ db' = After(db, s) /\ (Idle' <=> n = 1)
        /\ db.version = Revision1
    BY DEF IInv, Sound, Script, Executes
  <1>2. todo \in Seq(Statement) /\ DownAll \in Seq(Statement) /\ Len(DownAll) = 36
    BY <1>1, DownAllEnd DEF TypeInv
  <1>3. n \in 1..36 /\ s = FromEnd(DownAll, n)
    BY <1>1, <1>2, EndOfTail
  <1>4. n \in 1..3
    BY <1>3
  <1>5. ends <=> n = 1
    <2>1. CASE n = 1
      BY <2>1 DEF Executes
    <2>2. CASE n \in {2, 3}
      <3>1. \E t : s = DropTable(t)
        BY <1>3, <2>2, DownAllEnd
      <3>2. s.op # "stamp"
        BY <3>1, NoStamp
      <3>3. n # 1
        BY <2>2
      <3> QED  BY <3>2, <3>3 DEF Executes
    <2>3. n = 1 \/ n \in {2, 3}
      BY <1>4
    <2> QED  BY <2>1, <2>2, <2>3
  <1>6. ends => kept' = {} /\ keptChunks' = {}
    <2>1. \A ids : StillKept(ids, db') = {}
      BY <1>1, Commands DEF StillKept
    <2> QED  BY <2>1 DEF Executes
  <1>7. ASSUME Calm'
        PROVE  (n > 1 => BaseFinds(db', n - 1)) /\ (n = 1 => Settled(db', {}, {}))
    <2>1. BaseFinds(db, n)
      BY <1>1, <1>7, CalmBefore DEF Finds
    <2> QED  BY <1>1, <1>3, <1>4, <2>1, BasePlace
  <1>8. Calm' => Finds'
    <2> SUFFICES ASSUME Calm', ~Idle'
                 PROVE  Finds'
      BY FindsNext
    <2>1. n > 1 /\ ~(Len(todo') > 3)
      BY <1>1, <1>4
    <2> QED  BY <1>1, <1>7, <2>1, FindsNext
  <1>9. ends /\ Calm' => Settled(db', kept', keptChunks')
    BY <1>5, <1>6, <1>7
  <1> QED  BY <1>8, <1>9, Placed

LEMMA ExecutePlaced ==
  ASSUME IInv, PlaceInv, Execute
  PROVE  PlaceInv'
  <1>1. TypeInv
    BY DEF IInv
  <1>2. PICK s, n, ends, keeps : Executes(s, n, ends, keeps) /\ Marks(ends, keeps)
    BY <1>1, ExecuteMarks
  <1>3. command \in {"upgrade", "create_all", DownTo(Revision1), DownTo(Base)} /\ n \in Nat
    BY <1>2 DEF IInv, Script, Executes
  <1>4. n > 3 \/ n <= 3
    BY <1>3
  <1> QED  BY <1>2, <1>3, <1>4, UpgradePlaced, CreateAllPlaced, DowngradePlaced,
              SecondUndonePlaced, FirstUndonePlaced

-----------------------------------------------------------------------------
(* A command begins, in a settled database, or stops. *)

LEMMA PlaceBegun ==
  ASSUME IInv, PlaceInv, NEW name, NEW p, Begin(name, p),
         Calm /\ Settled(db, kept, keptChunks) => Finds'
  PROVE  PlaceInv'
  <1>1. /\ Idle /\ p # <<>> /\ todo' = p /\ db' = db /\ committed' = committed
        /\ kept' = kept /\ keptChunks' = keptChunks
        /\ dirty' = dirty /\ torn' = torn /\ mixed' = mixed
    BY DEF Begin
  <1>2. db = committed /\ ~dirty
    BY <1>1 DEF IInv, Txn, PlaceInv
  <1>3. ~Idle'
    BY <1>1 DEF Idle
  <1>4. Calm' <=> Calm
    BY <1>1 DEF Calm
  <1>5. Calm' /\ ~dirty' => Settled(committed', kept', keptChunks')
    BY <1>1, <1>4 DEF PlaceInv
  <1>6. Calm' => Finds'
    BY <1>2, <1>4 DEF PlaceInv
  <1> QED  BY <1>1, <1>3, <1>5, <1>6 DEF PlaceInv

\* What a script finds in a settled database.
LEMMA SettledUp ==
  ASSUME NEW d, NEW N, NEW C, Settled(d, N, C)
  PROVE  /\ d.version = Base => UpFinds(d, 43) /\ AllDefault(N)
         /\ d.version = Revision1 => UpFinds(d, 35) /\ AllDefault(N)
  <1>1. ~Has(d, "notes_scoped") /\ ~Has(d, "note_chunks_scoped")
        /\ ~Has(d, "notes_legacy") /\ ~Has(d, "note_chunks_legacy")
    BY DEF Settled, Clean
  <1>2. ASSUME d.version = Base
        PROVE  UpFinds(d, 43) /\ AllDefault(N)
    <2>1. ~Has(d, "notes") /\ AllDefault(N)
      BY <1>2, Commands DEF Settled
    <2>2. 43 \notin 29..42 /\ 43 \notin 30..39 /\ ~(43 < 19) /\ ~(43 < 26)
      OBVIOUS
    <2> QED  BY <1>1, <2>1, <2>2 DEF UpFinds
  <1>3. ASSUME d.version = Revision1
        PROVE  UpFinds(d, 35) /\ AllDefault(N)
    <2>1. HasKey(d, "notes", {"note"}) /\ HasKey(d, "note_chunks", {"note"})
          /\ Refers(d, ChunkRefs) /\ AllDefault(N)
      BY <1>3, Commands DEF Settled
    <2>2. 35 \notin (25..28) \cup {43} /\ ~(35 < 19) /\ ~(35 < 26)
      OBVIOUS
    <2> QED  BY <1>1, <2>1, <2>2 DEF UpFinds
  <1> QED  BY <1>2, <1>3

LEMMA SettledDown ==
  ASSUME NEW d, NEW N, NEW C, Settled(d, N, C)
  PROVE  DownFinds(d, 33) /\ (d.version = Revision1 => BaseFinds(d, 3))
  <1>1. ~Has(d, "notes_scoped") /\ ~Has(d, "note_chunks_scoped") /\ Clean(d)
    BY DEF Settled, Clean
  <1>2. 33 # 13 /\ 33 # 14 /\ ~(33 < 9) /\ ~(3 < 3) /\ ~(3 < 2)
    OBVIOUS
  <1>3. DownFinds(d, 33)
    BY <1>1, <1>2 DEF DownFinds
  <1>4. d.version = Revision1 => BaseFinds(d, 3)
    BY <1>1, <1>2 DEF BaseFinds, Settled
  <1> QED  BY <1>3, <1>4

LEMMA UpgradePlacedBegun ==
  ASSUME IInv, PlaceInv, Upgrade
  PROVE  PlaceInv'
  <1> DEFINE second == Upgrade2 \o <<Stamp(Revision2)>>
  <1>1. db.version \in {Base, Revision1, Revision2}
    BY DEF IInv, Sound, Shaped
  <1>2. CASE db.version = Base
    <2>1. Begin("upgrade", Up)
      BY <1>2, Commands DEF Upgrade, Up
    <2>2. todo' = Up /\ command' = "upgrade" /\ db' = db /\ kept' = kept
          /\ keptChunks' = keptChunks
      BY <2>1 DEF Begin
    <2>3. Len(todo') = 43
      BY <2>2, UpEnd
    <2>4. ASSUME Settled(db, kept, keptChunks)
          PROVE  Finds'
      <3>1. UpFinds(db, 43) /\ AllDefault(kept)
        BY <1>2, <2>4, SettledUp
      <3>2. Within(db, kept, keptChunks)
        BY <2>4 DEF Settled
      <3> QED  BY <2>2, <2>3, <3>1, <3>2, FindsNext
    <2> QED  BY <2>1, <2>4, PlaceBegun
  <1>3. CASE db.version = Revision1
    <2>1. second \in Seq(Statement) /\ Len(second) = 35
      BY UpEnd
    <2>2. Begin("upgrade", <<>> \o second)
      BY <1>3, Commands DEF Upgrade
    <2> HIDE DEF second
    <2>3. Begin("upgrade", second)
      BY <2>1, <2>2, EmptyBoth
    <2>4. todo' = second /\ command' = "upgrade" /\ db' = db /\ kept' = kept
          /\ keptChunks' = keptChunks
      BY <2>3 DEF Begin
    <2>5. Len(todo') = 35
      BY <2>1, <2>4
    <2>6. ASSUME Settled(db, kept, keptChunks)
          PROVE  Finds'
      <3>1. UpFinds(db, 35) /\ AllDefault(kept)
        BY <1>3, <2>6, SettledUp
      <3>2. Within(db, kept, keptChunks)
        BY <2>6 DEF Settled
      <3> QED  BY <2>4, <2>5, <3>1, <3>2, FindsNext
    <2> QED  BY <2>3, <2>6, PlaceBegun
  <1>4. CASE db.version = Revision2
    <2>1. Begin("upgrade", <<>> \o <<>>)
      BY <1>4, Commands DEF Upgrade
    <2>2. FALSE
      BY <2>1, EmptyBoth DEF Begin
    <2> QED  BY <2>2
  <1> QED  BY <1>1, <1>2, <1>3, <1>4

LEMMA DowngradePlacedBegun ==
  ASSUME IInv, PlaceInv, Downgrade(Revision1)
  PROVE  PlaceInv'
  <1>1. db.version \in {Base, Revision1, Revision2} /\ db.version # Revision1
    BY DEF IInv, Sound, Shaped, Downgrade
  <1>2. CASE db.version = Base
    <2>1. Begin(DownTo(Revision1), <<>> \o <<>>)
      BY <1>2, Commands DEF Downgrade
    <2>2. FALSE
      BY <2>1, EmptyBoth DEF Begin
    <2> QED  BY <2>2
  <1>3. CASE db.version = Revision2
    <2>1. Down \in Seq(Statement) /\ Len(Down) = 33
      BY DownEnd
    <2>2. Begin(DownTo(Revision1), Down \o <<>>)
      BY <1>3, Commands DEF Downgrade, Down
    <2>3. Begin(DownTo(Revision1), Down)
      BY <2>1, <2>2, EmptyBoth
    <2>4. todo' = Down /\ command' = DownTo(Revision1) /\ db' = db /\ kept' = kept
          /\ keptChunks' = keptChunks
      BY <2>3 DEF Begin
    <2>5. Len(todo') = 33
      BY <2>1, <2>4
    <2>6. ASSUME Settled(db, kept, keptChunks)
          PROVE  Finds'
      <3>1. DownFinds(db, 33)
        BY <2>6, SettledDown
      <3>2. Within(db, kept, keptChunks)
        BY <2>6 DEF Settled
      <3> QED  BY <2>4, <2>5, <3>1, <3>2, FindsNext
    <2> QED  BY <2>3, <2>6, PlaceBegun
  <1> QED  BY <1>1, <1>2, <1>3

LEMMA DowngradeToBasePlacedBegun ==
  ASSUME IInv, PlaceInv, Downgrade(Base)
  PROVE  PlaceInv'
  <1> DEFINE last == Downgrade1 \o <<Stamp(Base)>>
  <1>1. db.version \in {Revision1, Revision2}
    BY DEF IInv, Sound, Shaped, Downgrade
  <1>2. CASE db.version = Revision1
    <2>1. last \in Seq(Statement) /\ Len(last) = 3
      BY DownAllEnd
    <2>2. Begin(DownTo(Base), <<>> \o last)
      BY <1>2, Commands DEF Downgrade
    <2> HIDE DEF last
    <2>3. Begin(DownTo(Base), last)
      BY <2>1, <2>2, EmptyBoth
    <2>4. todo' = last /\ command' = DownTo(Base) /\ db' = db
      BY <2>3 DEF Begin
    <2>5. Len(todo') = 3 /\ ~(Len(todo') > 3)
      <3>1. Len(todo') = 3
        BY <2>1, <2>4
      <3> QED  BY <3>1
    <2>6. ASSUME Settled(db, kept, keptChunks)
          PROVE  Finds'
      <3>1. BaseFinds(db, 3)
        BY <1>2, <2>6, SettledDown
      <3> QED  BY <2>4, <2>5, <3>1, FindsNext
    <2> QED  BY <2>3, <2>6, PlaceBegun
  <1>3. CASE db.version = Revision2
    <2>1. Begin(DownTo(Base), Down \o last)
      BY <1>3, Commands DEF Downgrade, Down
    <2>2. Begin(DownTo(Base), DownAll)
      BY <2>1 DEF DownAll
    <2>3. todo' = DownAll /\ command' = DownTo(Base) /\ db' = db /\ kept' = kept
          /\ keptChunks' = keptChunks
      BY <2>2 DEF Begin
    <2>4. Len(todo') = 36 /\ ~(Len(todo') <= 3) /\ Len(todo') - 3 = 33
      <3>1. Len(todo') = 36
        BY <2>3, DownAllEnd
      <3> QED  BY <3>1
    <2>5. ASSUME Settled(db, kept, keptChunks)
          PROVE  Finds'
      <3>1. DownFinds(db, 33)
        BY <2>5, SettledDown
      <3>2. Within(db, kept, keptChunks)
        BY <2>5 DEF Settled
      <3>3. DownFinds(db', Len(todo') - 3) /\ Within(db', kept', keptChunks')
        BY <2>3, <2>4, <3>1, <3>2
      <3> QED  BY <2>3, <2>4, <3>3, FindsNext
    <2> QED  BY <2>2, <2>5, PlaceBegun
  <1> QED  BY <1>1, <1>2, <1>3

LEMMA StartAppPlacedBegun ==
  ASSUME IInv, PlaceInv, StartApp
  PROVE  PlaceInv'
  <1> DEFINE p == CreateAll(db)
  <1>1. Begin("create_all", p)
    BY DEF StartApp
  <1> HIDE DEF p
  <1>2. command' = "create_all" /\ db' = db /\ kept' = kept /\ keptChunks' = keptChunks
    BY <1>1 DEF Begin
  <1>3. Settled(db, kept, keptChunks) => Finds'
    BY <1>2, FindsNext
  <1> QED  BY <1>1, <1>3, PlaceBegun

LEMMA AbandonedPlaced ==
  ASSUME IInv, PlaceInv, Abandon
  PROVE  PlaceInv'
  <1>1. /\ todo' = <<>> /\ committed' = committed /\ kept' = kept /\ keptChunks' = keptChunks
        /\ dirty' = FALSE /\ torn' = (torn \/ dirty) /\ mixed' = mixed
    BY DEF Abandon
  <1>2. dirty \in BOOLEAN /\ torn \in BOOLEAN /\ mixed \in BOOLEAN /\ keptChunks \subseteq kept
    BY DEF PlaceInv
  <1>3. Idle'
    BY <1>1 DEF Idle
  <1>4. Finds'
    BY <1>3, FindsNext
  <1>5. dirty' \in BOOLEAN /\ torn' \in BOOLEAN /\ mixed' \in BOOLEAN
    BY <1>1, <1>2
  <1>6. ASSUME Calm'
        PROVE  Settled(committed', kept', keptChunks')
    <2>1. Calm /\ ~dirty
      BY <1>1, <1>6 DEF Calm
    <2>2. Settled(committed, kept, keptChunks)
      BY <2>1 DEF PlaceInv
    <2> QED  BY <1>1, <2>2
  <1>7. ~dirty' /\ keptChunks' \subseteq kept'
    BY <1>1, <1>2
  <1> QED  BY <1>4, <1>5, <1>6, <1>7 DEF PlaceInv

-----------------------------------------------------------------------------
(* The application replaces the notes of a vault of such a database. *)

OtherIds(N, v, ids) == {i \in N : i[1] # v} \cup ids

LEMMA StorePlace ==
  ASSUME NEW d, Sound(d), Clean(d), NEW e, NEW v, NEW ids, Stores(d, e, v, ids),
         NEW N, NEW C, Within(d, N, C)
  PROVE  Clean(e) /\ Within(e, OtherIds(N, v, ids), OtherIds(C, v, ids))
  <1>1. Clean(e)
    BY DEF Stores, Clean
  <1>2. ASSUME NEW u \in {"notes", "note_chunks"}, NEW K, IdsIn(d, u) \subseteq K
        PROVE  IdsIn(e, u) \subseteq OtherIds(K, v, ids)
    <2> SUFFICES ASSUME NEW i \in IdsIn(e, u)
                 PROVE  i \in OtherIds(K, v, ids)
      OBVIOUS
    <2>1. Has(d, u) /\ d.tables[u].key = ScopedKey /\ e.tables[u].rows = Stored(d, u, v, ids)
      BY DEF Stores, HasKey
    <2>2. PICK r \in Stored(d, u, v, ids) : r.id = i
      BY <2>1 DEF IdsIn
    <2>3. CASE r \in StoredRows(v, ids)
      BY <2>2, <2>3 DEF StoredRows, OtherIds
    <2>4. CASE r \in d.tables[u].rows /\ r.vault # v
      <3>1. Keyed(d, u)
        BY Names DEF Sound
      <3>2. r.vault = r.id[1]
        BY <2>1, <2>4, <3>1, Keys DEF Keyed
      <3>3. i \in IdsIn(d, u)
        BY <2>1, <2>2, <2>4 DEF IdsIn, Has
      <3> QED  BY <1>2, <2>2, <2>4, <3>2, <3>3 DEF OtherIds
    <2> QED  BY <2>2, <2>3, <2>4 DEF Stored
  <1>3. IdsIn(d, "notes") \subseteq N /\ IdsIn(d, "note_chunks") \subseteq C
    BY CleanRows DEF Within
  <1>4. Rows(e, NoteTables) \subseteq OtherIds(N, v, ids)
    BY <1>1, <1>2, <1>3, CleanRows
  <1>5. Rows(e, ChunkTables) \subseteq OtherIds(C, v, ids)
    BY <1>1, <1>2, <1>3, CleanRows
  <1>6. Noted(e)
    <2> SUFFICES ASSUME NEW u \in Stages, Has(e, u), NEW r \in e.tables[u].rows
                 PROVE  r.note = r.id[2]
      BY DEF Noted
    <2>1. u \in {"notes", "note_chunks"}
      BY <1>1, StagesAre DEF Clean
    <2>2. Has(d, u) /\ r \in Stored(d, u, v, ids)
      BY <2>1 DEF Stores, HasKey
    <2>3. CASE r \in StoredRows(v, ids)
      BY <2>3 DEF StoredRows
    <2>4. CASE r \in d.tables[u].rows
      BY <2>2, <2>4 DEF Within, Noted
    <2> QED  BY <2>2, <2>3, <2>4 DEF Stored
  <1> QED  BY <1>1, <1>4, <1>5, <1>6 DEF Within

LEMMA StoreSettled ==
  ASSUME NEW d, Sound(d), NEW e, NEW v, NEW ids, Stores(d, e, v, ids), \A i \in ids : i[1] = v,
         NEW N, NEW C, Settled(d, N, C)
  PROVE  d.version = Revision2 /\ Settled(e, OtherIds(N, v, ids), OtherIds(C, v, ids))
  <1>1. HasKey(d, "notes", ScopedKey) /\ HasKey(d, "note_chunks", ScopedKey)
        /\ e.version = d.version
    BY DEF Stores
  <1>2. d.version = Revision2
    <2>1. d.version # Base
      BY <1>1 DEF Settled, HasKey
    <2>2. d.version # Revision1
      BY <1>1, Keys DEF Settled, HasKey
    <2>3. d.version \in {Base, Revision1, Revision2}
      BY DEF Sound, Shaped
    <2> QED  BY <2>1, <2>2, <2>3
  <1>3. Clean(e) /\ Within(e, OtherIds(N, v, ids), OtherIds(C, v, ids))
    BY StorePlace DEF Settled
  <1>4. HasKey(e, "notes", ScopedKey) /\ HasKey(e, "note_chunks", ScopedKey)
    BY <1>1 DEF Stores
  <1>5. Refers(e, OfNote)
    BY <1>2 DEF Settled, Stores, Refers
  <1>6. \A i \in OtherIds(N, v, ids) : VaultOf(e, i[1])
    <2>1. \A i \in N : VaultOf(e, i[1])
      BY <1>2 DEF Settled, Stores
    <2>2. VaultOf(e, v)
      BY DEF Stores
    <2> QED  BY <2>1, <2>2 DEF OtherIds
  <1> QED  BY <1>1, <1>2, <1>3, <1>4, <1>5, <1>6, Commands DEF Settled

\* While an upgrade is outside a transaction no table is scoped, and it is not
\* while a downgrade to base is in its last statements.
LEMMA NoStoreUp ==
  ASSUME NEW d, NEW e, NEW v, NEW ids, Stores(d, e, v, ids), NEW n \in 26..43, UpFinds(d, n)
  PROVE  FALSE
  <1>1. HasKey(d, "notes", ScopedKey)
    BY DEF Stores
  <1>2. CASE n \in (25..28) \cup {43}
    BY <1>1, <1>2 DEF UpFinds, HasKey
  <1>3. CASE n \in 29..42
    BY <1>1, <1>3, Keys DEF UpFinds, HasKey
  <1> QED  BY <1>2, <1>3

LEMMA NoStoreBase ==
  ASSUME NEW d, NEW e, NEW v, NEW ids, Stores(d, e, v, ids), NEW n \in 1..3, BaseFinds(d, n)
  PROVE  FALSE
  <1>1. HasKey(d, "notes", ScopedKey)
    BY DEF Stores
  <1>2. n < 2 \/ n >= 2
    OBVIOUS
  <1> QED  BY <1>1, <1>2, Keys DEF BaseFinds, HasKey

LEMMA StoreDownPlace ==
  ASSUME NEW d, Sound(d), NEW e, NEW v, NEW ids, Stores(d, e, v, ids),
         NEW n \in 10..33, DownFacts(d, n), DownFinds(d, n), NEW N, NEW C, Within(d, N, C)
  PROVE  DownFinds(e, n) /\ Within(e, OtherIds(N, v, ids), OtherIds(C, v, ids))
  <1>1. HasKey(d, "notes", ScopedKey) /\ HasKey(d, "note_chunks", ScopedKey)
        /\ \A u : Has(e, u) <=> Has(d, u)
    BY DEF Stores
  <1>2. ~(n < 13)
    BY <1>1, Keys DEF DownFacts, DowngradingNotes, Downgrading, HasKey
  <1>3. n # 13 /\ n # 14
    BY <1>1 DEF DownFinds, HasKey
  <1>4. n >= 15 /\ n >= 14 /\ ~(n < 9)
    BY <1>2, <1>3
  <1>5. Clean(d)
    BY <1>4 DEF Sound, AtHead, DownFacts, DownFinds, Clean
  <1>6. DownFinds(e, n)
    BY <1>1, <1>3, <1>4 DEF DownFinds
  <1> QED  BY <1>5, <1>6, StorePlace

LEMMA StorePlaced ==
  ASSUME IInv, PlaceInv, NEW v, NEW notes, StoreNotes(v, notes)
  PROVE  PlaceInv'
  <1>1. PICK ids : /\ \A i \in ids : i[1] = v
                   /\ Stores(db, db', v, ids) /\ committed' = db'
                   /\ kept' = {i \in kept : i[1] # v} \cup ids
                   /\ keptChunks' = {i \in keptChunks : i[1] # v} \cup ids
                   /\ db = committed /\ ~inTxn /\ inTxn' = inTxn
                   /\ (backend = "postgresql" => Idle)
                   /\ todo' = todo /\ command' = command /\ backend' = backend
    BY StoreIs
  <1>2. kept' = OtherIds(kept, v, ids) /\ keptChunks' = OtherIds(keptChunks, v, ids)
    BY <1>1 DEF OtherIds
  <1>3. Sound(db) /\ Script
    BY DEF IInv
  <1>4. dirty' = dirty /\ torn' = torn /\ mixed' = mixed
    BY DEF StoreNotes
  <1>5. (Idle' <=> Idle) /\ (Calm' <=> Calm)
    BY <1>1, <1>4 DEF Idle, Calm
  <1>6. keptChunks' \subseteq kept'
    BY <1>1 DEF PlaceInv
  <1>7. db'.version = db.version
    BY <1>1 DEF Stores
  <1>8. Settled(db, kept, keptChunks) => Settled(db', kept', keptChunks')
    <2> SUFFICES ASSUME Settled(db, kept, keptChunks)
                 PROVE  Settled(db', kept', keptChunks')
      OBVIOUS
    <2>1. Stores(db, db', v, ids) /\ \A i \in ids : i[1] = v
      BY <1>1
    <2>2. Settled(db', OtherIds(kept, v, ids), OtherIds(keptChunks, v, ids))
      BY <1>3, <2>1, StoreSettled
    <2> QED  BY <1>2, <2>2
  <1>9. Calm' /\ ~dirty' => Settled(committed', kept', keptChunks')
    BY <1>1, <1>4, <1>5, <1>8 DEF PlaceInv
  <1>10. ASSUME NEW m \in 1..33, DownFacts(db, m), m < 10 => inTxn, DownFinds(db, m),
                Within(db, kept, keptChunks)
         PROVE  DownFinds(db', m) /\ Within(db', kept', keptChunks')
    <2>1. m \in 10..33
      BY <1>1, <1>10
    <2>2. Stores(db, db', v, ids)
      BY <1>1
    <2>3. DownFinds(db', m) /\ Within(db', OtherIds(kept, v, ids), OtherIds(keptChunks, v, ids))
      BY <1>3, <1>10, <2>1, <2>2, StoreDownPlace
    <2> QED  BY <1>2, <2>3
  <1>11. ASSUME Calm, ~Idle
         PROVE  Finds'
    <2>1. Finds /\ command \in {"upgrade", "create_all", DownTo(Revision1), DownTo(Base)}
      BY <1>3, <1>11 DEF PlaceInv, Script
    <2>2. CASE command = "upgrade"
      <3>1. UpScript /\ UpFinds(db, Len(todo))
        BY <1>3, <1>11, <2>1, <2>2 DEF Script, Finds
      <3>2. Len(todo) \in 1..43 /\ ~(Len(todo) < 26)
        BY <1>1, <3>1, UpEnd DEF UpScript, EndOf
      <3>3. \A n \in 1..43 : ~(n < 26) => n \in 26..43
        OBVIOUS
      <3> QED  BY <1>1, <3>1, <3>2, <3>3, NoStoreUp
    <2>3. CASE command = "create_all"
      <3>1. db.version = Revision2 => Settled(db, kept, keptChunks)
        BY <1>11, <2>1, <2>3 DEF Finds
      <3> QED  BY <1>1, <1>7, <1>8, <2>3, <3>1, FindsNext
    <2>4. CASE command = DownTo(Revision1)
      <3>1. DownScript(Down, Len(todo)) /\ DownFinds(db, Len(todo)) /\ Within(db, kept, keptChunks)
        BY <1>3, <1>11, <2>1, <2>4 DEF Script, Finds
      <3>2. Len(todo) \in 1..33
        BY <3>1, DownEnd DEF DownScript, EndOf
      <3>3. DownFinds(db', Len(todo)) /\ Within(db', kept', keptChunks')
        BY <1>10, <3>1, <3>2 DEF DownScript
      <3> QED  BY <1>1, <2>4, <3>3, FindsNext
    <2>5. CASE command = DownTo(Base)
      <3>1. EndOf(todo, DownAll)
        BY <1>3, <1>11, <2>5 DEF Script
      <3>2. Len(todo) \in 1..36
        BY <3>1, DownAllEnd DEF EndOf
      <3>3. CASE Len(todo) > 3
        <4>1. DownScript(DownAll, Len(todo) - 3) /\ DownFinds(db, Len(todo) - 3)
              /\ Within(db, kept, keptChunks)
          BY <1>3, <1>11, <2>1, <2>5, <3>3 DEF Script, Finds
        <4>2. Len(todo) - 3 \in 1..33
          <5>1. \A n \in 1..36 : n > 3 => n - 3 \in 1..33
            OBVIOUS
          <5> QED  BY <3>2, <3>3, <5>1
        <4>3. DownFinds(db', Len(todo) - 3) /\ Within(db', kept', keptChunks')
          BY <1>10, <4>1, <4>2 DEF DownScript
        <4>4. ~(Len(todo) <= 3)
          <5>1. \A n \in 1..36 : n > 3 => ~(n <= 3)
            OBVIOUS
          <5> QED  BY <3>2, <3>3, <5>1
        <4> QED  BY <1>1, <2>5, <4>3, <4>4, FindsNext
      <3>4. CASE ~(Len(todo) > 3)
        <4>1. Len(todo) \in 1..3 /\ Len(todo) <= 3
          <5>1. \A n \in 1..36 : ~(n > 3) => n \in 1..3 /\ n <= 3
            OBVIOUS
          <5> QED  BY <3>2, <3>4, <5>1
        <4>2. BaseFinds(db, Len(todo))
          BY <1>11, <2>1, <2>5, <4>1 DEF Finds
        <4> QED  BY <1>1, <4>1, <4>2, NoStoreBase
      <3> QED  BY <3>3, <3>4
    <2> QED  BY <2>1, <2>2, <2>3, <2>4, <2>5
  <1>12. Calm' => Finds'
    <2>1. CASE Idle
      BY <1>5, <2>1, FindsNext
    <2>2. CASE ~Idle
      BY <1>5, <1>11, <2>2
    <2> QED  BY <2>1, <2>2
  <1> QED  BY <1>4, <1>5, <1>6, <1>9, <1>12 DEF PlaceInv

-----------------------------------------------------------------------------
(* The first databases are settled. *)

LEMMA EmptySettled ==
  Settled(Empty, {}, {})
  <1>1. DOMAIN Empty.tables = {} /\ Empty.version = Base
    BY DEF Empty
  <1>2. \A t : ~Has(Empty, t)
    BY <1>1 DEF Has
  <1>3. Within(Empty, {}, {}) /\ Clean(Empty) /\ ~Has(Empty, "notes")
    BY <1>2, NoStages DEF Clean
  <1>4. AllDefault({})
    BY DEF AllDefault
  <1> QED  BY <1>1, <1>3, <1>4, Commands DEF Settled

LEMMA FirstReleaseSettled ==
  ASSUME NEW N, NEW C, \A i \in N : i[1] = Default
  PROVE  Settled(FirstRelease(N, C), N, C)
  <1> DEFINE d == FirstRelease(N, C)
             ids(t) == IF t = "notes" THEN N ELSE C
             rows(t) == {[id |-> i, note |-> i[2]] : i \in ids(t)}
  <1>1. DOMAIN d.tables = {"notes", "note_chunks"} /\ d.version = Revision1
    BY DEF FirstRelease
  <1>2. \A t \in {"notes", "note_chunks"} :
          d.tables[t].key = {"note"} /\ d.tables[t].rows = rows(t)
    BY DEF FirstRelease
  <1>3. d.tables["note_chunks"].refs = ChunkRefs
    BY DEF FirstRelease, ChunkRefs
  <1>4. \A t : \A r \in rows(t) : r.id \in ids(t) /\ r.note = r.id[2]
    <2> SUFFICES ASSUME NEW t, NEW r \in rows(t)
                 PROVE  r.id \in ids(t) /\ r.note = r.id[2]
      OBVIOUS
    <2>1. PICK i \in ids(t) : r = [id |-> i, note |-> i[2]]
      OBVIOUS
    <2>2. r.id = i /\ r.note = i[2]
      BY <2>1
    <2> HIDE DEF ids
    <2> QED  BY <2>2
  <1> HIDE DEF d, rows, ids
  <1>5. \A t : Has(d, t) <=> t \in {"notes", "note_chunks"}
    BY <1>1 DEF Has
  <1>6. Clean(d)
    BY <1>5 DEF Clean
  <1>7. HasKey(d, "notes", {"note"}) /\ HasKey(d, "note_chunks", {"note"}) /\ Refers(d, ChunkRefs)
    BY <1>2, <1>3, <1>5 DEF HasKey, Refers
  <1>8. \A t \in {"notes", "note_chunks"} : IdsIn(d, t) \subseteq ids(t)
    BY <1>1, <1>2, <1>4 DEF IdsIn
  <1>9. IdsIn(d, "notes") \subseteq N /\ IdsIn(d, "note_chunks") \subseteq C
    BY <1>8 DEF ids
  <1>10. Noted(d)
    BY <1>2, <1>4, <1>5 DEF Noted
  <1>11. Within(d, N, C)
    BY <1>6, <1>9, <1>10, CleanRows DEF Within
  <1>12. Settled(d, N, C)
    BY <1>1, <1>6, <1>7, <1>11, Commands DEF Settled, AllDefault
  <1> QED  BY <1>12 DEF d

LEMMA InitPlace ==
  Init => PlaceInv
  <1> SUFFICES ASSUME Init
               PROVE  PlaceInv
    OBVIOUS
  <1>1. Settled(db, kept, keptChunks) /\ keptChunks \subseteq kept
    <2>1. CASE db = Empty /\ kept = {} /\ keptChunks = {}
      BY <2>1, EmptySettled
    <2>2. CASE \E N \in SUBSET NoteIds : \E C \in SUBSET N :
                 /\ kept = {<<Default, n, 0>> : n \in N}
                 /\ keptChunks = {<<Default, n, 0>> : n \in C}
                 /\ db = FirstRelease(kept, keptChunks)
      <3>1. \A i \in kept : i[1] = Default
        BY <2>2
      <3>2. db = FirstRelease(kept, keptChunks) /\ keptChunks \subseteq kept
        BY <2>2
      <3> QED  BY <3>1, <3>2, FirstReleaseSettled
    <2> QED  BY <2>1, <2>2 DEF Init
  <1>2. committed = db /\ todo = <<>> /\ dirty = FALSE /\ torn = FALSE /\ mixed = FALSE
    BY DEF Init
  <1>3. Finds
    BY <1>2 DEF Finds, Idle
  <1> QED  BY <1>1, <1>2, <1>3 DEF PlaceInv

LEMMA UnchangedPlace ==
  ASSUME PlaceInv, UNCHANGED vars
  PROVE  PlaceInv'
  <1>1. /\ db' = db /\ committed' = committed /\ todo' = todo /\ command' = command
        /\ kept' = kept /\ keptChunks' = keptChunks
        /\ dirty' = dirty /\ torn' = torn /\ mixed' = mixed
    BY DEF vars
  <1>2. (Idle' <=> Idle) /\ (Calm' <=> Calm)
    BY <1>1 DEF Idle, Calm
  <1>3. Finds => Finds'
    BY <1>1, <1>2 DEF Finds
  <1>4. Settled(committed, kept, keptChunks) => Settled(committed', kept', keptChunks')
    BY <1>1
  <1> QED  BY <1>1, <1>2, <1>3, <1>4 DEF PlaceInv

LEMMA NextPlace ==
  ASSUME IInv, PlaceInv, Next
  PROVE  PlaceInv'
  <1>1. CASE Upgrade
    BY <1>1, UpgradePlacedBegun
  <1>2. CASE Downgrade(Base)
    BY <1>2, DowngradeToBasePlacedBegun
  <1>3. CASE Downgrade(Revision1)
    BY <1>3, DowngradePlacedBegun
  <1>4. CASE StartApp
    BY <1>4, StartAppPlacedBegun
  <1>5. CASE Execute
    BY <1>5, ExecutePlaced
  <1>6. CASE Refuse
    BY <1>6, AbandonedPlaced DEF Refuse
  <1>7. CASE Crash
    BY <1>7, AbandonedPlaced DEF Crash
  <1>8. CASE \E v \in Vaults, notes \in SUBSET NoteIds : StoreNotes(v, notes)
    BY <1>8, StorePlaced
  <1> QED  BY <1>1, <1>2, <1>3, <1>4, <1>5, <1>6, <1>7, <1>8 DEF Next

\* For any vaults, notes and number of commands, crashes and writes, on either
\* database: between two commands, as long as none stopped half way on SQLite
\* and create_all made nothing below head, the tables the application reads have
\* exactly the rows to keep, each in its vault, and every chunk has its note.
THEOREM RowsInPlaceAlways == Spec => []RowsInPlace
  <1>1. Init => IInv /\ PlaceInv
    BY InitInv, InitPlace
  <1>2. IInv /\ PlaceInv /\ [Next]_vars => IInv' /\ PlaceInv'
    BY NextInv, UnchangedInv, NextPlace, UnchangedPlace
  <1>3. IInv /\ PlaceInv => RowsInPlace
    BY PlaceIsEnough
  <1> QED  BY <1>1, <1>2, <1>3, PTL DEF Spec
=============================================================================
