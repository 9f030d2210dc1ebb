----------------------------- MODULE Flashcards -----------------------------
(***************************************************************************)
(* Flashcards of one vault and their review schedule: FlashcardService     *)
(* (apps/api/src/flashcards.py), KnowledgeBase.generate_flashcards and     *)
(* review_flashcard (engine.py), load_cards and save_cards                 *)
(* (runtime_persistence.py).                                               *)
(*                                                                         *)
(* A review changes the card's review dict field by field, takes a copy    *)
(* and saves the copy; generating cards keeps the dict of a card that      *)
(* exists, takes copies too and saves them all in one transaction.  None   *)
(* of it is locked.  Ease is in hundredths.                                *)
(***************************************************************************)
EXTENDS Integers, FiniteSets

CONSTANTS
  Threads,       \* request threads
  Cards,         \* ids of the cards the vault's notes give
  Ratings,       \* ratings given, of 0..5
  Sqlite,        \* the cards are kept in a SQLite database
  MaxInteger,    \* the largest number a column of it holds
  MaxReviews,    \* bound: reviews
  MaxGenerates,  \* bound: requests to generate
  MaxRestarts    \* bound: restarts of the process

ASSUME FlashcardAssumption ==
  /\ Cards # {} /\ Ratings \subseteq 0..5
  /\ Sqlite \in BOOLEAN
  /\ {MaxInteger, MaxReviews, MaxGenerates, MaxRestarts} \subseteq Nat

VARIABLES
  dict,      \* dict[k][v]: the review dict the v-th generation made for card k
  card,      \* card[k]: the dict _cards has for k, or NoDict
  rows,      \* flashcard_review_state: card -> saved review
  pc, job,   \* pc[t], job[t]: where thread t stands, what it was asked
  copies,    \* copies[t]: card -> the copy of its review t will save
  unsaved,   \* ghost: cards a save of which has failed since the last good one
  reviews, generates, restarts   \* counters for the bounds

vars == <<dict, card, rows, pc, job, copies, unsaved, reviews, generates, restarts>>

\* A restart makes a dict per card as a generation does.
Dicts == 1..(MaxGenerates + MaxRestarts)
NoDict == 0

Review == [reps : Nat, interval : Nat, due : Nat, ease : Nat]
Fresh == [reps |-> 0, interval |-> 0, due |-> 0, ease |-> 250]
NoCopies == [k \in {} |-> Fresh]
NoJob == [card |-> CHOOSE k \in Cards : TRUE, dict |-> NoDict, rating |-> 0, before |-> 0,
          made |-> NoDict]

Goto(t, label) == pc' = [pc EXCEPT ![t] = label]

-----------------------------------------------------------------------------
\* The schedule.

\* round(i * e): the whole numbers next to a product of i and e hundredths.
\* Of two equally near, which one the float product gives is left open.
Rounded(i, e) == {n \in 0..(i * e) : 100 * n <= i * e + 50 /\ 100 * n >= i * e - 50}

\* (Mutant of NextInterval: a third success starts from one day again.)
IntervalFromOne(r, rating) ==
  IF rating < 3 THEN {1}
  ELSE IF r.reps = 1 THEN {3}
  ELSE IF r.reps = 2 THEN {7}
  ELSE Rounded(1, r.ease)

\* The interval after a review; r.reps counts that review already.
NextInterval(r, rating) ==
  IF rating < 3 THEN {1}
  ELSE IF r.reps = 1 THEN {3}
  ELSE IF r.reps = 2 THEN {7}
  ELSE {IF n < 1 THEN 1 ELSE n : n \in Rounded(r.interval, r.ease)}

\* (Mutant of NextEase: no floor.)
EaseWithoutFloor(ease, rating) == ease + 10 - (5 - rating) * 8

\* round(max(1.3, ease + 0.1 - (5 - rating) * 0.08), 2)
NextEase(ease, rating) ==
  LET e == ease + 10 - (5 - rating) * 8
  IN  IF e < 130 THEN 130 ELSE e

-----------------------------------------------------------------------------
\* review_flashcard.

\* rating < 3 starts over, another counts; `before` is the interval it found.
ReviewBegins(t, k, rating) ==
  /\ pc[t] = "idle" /\ reviews < MaxReviews
  /\ card[k] # NoDict
  /\ reviews' = reviews + 1
  /\ job' = [job EXCEPT ![t] = [NoJob EXCEPT !.card = k, !.dict = card[k], !.rating = rating,
                                            !.before = dict[k][card[k]].interval]]
  /\ dict' = [dict EXCEPT ![k][card[k]].reps = IF rating < 3 THEN 0 ELSE @ + 1]
  /\ Goto(t, "space")
  /\ UNCHANGED <<card, rows, copies, unsaved, generates, restarts>>

ReviewSpaces(t) ==
  /\ pc[t] = "space"
  /\ LET k == job[t].card
         v == job[t].dict
     IN  \E i \in NextInterval(dict[k][v], job[t].rating) :
           dict' = [dict EXCEPT ![k][v].interval = i]
  /\ Goto(t, "ease")
  /\ UNCHANGED <<card, rows, job, copies, unsaved, reviews, generates, restarts>>

ReviewEases(t) ==
  /\ pc[t] = "ease"
  /\ dict' = [dict EXCEPT ![job[t].card][job[t].dict].ease = NextEase(@, job[t].rating)]
  /\ Goto(t, "due")
  /\ UNCHANGED <<card, rows, job, copies, unsaved, reviews, generates, restarts>>

\* due_in_days is set and the card is copied.
ReviewCopies(t) ==
  /\ pc[t] = "due"
  /\ LET k == job[t].card
         v == job[t].dict
     IN  /\ dict' = [dict EXCEPT ![k][v].due = dict[k][v].interval]
         /\ copies' = [copies EXCEPT ![t] = [c \in {k} |-> dict'[k][v]]]
  /\ Goto(t, "save")
  /\ UNCHANGED <<card, rows, job, unsaved, reviews, generates, restarts>>

-----------------------------------------------------------------------------
\* generate_flashcards.

GenerateBegins(t) ==
  /\ pc[t] = "idle" /\ generates < MaxGenerates
  /\ generates' = generates + 1
  /\ job' = [job EXCEPT ![t].made = generates' + restarts]
  /\ Goto(t, "look")
  /\ UNCHANGED <<dict, card, rows, copies, unsaved, reviews, restarts>>

\* existing = self._cards.get(...) for one more card ...
GenerateLooks(t, k) ==
  /\ pc[t] = "look"
  /\ k \notin DOMAIN copies[t]
  /\ job' = [job EXCEPT ![t].card = k, ![t].dict = card[k]]
  /\ Goto(t, "store")
  /\ UNCHANGED <<dict, card, rows, copies, unsaved, reviews, generates, restarts>>

\* (Mutant of GenerateStores: a card that exists starts over.)
GenerateStoresFresh(t) ==
  /\ pc[t] = "store"
  /\ LET k == job[t].card
         v == job[t].made
     IN  /\ dict' = [dict EXCEPT ![k][v] = Fresh]
         /\ card' = [card EXCEPT ![k] = v]
         /\ copies' = [copies EXCEPT ![t] =
              [c \in DOMAIN @ \cup {k} |-> IF c = k THEN dict'[k][v] ELSE @[c]]]
  /\ Goto(t, IF DOMAIN copies'[t] = Cards THEN "save" ELSE "look")
  /\ UNCHANGED <<rows, job, unsaved, reviews, generates, restarts>>

\* ... whose review the new card keeps, if there was one; it is copied.
GenerateStores(t) ==
  /\ pc[t] = "store"
  /\ LET k == job[t].card
         v == IF job[t].dict # NoDict THEN job[t].dict ELSE job[t].made
     IN  /\ dict' = IF job[t].dict # NoDict THEN dict ELSE [dict EXCEPT ![k][v] = Fresh]
         /\ card' = [card EXCEPT ![k] = v]
         /\ copies' = [copies EXCEPT ![t] =
              [c \in DOMAIN @ \cup {k} |-> IF c = k THEN dict'[k][v] ELSE @[c]]]
  /\ Goto(t, IF DOMAIN copies'[t] = Cards THEN "save" ELSE "look")
  /\ UNCHANGED <<rows, job, unsaved, reviews, generates, restarts>>

-----------------------------------------------------------------------------
\* save_cards: one transaction.

Fits(saved) == \A k \in DOMAIN saved : saved[k].interval <= MaxInteger

Return(t) ==
  /\ Goto(t, "idle")
  /\ job' = [job EXCEPT ![t] = NoJob]
  /\ copies' = [copies EXCEPT ![t] = NoCopies]

Save(t) ==
  /\ pc[t] = "save"
  /\ Sqlite => Fits(copies[t])
  /\ rows' = IF ~Sqlite THEN rows
             ELSE [k \in DOMAIN rows \cup DOMAIN copies[t] |->
                     IF k \in DOMAIN copies[t] THEN copies[t][k] ELSE rows[k]]
  /\ unsaved' = unsaved \ DOMAIN copies[t]
  /\ Return(t)
  /\ UNCHANGED <<dict, card, reviews, generates, restarts>>

\* A number does not fit, or the database cannot be written: nothing is saved
\* and the request fails, but the card has been reviewed in memory.
SaveRaises(t) ==
  /\ pc[t] = "save"
  /\ Sqlite
  /\ unsaved' = unsaved \cup DOMAIN copies[t]
  /\ Return(t)
  /\ UNCHANGED <<dict, card, rows, reviews, generates, restarts>>

\* (Mutant of LoadedReview: the ease starts over.)
LoadedWithoutEase(row) == [row EXCEPT !.due = row.interval, !.ease = 250]

\* load_cards: due_in_days is not saved.
LoadedReview(row) == [row EXCEPT !.due = row.interval]

\* The process restarts and loads the cards.
Restart ==
  /\ restarts < MaxRestarts
  /\ restarts' = restarts + 1
  /\ LET v == generates + restarts'
     IN  /\ card' = [k \in Cards |-> IF k \in DOMAIN rows THEN v ELSE NoDict]
         /\ dict' = [k \in Cards |->
              IF k \in DOMAIN rows THEN [dict[k] EXCEPT ![v] = LoadedReview(rows[k])]
                                   ELSE dict[k]]
  /\ pc' = [t \in Threads |-> "idle"]
  /\ job' = [t \in Threads |-> NoJob]
  /\ copies' = [t \in Threads |-> NoCopies]
  /\ unsaved' = {}
  /\ UNCHANGED <<rows, reviews, generates>>

Init ==
  /\ dict = [k \in Cards |-> [v \in Dicts |-> Fresh]]
  /\ card = [k \in Cards |-> NoDict]
  /\ rows = NoCopies
  /\ pc = [t \in Threads |-> "idle"]
  /\ job = [t \in Threads |-> NoJob]
  /\ copies = [t \in Threads |-> NoCopies]
  /\ unsaved = {}
  /\ reviews = 0 /\ generates = 0 /\ restarts = 0

Next ==
  \/ Restart
  \/ \E t \in Threads :
       \/ \E k \in Cards, rating \in Ratings : ReviewBegins(t, k, rating)
       \/ ReviewSpaces(t) \/ ReviewEases(t) \/ ReviewCopies(t)
       \/ GenerateBegins(t) \/ GenerateStores(t)
       \/ \E k \in Cards : GenerateLooks(t, k)
       \/ Save(t) \/ SaveRaises(t)

Spec == Init /\ [][Next]_vars

-----------------------------------------------------------------------------
\* Properties.

\* The shape of the state; whatever is reviewed, an ease is never below 1.3.
TypeOK ==
  /\ dict \in [Cards -> [Dicts -> Review]]
  /\ \A k \in Cards : \A v \in Dicts : dict[k][v].ease >= 130
  /\ card \in [Cards -> Dicts \cup {NoDict}]
  /\ DOMAIN rows \subseteq Cards
  /\ \A k \in DOMAIN rows : rows[k] \in Review /\ rows[k].ease >= 130
  /\ pc \in [Threads -> {"idle", "space", "ease", "due", "look", "store", "save"}]
  /\ job \in [Threads -> [card : Cards, dict : Dicts \cup {NoDict}, rating : 0..5,
                          before : Nat, made : Dicts \cup {NoDict}]]
  /\ DOMAIN copies = Threads
  /\ \A t \in Threads :
       /\ DOMAIN copies[t] \subseteq Cards
       /\ \A k \in DOMAIN copies[t] : copies[t][k] \in Review /\ copies[t][k].ease >= 130
  /\ unsaved \subseteq Cards
  /\ reviews \in 0..MaxReviews /\ generates \in 0..MaxGenerates /\ restarts \in 0..MaxRestarts

\* A review that succeeds puts the card off for longer than it was before,
\* however often it was reviewed, regenerated and reloaded; it holds when
\* requests come one at a time.
SuccessPutsOff ==
  [][\A t \in Threads :
       (ReviewCopies(t) /\ job[t].rating >= 3)
         => copies'[t][job[t].card].interval > job[t].before]_vars

\* Generating the cards again, saving or failing to save them leaves the
\* review of a card that exists as it is, when requests come one at a time.
ReviewsKept ==
  [][\A k \in Cards :
       (/\ card[k] # NoDict
        /\ \A t \in Threads : pc[t] \notin {"space", "ease", "due"}
        /\ reviews' = reviews /\ restarts' = restarts)
         => card'[k] # NoDict /\ dict'[k][card'[k]] = dict[k][card[k]]]_vars

\* What the database holds of a card is what the service holds, once no
\* request is in progress, unless the last save of the card has failed: so a
\* restart loses no review that was answered.
ReviewsSaved ==
  (Sqlite /\ \A t \in Threads : pc[t] = "idle") =>
    \A k \in Cards \ unsaved :
      card[k] # NoDict => k \in DOMAIN rows /\ rows[k] = dict[k][card[k]]

=============================================================================
