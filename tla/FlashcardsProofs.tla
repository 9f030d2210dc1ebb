-------------------------- MODULE FlashcardsProofs --------------------------
(***************************************************************************)
(* Proofs about Flashcards, for any threads, cards and bounds.             *)
(***************************************************************************)
EXTENDS Flashcards, TLAPS

\* Seven days or more times an ease of 1.3 or more rounds to more days.
LEMMA RoundedGrows ==
  ASSUME NEW i \in Nat, i >= 7, NEW e \in Nat, e >= 130, NEW n \in Rounded(i, e)
  PROVE  n \in Nat /\ n > i
<1>1. n \in Nat /\ 100 * n >= i * e - 50
  BY DEF Rounded
<1>2. PICK d \in Nat : e = 130 + d
  <2>1. e - 130 \in Nat /\ e = 130 + (e - 130)
    OBVIOUS
  <2> QED
    BY <2>1
<1>3. i * e = 130 * i + i * d
  BY <1>2
<1>4. i * d \in Nat
  BY <1>2
<1> QED
  BY <1>1, <1>3, <1>4

\* The next interval is a number of days.
LEMMA NextIntervalIsNat ==
  ASSUME NEW r \in Review, NEW rating \in 0..5, NEW i \in NextInterval(r, rating)
  PROVE  i \in Nat
BY DEF NextInterval, Rounded, Review

\* The next ease is at least 1.3.
LEMMA NextEaseHasFloor ==
  ASSUME NEW e \in Nat, NEW rating \in 0..5
  PROVE  NextEase(e, rating) \in Nat /\ NextEase(e, rating) >= 130
BY DEF NextEase

\* An interval and an ease are what they should be.
Sound(r) == r \in Review /\ r.ease >= 130

\* A new card is.
LEMMA FreshIsSound == Sound(Fresh)
BY DEF Sound, Fresh, Review

\* TypeOK with what a thread at each step has in its job.
JobsFit ==
  \A t \in Threads :
    /\ pc[t] \in {"space", "ease", "due"} => job[t].dict \in Dicts
    /\ pc[t] \in {"look", "store"} => job[t].made \in Dicts

NoJobFits == NoJob \in [card : Cards, dict : Dicts \cup {NoDict}, rating : 0..5,
                        before : Nat, made : Dicts \cup {NoDict}]

\* The empty job is a job.
LEMMA NoJobIsJob == NoJobFits
BY FlashcardAssumption DEF NoJobFits, NoJob, NoDict

TypeInv == TypeOK /\ JobsFit

\* The initial state is of that shape.
LEMMA InitTyped == Init => TypeInv
<1> SUFFICES ASSUME Init PROVE TypeInv
  OBVIOUS
<1> USE FlashcardAssumption, NoJobIsJob, FreshIsSound DEF Init
<1>1. dict \in [Cards -> [Dicts -> Review]]
  BY DEF Sound
<1>2. \A k \in Cards : \A v \in Dicts : dict[k][v].ease >= 130
  BY DEF Sound
<1>3. DOMAIN rows = {} /\ \A t \in Threads : DOMAIN copies[t] = {}
  BY DEF NoCopies
<1> QED
  BY <1>1, <1>2, <1>3 DEF TypeInv, TypeOK, JobsFit, NoJobFits, NoDict

\* Changing one review dict to a sound one keeps all of them sound.
LEMMA OneDictChanged ==
  ASSUME TypeOK, NEW k \in Cards, NEW v \in Dicts, NEW r, Sound(r),
         dict' = [dict EXCEPT ![k] = [@ EXCEPT ![v] = r]]
  PROVE  /\ dict' \in [Cards -> [Dicts -> Review]]
         /\ \A c \in Cards : \A u \in Dicts : dict'[c][u].ease >= 130
         /\ dict'[k][v] = r
BY DEF TypeOK, Sound

\* Giving one thread copies of sound reviews keeps all copies sound.
LEMMA CopiesChanged ==
  ASSUME TypeOK, NEW t \in Threads, NEW f, DOMAIN f \subseteq Cards,
         \A c \in DOMAIN f : Sound(f[c]),
         copies' = [copies EXCEPT ![t] = f]
  PROVE  /\ DOMAIN copies' = Threads
         /\ \A u \in Threads :
              /\ DOMAIN copies'[u] \subseteq Cards
              /\ \A c \in DOMAIN copies'[u] : copies'[u][c] \in Review /\ copies'[u][c].ease >= 130
BY DEF TypeOK, Sound

\* A dict of the state is sound.
LEMMA DictIsSound ==
  ASSUME TypeOK, NEW k \in Cards, NEW v \in Dicts
  PROVE  Sound(dict[k][v])
BY DEF TypeOK, Sound

\* Every step keeps the shape, one case per action.
LEMMA StepTyped == TypeInv /\ [Next]_vars => TypeInv'
<1> SUFFICES ASSUME TypeInv, [Next]_vars PROVE TypeInv'
  OBVIOUS
<1> USE FlashcardAssumption DEF TypeInv
<1>0. NoJobFits
  BY NoJobIsJob
<1>1. ASSUME UNCHANGED vars PROVE TypeInv'
  BY <1>1 DEF vars, TypeOK, JobsFit
<1>2. ASSUME NEW t \in Threads, NEW k \in Cards, NEW rating \in Ratings,
             ReviewBegins(t, k, rating)
      PROVE  TypeInv'
  <2> USE <1>2 DEF ReviewBegins, Goto
  <2> DEFINE v == card[k]
             r == [dict[k][v] EXCEPT !.reps = IF rating < 3 THEN 0 ELSE @ + 1]
  <2>1. v \in Dicts /\ Sound(dict[k][v])
    BY DictIsSound DEF TypeOK
  <2>2. Sound(r)
    BY <2>1 DEF Sound, Review
  <2>3. dict' = [dict EXCEPT ![k] = [@ EXCEPT ![v] = r]]
    BY <2>1 DEF TypeOK
  <2>4. /\ dict' \in [Cards -> [Dicts -> Review]]
        /\ \A c \in Cards : \A u \in Dicts : dict'[c][u].ease >= 130
    BY <2>1, <2>2, <2>3, OneDictChanged
  <2>5. dict[k][v].interval \in Nat /\ rating \in 0..5
    BY <2>1 DEF Sound, Review
  <2>6. job' \in [Threads -> [card : Cards, dict : Dicts \cup {NoDict}, rating : 0..5,
                              before : Nat, made : Dicts \cup {NoDict}]]
    BY <1>0, <2>1, <2>5 DEF TypeOK, NoJobFits
  <2>7. job'[t].dict = v /\ \A u \in Threads \ {t} : job'[u] = job[u]
    BY <1>0 DEF TypeOK, NoJobFits
  <2> QED
    BY <2>1, <2>4, <2>6, <2>7 DEF TypeOK, JobsFit
<1>3. ASSUME NEW t \in Threads, ReviewSpaces(t) PROVE TypeInv'
  <2> USE <1>3 DEF ReviewSpaces, Goto
  <2> DEFINE k == job[t].card
             v == job[t].dict
  <2>1. k \in Cards /\ v \in Dicts /\ job[t].rating \in 0..5 /\ Sound(dict[k][v])
    BY DictIsSound DEF TypeOK, JobsFit
  <2>2. PICK i \in NextInterval(dict[k][v], job[t].rating) :
          dict' = [dict EXCEPT ![k][v].interval = i]
    OBVIOUS
  <2>3. i \in Nat
    BY <2>1, NextIntervalIsNat DEF Sound
  <2>4. Sound([dict[k][v] EXCEPT !.interval = i])
    BY <2>1, <2>3 DEF Sound, Review
  <2>5. dict' = [dict EXCEPT ![k] = [@ EXCEPT ![v] = [dict[k][v] EXCEPT !.interval = i]]]
    BY <2>1, <2>2 DEF TypeOK
  <2>6. /\ dict' \in [Cards -> [Dicts -> Review]]
        /\ \A c \in Cards : \A u \in Dicts : dict'[c][u].ease >= 130
    BY <2>1, <2>4, <2>5, OneDictChanged
  <2> QED
    BY <2>6 DEF TypeOK, JobsFit
<1>4. ASSUME NEW t \in Threads, ReviewEases(t) PROVE TypeInv'
  <2> USE <1>4 DEF ReviewEases, Goto
  <2> DEFINE k == job[t].card
             v == job[t].dict
             r == [dict[k][v] EXCEPT !.ease = NextEase(@, job[t].rating)]
  <2>1. k \in Cards /\ v \in Dicts /\ job[t].rating \in 0..5 /\ Sound(dict[k][v])
    BY DictIsSound DEF TypeOK, JobsFit
  <2>2. Sound(r)
    BY <2>1, NextEaseHasFloor DEF Sound, Review
  <2>3. dict' = [dict EXCEPT ![k] = [@ EXCEPT ![v] = r]]
    BY <2>1 DEF TypeOK
  <2>4. /\ dict' \in [Cards -> [Dicts -> Review]]
        /\ \A c \in Cards : \A u \in Dicts : dict'[c][u].ease >= 130
    BY <2>1, <2>2, <2>3, OneDictChanged
  <2> QED
    BY <2>4 DEF TypeOK, JobsFit
<1>5. ASSUME NEW t \in Threads, ReviewCopies(t) PROVE TypeInv'
  <2> USE <1>5 DEF ReviewCopies, Goto
  <2> DEFINE k == job[t].card
             v == job[t].dict
             r == [dict[k][v] EXCEPT !.due = dict[k][v].interval]
  <2>1. k \in Cards /\ v \in Dicts /\ Sound(dict[k][v])
    BY DictIsSound DEF TypeOK, JobsFit
  <2>2. Sound(r)
    BY <2>1 DEF Sound, Review
  <2>3. dict' = [dict EXCEPT ![k] = [@ EXCEPT ![v] = r]]
    BY <2>1 DEF TypeOK
  <2>4. copies' = [copies EXCEPT ![t] = [c \in {k} |-> dict'[k][v]]]
    OBVIOUS
  <2>5. /\ t \in Threads /\ pc' = [pc EXCEPT ![t] = "save"]
        /\ UNCHANGED <<card, rows, job, unsaved, reviews, generates, restarts>>
    BY <1>5
  <2> HIDE <1>5 DEF ReviewCopies, Goto, k, v, r
  <2>6. /\ dict' \in [Cards -> [Dicts -> Review]]
        /\ \A c \in Cards : \A u \in Dicts : dict'[c][u].ease >= 130
        /\ dict'[k][v] = r
    BY <2>1, <2>2, <2>3, OneDictChanged
  <2>7. /\ DOMAIN copies' = Threads
        /\ \A u \in Threads :
             /\ DOMAIN copies'[u] \subseteq Cards
             /\ \A c \in DOMAIN copies'[u] : copies'[u][c] \in Review /\ copies'[u][c].ease >= 130
    <3> DEFINE f == [c \in {k} |-> dict'[k][v]]
    <3>1. DOMAIN f \subseteq Cards /\ \A c \in DOMAIN f : Sound(f[c])
      BY <2>1, <2>2, <2>6
    <3> HIDE DEF f
    <3> QED
      BY <2>4, <2>5, <3>1, CopiesChanged DEF f
  <2> QED
    BY <2>5, <2>6, <2>7 DEF TypeOK, JobsFit
<1>6. ASSUME NEW t \in Threads, GenerateBegins(t) PROVE TypeInv'
  <2> DEFINE m == generates' + restarts
  <2>1. m \in Dicts /\ generates' \in 0..MaxGenerates
    <3>1. generates \in Nat /\ generates' = generates + 1 /\ generates < MaxGenerates
      BY <1>6 DEF GenerateBegins, TypeOK
    <3>2. restarts \in 0..MaxRestarts /\ MaxRestarts \in Nat /\ MaxGenerates \in Nat
      BY DEF TypeOK
    <3> QED
      BY <3>1, <3>2 DEF Dicts
  <2>2. /\ job' = [job EXCEPT ![t] = [@ EXCEPT !.made = m]]
        /\ pc' = [pc EXCEPT ![t] = "look"]
        /\ UNCHANGED <<dict, card, rows, copies, unsaved, reviews, restarts>>
    BY <1>6 DEF GenerateBegins, Goto
  <2> HIDE DEF m
  <2>3. \A u \in Threads : job'[u] = IF u = t THEN [job[t] EXCEPT !.made = m] ELSE job[u]
    BY <2>2 DEF TypeOK
  <2>4. job' \in [Threads -> [card : Cards, dict : Dicts \cup {NoDict}, rating : 0..5,
                              before : Nat, made : Dicts \cup {NoDict}]]
    BY <2>1, <2>2 DEF TypeOK
  <2> QED
    BY <2>1, <2>2, <2>3, <2>4 DEF TypeOK, JobsFit
<1>7. ASSUME NEW t \in Threads, NEW k \in Cards, GenerateLooks(t, k) PROVE TypeInv'
  <2>1. /\ job' = [job EXCEPT ![t] = [job[t] EXCEPT !.card = k, !.dict = card[k]]]
        /\ pc' = [pc EXCEPT ![t] = "store"] /\ pc[t] = "look"
        /\ UNCHANGED <<dict, card, rows, copies, unsaved, reviews, generates, restarts>>
    BY <1>7 DEF GenerateLooks, Goto, TypeOK
  <2>2. card[k] \in Dicts \cup {NoDict} /\ job[t].made \in Dicts
    BY <2>1 DEF TypeOK, JobsFit
  <2>3. job' \in [Threads -> [card : Cards, dict : Dicts \cup {NoDict}, rating : 0..5,
                              before : Nat, made : Dicts \cup {NoDict}]]
    <3> DEFINE J == [card : Cards, dict : Dicts \cup {NoDict}, rating : 0..5,
                     before : Nat, made : Dicts \cup {NoDict}]
               j == [job[t] EXCEPT !.card = k, !.dict = card[k]]
    <3>1. job \in [Threads -> J]
      BY DEF TypeOK
    <3>2. j \in J
      BY <2>2, <3>1
    <3>3. job' = [job EXCEPT ![t] = j]
      BY <2>1
    <3> HIDE DEF J, j
    <3>4. job' \in [Threads -> J]
      BY <3>1, <3>2, <3>3
    <3> QED
      BY <3>4 DEF J
  <2>4. \A u \in Threads : job'[u].made = job[u].made /\ (u # t => job'[u] = job[u])
    BY <2>1 DEF TypeOK
  <2> QED
    BY <2>1, <2>2, <2>3, <2>4 DEF TypeOK, JobsFit
<1>8. ASSUME NEW t \in Threads, GenerateStores(t) PROVE TypeInv'
  <2> USE <1>8 DEF GenerateStores, Goto
  <2> DEFINE k == job[t].card
             v == IF job[t].dict # NoDict THEN job[t].dict ELSE job[t].made
  <2>1. k \in Cards /\ v \in Dicts
    BY DEF TypeOK, JobsFit, NoDict
  <2>2. dict' = IF job[t].dict # NoDict THEN dict
                ELSE [dict EXCEPT ![k] = [@ EXCEPT ![v] = Fresh]]
    BY <2>1 DEF TypeOK
  <2>3. /\ dict' \in [Cards -> [Dicts -> Review]]
        /\ \A c \in Cards : \A u \in Dicts : dict'[c][u].ease >= 130
    BY <2>1, <2>2, FreshIsSound, OneDictChanged DEF TypeOK
  <2> DEFINE f == [c \in DOMAIN copies[t] \cup {k} |-> IF c = k THEN dict'[k][v] ELSE copies[t][c]]
  <2>4. copies' = [copies EXCEPT ![t] = f]
    BY DEF TypeOK
  <2>5. card' \in [Cards -> Dicts \cup {NoDict}]
    BY <2>1 DEF TypeOK
  <2>6. \E label \in {"save", "look"} : pc' = [pc EXCEPT ![t] = label]
    BY <1>8
  <2>7. UNCHANGED <<rows, job, unsaved, reviews, generates, restarts>> /\ pc[t] = "store"
    BY <1>8
  <2> HIDE <1>8 DEF GenerateStores, Goto, k, v
  <2>8. DOMAIN f \subseteq Cards /\ \A c \in DOMAIN f : Sound(f[c])
    BY <2>1, <2>3 DEF TypeOK, Sound
  <2> HIDE DEF f
  <2>9. /\ DOMAIN copies' = Threads
        /\ \A u \in Threads :
             /\ DOMAIN copies'[u] \subseteq Cards
             /\ \A c \in DOMAIN copies'[u] : copies'[u][c] \in Review /\ copies'[u][c].ease >= 130
    BY <2>4, <2>8, CopiesChanged
  <2> QED
    BY <2>3, <2>5, <2>6, <2>7, <2>9 DEF TypeOK, JobsFit
<1>9. ASSUME NEW t \in Threads, Save(t) \/ SaveRaises(t) PROVE TypeInv'
  <2>1. DOMAIN rows' \subseteq Cards
        /\ \A k \in DOMAIN rows' : rows'[k] \in Review /\ rows'[k].ease >= 130
    BY <1>9 DEF Save, SaveRaises, TypeOK
  <2>2. unsaved' \subseteq Cards
    BY <1>9 DEF Save, SaveRaises, TypeOK
  <2>3. /\ pc' = [pc EXCEPT ![t] = "idle"]
        /\ job' = [job EXCEPT ![t] = NoJob]
        /\ copies' = [copies EXCEPT ![t] = NoCopies]
        /\ UNCHANGED <<dict, card, reviews, generates, restarts>>
    BY <1>9 DEF Save, SaveRaises, Return, Goto
  <2>4. DOMAIN NoCopies = {}
    BY DEF NoCopies
  <2> QED
    BY <1>0, <2>1, <2>2, <2>3, <2>4 DEF TypeOK, JobsFit, NoJobFits
<1>10. ASSUME Restart PROVE TypeInv'
  <2> USE <1>10 DEF Restart
  <2> DEFINE v == generates + restarts'
  <2>1. v \in Dicts
    BY DEF TypeOK, Dicts
  <2>2. \A k \in DOMAIN rows : Sound(LoadedReview(rows[k])) /\ k \in Cards
    BY DEF TypeOK, Sound, LoadedReview, Review
  <2>3. dict' = [k \in Cards |->
          IF k \in DOMAIN rows THEN [dict[k] EXCEPT ![v] = LoadedReview(rows[k])] ELSE dict[k]]
    OBVIOUS
  <2>4. /\ dict' \in [Cards -> [Dicts -> Review]]
        /\ \A c \in Cards : \A u \in Dicts : dict'[c][u].ease >= 130
    BY <2>1, <2>2, <2>3 DEF TypeOK, Sound
  <2>5. card' \in [Cards -> Dicts \cup {NoDict}]
    BY <2>1
  <2>6. \A t \in Threads : DOMAIN copies'[t] = {}
    BY DEF NoCopies
  <2> QED
    BY <1>0, <2>4, <2>5, <2>6 DEF TypeOK, JobsFit, NoJobFits
<1> QED
  BY <1>1, <1>2, <1>3, <1>4, <1>5, <1>6, <1>7, <1>8, <1>9, <1>10 DEF Next

\* Whatever threads review, generate and save at once, and wherever the process
\* restarts, every review is of the right shape and no ease is below 1.3.
THEOREM TypeCorrect == Spec => []TypeOK
<1>1. TypeInv => TypeOK
  BY DEF TypeInv
<1> QED
  BY InitTyped, StepTyped, <1>1, PTL DEF Spec

-----------------------------------------------------------------------------
\* A success puts the card off, when requests come one at a time.

\* Between reviews: a new or lapsed card has at most a day, the first success
\* gives three days, and after the second there are always seven or more.
Steady(r) ==
  /\ r.reps = 0 => r.interval <= 1
  /\ r.reps = 1 => r.interval = 3
  /\ r.reps >= 2 => r.interval >= 7

\* After ReviewBegins the review is counted and the interval still the old one.
Counted(r, rating, before) ==
  IF rating < 3 THEN r.reps = 0
  ELSE /\ r.reps >= 1
       /\ r.reps = 1 => before <= 1
       /\ r.reps = 2 => before = 3
       /\ r.reps >= 3 => before = r.interval /\ r.interval >= 7

BeingSpaced(t, k, v) == pc[t] = "space" /\ job[t].card = k /\ job[t].dict = v

CardsSteady ==
  \A k \in Cards :
    card[k] # NoDict =>
      Steady(dict[k][card[k]]) \/ \E t \in Threads : BeingSpaced(t, k, card[k])

RowsSteady == \A k \in DOMAIN rows : Steady(rows[k])

CopiesSteady == \A t \in Threads : \A k \in DOMAIN copies[t] : Steady(copies[t][k])

JobsOnSchedule ==
  \A t \in Threads :
    /\ pc[t] \in {"space", "ease", "due", "store"} => job[t].dict = card[job[t].card]
    /\ pc[t] = "space" =>
         Counted(dict[job[t].card][job[t].dict], job[t].rating, job[t].before)
    /\ (pc[t] \in {"ease", "due"} /\ job[t].rating >= 3) =>
         dict[job[t].card][job[t].dict].interval > job[t].before

ScheduleInv == CardsSteady /\ RowsSteady /\ CopiesSteady /\ JobsOnSchedule

\* Counting a review keeps its old interval in reach.
LEMMA CountingCounts ==
  ASSUME NEW r \in Review, Steady(r), NEW rating \in 0..5
  PROVE  Counted([r EXCEPT !.reps = IF rating < 3 THEN 0 ELSE @ + 1], rating, r.interval)
BY DEF Steady, Counted, Review

\* Spacing a counted review makes it steady, and a success longer.
LEMMA SpacingLengthens ==
  ASSUME NEW r, Sound(r), NEW rating \in 0..5, NEW before \in Nat,
         Counted(r, rating, before), NEW i \in NextInterval(r, rating)
  PROVE  /\ Steady([r EXCEPT !.interval = i])
         /\ rating >= 3 => i > before
<1>0. r \in Review /\ r.reps \in Nat /\ r.interval \in Nat /\ r.ease \in Nat /\ r.ease >= 130
  BY DEF Sound, Review
<1>1. CASE rating < 3
  BY <1>0, <1>1 DEF NextInterval, Counted, Steady, Review
<1>2. CASE rating >= 3 /\ r.reps \in {1, 2}
  BY <1>0, <1>2 DEF NextInterval, Counted, Steady, Review
<1>3. CASE rating >= 3 /\ r.reps >= 3
  <2>1. before = r.interval /\ r.interval >= 7
    BY <1>0, <1>3 DEF Counted
  <2>2. PICK n \in Rounded(r.interval, r.ease) : i = IF n < 1 THEN 1 ELSE n
    BY <1>0, <1>3 DEF NextInterval
  <2>3. n \in Nat /\ n > r.interval
    BY <1>0, <2>1, <2>2, RoundedGrows
  <2>4. i = n /\ i > before /\ i >= 7
    BY <1>0, <2>1, <2>2, <2>3
  <2> QED
    BY <1>0, <1>3, <2>4 DEF Steady, Review
<1> QED
  BY <1>0, <1>1, <1>2, <1>3 DEF Counted

\* The initial state is on schedule.
LEMMA InitScheduled == Init => ScheduleInv
BY DEF Init, ScheduleInv, CardsSteady, RowsSteady, CopiesSteady, JobsOnSchedule, Steady,
       Fresh, NoCopies

\* A step on one card's dict leaves the other cards steady.
LEMMA CardsStaySteady ==
  ASSUME NEW t, Threads = {t}, TypeOK, CardsSteady,
         NEW k \in Cards, card[k] \in Dicts, card' = card,
         \A c \in Cards : \A u \in Dicts : (c # k \/ u # card[k]) => dict'[c][u] = dict[c][u],
         pc[t] = "space" => job[t].card = k,
         \/ Steady(dict'[k][card[k]])
         \/ (pc'[t] = "space" /\ job'[t].card = k /\ job'[t].dict = card[k])
  PROVE  CardsSteady'
<1> SUFFICES ASSUME NEW c \in Cards, card[c] # NoDict
             PROVE  Steady(dict'[c][card[c]])
                    \/ (pc'[t] = "space" /\ job'[t].card = c /\ job'[t].dict = card[c])
  BY DEF CardsSteady, BeingSpaced
<1>1. CASE c = k
  BY <1>1
<1>2. CASE c # k
  <2>1. card[c] \in Dicts /\ dict'[c][card[c]] = dict[c][card[c]]
    BY <1>2 DEF TypeOK
  <2>2. Steady(dict[c][card[c]])
    BY <1>2 DEF CardsSteady, BeingSpaced
  <2> QED
    BY <2>1, <2>2
<1> QED
  BY <1>1, <1>2

\* Every step keeps the schedule, when there is one thread.
LEMMA StepScheduled ==
  ASSUME NEW s, Threads = {s}, TypeInv, ScheduleInv, [Next]_vars
  PROVE  ScheduleInv'
<1> USE FlashcardAssumption DEF TypeInv
<1>1. ASSUME UNCHANGED vars PROVE ScheduleInv'
  BY <1>1
  DEF vars, ScheduleInv, CardsSteady, RowsSteady, CopiesSteady, JobsOnSchedule, BeingSpaced
<1>2. ASSUME NEW t \in Threads, NEW k \in Cards, NEW rating \in Ratings,
             ReviewBegins(t, k, rating)
      PROVE  ScheduleInv'
  <2> DEFINE v == card[k]
             r == [dict[k][v] EXCEPT !.reps = IF rating < 3 THEN 0 ELSE @ + 1]
  <2>1. v \in Dicts /\ Sound(dict[k][v]) /\ rating \in 0..5
    BY <1>2, DictIsSound DEF ReviewBegins, TypeOK
  <2>2. Steady(dict[k][v])
    BY <1>2, <2>1
    DEF ReviewBegins, ScheduleInv, CardsSteady, BeingSpaced
  <2>3. dict' = [dict EXCEPT ![k] = [@ EXCEPT ![v] = r]]
    BY <1>2, <2>1 DEF ReviewBegins, TypeOK
  <2>4. Counted(r, rating, dict[k][v].interval)
    BY <2>1, <2>2, CountingCounts DEF Sound
  <2>5. /\ job'[t].card = k /\ job'[t].dict = v /\ job'[t].rating = rating
        /\ job'[t].before = dict[k][v].interval
    BY <1>2, NoJobIsJob DEF ReviewBegins, TypeOK, NoJobFits
  <2>6. /\ pc'[t] = "space" /\ pc[t] = "idle" /\ rows' = rows /\ copies' = copies
        /\ card' = card
    BY <1>2 DEF ReviewBegins, Goto, TypeOK
  <2> HIDE DEF v, r
  <2>7. /\ dict'[k][v] = r
        /\ \A c \in Cards : \A u \in Dicts : (c # k \/ u # v) => dict'[c][u] = dict[c][u]
    BY <2>1, <2>3 DEF TypeOK
  <2>8. Threads = {t}
    OBVIOUS
  <2>9. CardsSteady'
    BY <2>1, <2>5, <2>6, <2>7, <2>8, CardsStaySteady DEF ScheduleInv, v
  <2>10. JobsOnSchedule'
    BY <2>4, <2>5, <2>6, <2>7, <2>8 DEF JobsOnSchedule, v
  <2> QED
    BY <2>6, <2>9, <2>10
    DEF ScheduleInv, CardsSteady, RowsSteady, CopiesSteady, JobsOnSchedule
<1>3. ASSUME NEW t \in Threads, ReviewSpaces(t) PROVE ScheduleInv'
  <2> DEFINE k == job[t].card
             v == job[t].dict
  <2>1. k \in Cards /\ v \in Dicts /\ job[t].rating \in 0..5 /\ job[t].before \in Nat
        /\ Sound(dict[k][v])
    BY <1>3, DictIsSound DEF ReviewSpaces, TypeOK, JobsFit
  <2>2. PICK i \in NextInterval(dict[k][v], job[t].rating) :
          dict' = [dict EXCEPT ![k][v].interval = i]
    BY <1>3 DEF ReviewSpaces
  <2> DEFINE r == [dict[k][v] EXCEPT !.interval = i]
  <2>3. Counted(dict[k][v], job[t].rating, job[t].before)
    BY <1>3
    DEF ReviewSpaces, ScheduleInv, CardsSteady, RowsSteady, CopiesSteady, JobsOnSchedule
  <2>4. Steady(r) /\ (job[t].rating >= 3 => i > job[t].before)
    BY <2>1, <2>2, <2>3, SpacingLengthens
  <2>5. r.interval = i
    BY <2>1 DEF Sound, Review
  <2>6. dict' = [dict EXCEPT ![k] = [@ EXCEPT ![v] = r]]
    BY <2>1, <2>2 DEF TypeOK
  <2>7. pc'[t] = "ease" /\ pc[t] = "space" /\ rows' = rows /\ copies' = copies /\ job' = job
        /\ card' = card /\ v = card[k]
    BY <1>3
    DEF ReviewSpaces, Goto, TypeOK, ScheduleInv, JobsOnSchedule
  <2> HIDE DEF r
  <2>8. /\ dict'[k][v] = r
        /\ \A c \in Cards : \A u \in Dicts : (c # k \/ u # v) => dict'[c][u] = dict[c][u]
    BY <2>1, <2>6 DEF TypeOK
  <2>9. Threads = {t}
    OBVIOUS
  <2>10. CardsSteady'
    BY <2>1, <2>4, <2>7, <2>8, <2>9, CardsStaySteady DEF ScheduleInv
  <2>11. JobsOnSchedule'
    BY <2>4, <2>5, <2>7, <2>8, <2>9
    DEF ScheduleInv, CardsSteady, RowsSteady, CopiesSteady, JobsOnSchedule
  <2> QED
    BY <2>7, <2>10, <2>11
    DEF ScheduleInv, CardsSteady, RowsSteady, CopiesSteady, JobsOnSchedule
<1>4. ASSUME NEW t \in Threads, ReviewEases(t) PROVE ScheduleInv'
  <2> DEFINE k == job[t].card
             v == job[t].dict
             r == [dict[k][v] EXCEPT !.ease = NextEase(@, job[t].rating)]
  <2>1. k \in Cards /\ v \in Dicts /\ Sound(dict[k][v])
    BY <1>4, DictIsSound DEF ReviewEases, TypeOK, JobsFit
  <2>2. Steady(dict[k][v]) /\ (job[t].rating >= 3 => dict[k][v].interval > job[t].before)
    BY <1>4, <2>1
    DEF ReviewEases, ScheduleInv, CardsSteady, BeingSpaced, JobsOnSchedule, NoDict, Dicts
  <2>3. Steady(r) /\ r.interval = dict[k][v].interval
    BY <2>1, <2>2 DEF Steady, Sound, Review
  <2>4. dict' = [dict EXCEPT ![k] = [@ EXCEPT ![v] = r]]
    BY <1>4, <2>1 DEF ReviewEases, TypeOK
  <2>5. pc'[t] = "due" /\ pc[t] = "ease" /\ rows' = rows /\ copies' = copies /\ job' = job
        /\ card' = card /\ v = card[k]
    BY <1>4
    DEF ReviewEases, Goto, TypeOK, ScheduleInv, JobsOnSchedule
  <2> HIDE DEF r
  <2>6. /\ dict'[k][v] = r
        /\ \A c \in Cards : \A u \in Dicts : (c # k \/ u # v) => dict'[c][u] = dict[c][u]
    BY <2>1, <2>4 DEF TypeOK
  <2>7. Threads = {t}
    OBVIOUS
  <2>8. CardsSteady'
    BY <2>1, <2>3, <2>5, <2>6, <2>7, CardsStaySteady DEF ScheduleInv
  <2>9. JobsOnSchedule'
    BY <2>2, <2>3, <2>5, <2>6, <2>7
    DEF ScheduleInv, CardsSteady, RowsSteady, CopiesSteady, JobsOnSchedule
  <2> QED
    BY <2>5, <2>8, <2>9
    DEF ScheduleInv, CardsSteady, RowsSteady, CopiesSteady, JobsOnSchedule
<1>5. ASSUME NEW t \in Threads, ReviewCopies(t) PROVE ScheduleInv'
  <2> DEFINE k == job[t].card
             v == job[t].dict
             r == [dict[k][v] EXCEPT !.due = dict[k][v].interval]
  <2>1. k \in Cards /\ v \in Dicts /\ Sound(dict[k][v])
    BY <1>5, DictIsSound DEF ReviewCopies, TypeOK, JobsFit
  <2>2. Steady(dict[k][v])
    BY <1>5, <2>1
    DEF ReviewCopies, ScheduleInv, CardsSteady, BeingSpaced, JobsOnSchedule, NoDict, Dicts
  <2>3. Steady(r)
    BY <2>1, <2>2 DEF Steady, Sound, Review
  <2>4. dict' = [dict EXCEPT ![k] = [@ EXCEPT ![v] = r]]
    BY <1>5, <2>1 DEF ReviewCopies, TypeOK
  <2>5. pc'[t] = "save" /\ pc[t] = "due" /\ rows' = rows /\ job' = job
        /\ card' = card /\ v = card[k]
    BY <1>5
    DEF ReviewCopies, Goto, TypeOK, ScheduleInv, JobsOnSchedule
  <2>6. copies'[t] = [c \in {k} |-> dict'[k][v]]
    BY <1>5 DEF ReviewCopies, TypeOK
  <2> HIDE DEF r
  <2>7. /\ dict'[k][v] = r
        /\ \A c \in Cards : \A u \in Dicts : (c # k \/ u # v) => dict'[c][u] = dict[c][u]
    BY <2>1, <2>4 DEF TypeOK
  <2> HIDE DEF k, v
  <2>8. \A c \in DOMAIN copies'[t] : Steady(copies'[t][c])
    BY <2>3, <2>6, <2>7
  <2>9. Threads = {t}
    OBVIOUS
  <2>10. CardsSteady'
    BY <2>1, <2>3, <2>5, <2>7, <2>9, CardsStaySteady DEF ScheduleInv, k, v
  <2>11. CopiesSteady' /\ JobsOnSchedule'
    BY <2>5, <2>8, <2>9
    DEF ScheduleInv, CardsSteady, RowsSteady, CopiesSteady, JobsOnSchedule
  <2> QED
    BY <2>5, <2>10, <2>11
    DEF ScheduleInv, CardsSteady, RowsSteady, CopiesSteady, JobsOnSchedule
<1>6. ASSUME NEW t \in Threads, GenerateBegins(t) PROVE ScheduleInv'
  BY <1>6
  DEF GenerateBegins, Goto, TypeOK, ScheduleInv, CardsSteady, RowsSteady, CopiesSteady,
      JobsOnSchedule, BeingSpaced
<1>7. ASSUME NEW t \in Threads, NEW k \in Cards, GenerateLooks(t, k) PROVE ScheduleInv'
  BY <1>7
  DEF GenerateLooks, Goto, TypeOK, ScheduleInv, CardsSteady, RowsSteady, CopiesSteady,
      JobsOnSchedule, BeingSpaced
<1>8. ASSUME NEW t \in Threads, GenerateStores(t) PROVE ScheduleInv'
  <2> DEFINE k == job[t].card
             v == IF job[t].dict # NoDict THEN job[t].dict ELSE job[t].made
  <2>1. k \in Cards /\ v \in Dicts
    BY <1>8 DEF GenerateStores, TypeOK, JobsFit, NoDict
  <2>2. dict' = IF job[t].dict # NoDict THEN dict
                ELSE [dict EXCEPT ![k] = [@ EXCEPT ![v] = Fresh]]
    BY <1>8, <2>1 DEF GenerateStores, TypeOK
  <2>3. pc'[t] \in {"save", "look"} /\ pc[t] = "store" /\ rows' = rows /\ job' = job
    BY <1>8 DEF GenerateStores, Goto, TypeOK
  <2>4. copies'[t] = [c \in DOMAIN copies[t] \cup {k} |->
                        IF c = k THEN dict'[k][v] ELSE copies[t][c]]
    BY <1>8 DEF GenerateStores, TypeOK
  <2>5. Steady(Fresh)
    BY DEF Steady, Fresh
  <2>6. job[t].dict = card[k] /\ card' = [card EXCEPT ![k] = v]
    BY <1>8, <2>3
    DEF GenerateStores, ScheduleInv, CardsSteady, RowsSteady, CopiesSteady, JobsOnSchedule
  <2>7. Steady(dict'[k][v])
    <3>1. CASE job[t].dict # NoDict
      BY <2>1, <2>2, <2>3, <2>6, <3>1
      DEF ScheduleInv, CardsSteady, RowsSteady, CopiesSteady, JobsOnSchedule, BeingSpaced
    <3>2. CASE job[t].dict = NoDict
      <4>1. dict' = [dict EXCEPT ![k] = [@ EXCEPT ![v] = Fresh]]
        BY <2>2, <3>2
      <4> HIDE DEF v
      <4> QED
        BY <2>1, <2>5, <4>1 DEF TypeOK
    <3> QED
      BY <3>1, <3>2
  <2>8. \A c \in Cards \ {k} : dict'[c] = dict[c] /\ card'[c] = card[c]
    BY <2>1, <2>2, <2>6 DEF TypeOK
  <2>9. card'[k] = v
    BY <2>1, <2>6 DEF TypeOK
  <2> HIDE DEF k, v
  <2>10. \A c \in Cards : card'[c] # NoDict => Steady(dict'[c][card'[c]])
    BY <2>1, <2>3, <2>7, <2>8, <2>9
    DEF ScheduleInv, CardsSteady, RowsSteady, CopiesSteady, JobsOnSchedule, BeingSpaced
  <2>11. \A c \in DOMAIN copies'[t] : Steady(copies'[t][c])
    BY <2>1, <2>4, <2>7
    DEF ScheduleInv, CardsSteady, RowsSteady, CopiesSteady, JobsOnSchedule
  <2>12. pc'[t] # "store"
    BY <2>3
  <2> QED
    BY <2>3, <2>10, <2>11, <2>12
    DEF ScheduleInv, CardsSteady, RowsSteady, CopiesSteady, JobsOnSchedule, BeingSpaced
<1>9. ASSUME NEW t \in Threads, Save(t) \/ SaveRaises(t) PROVE ScheduleInv'
  <2>1. \A k \in DOMAIN rows' : Steady(rows'[k])
    BY <1>9
    DEF Save, SaveRaises, ScheduleInv, CardsSteady, RowsSteady, CopiesSteady, JobsOnSchedule
  <2>2. pc[t] = "save" /\ pc'[t] = "idle" /\ copies'[t] = NoCopies /\ dict' = dict
        /\ card' = card
    BY <1>9 DEF Save, SaveRaises, Return, Goto, TypeOK
  <2> QED
    BY <2>1, <2>2
    DEF NoCopies, ScheduleInv, CardsSteady, RowsSteady, CopiesSteady, JobsOnSchedule,
        BeingSpaced
<1>10. ASSUME Restart PROVE ScheduleInv'
  <2> DEFINE v == generates + restarts'
  <2>1. v \in Dicts
    BY <1>10 DEF Restart, TypeOK, Dicts
  <2>2. dict' = [k \in Cards |->
          IF k \in DOMAIN rows THEN [dict[k] EXCEPT ![v] = LoadedReview(rows[k])] ELSE dict[k]]
    BY <1>10 DEF Restart
  <2>3. \A k \in DOMAIN rows : Steady(LoadedReview(rows[k]))
    BY DEF ScheduleInv, RowsSteady, TypeOK, LoadedReview, Review, Steady
  <2>4. /\ card' = [k \in Cards |-> IF k \in DOMAIN rows THEN v ELSE NoDict]
        /\ rows' = rows
        /\ \A t \in Threads : pc'[t] = "idle" /\ copies'[t] = NoCopies
    BY <1>10 DEF Restart
  <2> HIDE DEF v
  <2>5. CardsSteady'
    BY <2>1, <2>2, <2>3, <2>4 DEF TypeOK, CardsSteady
  <2>6. CopiesSteady'
    BY <2>4 DEF CopiesSteady, NoCopies
  <2>7. RowsSteady' /\ JobsOnSchedule'
    BY <2>4 DEF ScheduleInv, RowsSteady, JobsOnSchedule
  <2> QED
    BY <2>5, <2>6, <2>7 DEF ScheduleInv
<1> QED
  BY <1>1, <1>2, <1>3, <1>4, <1>5, <1>6, <1>7, <1>8, <1>9, <1>10 DEF Next

\* When requests come one at a time, a review that succeeds puts its card off
\* for longer than it was before: whatever was reviewed, generated, saved, not
\* saved, or reloaded after a restart until then.
THEOREM SuccessAlwaysPutsOff ==
  ASSUME NEW s, Threads = {s}
  PROVE  Spec => SuccessPutsOff
<1> DEFINE Inv == TypeInv /\ ScheduleInv
           A == \A t \in Threads :
                  (ReviewCopies(t) /\ job[t].rating >= 3)
                    => copies'[t][job[t].card].interval > job[t].before
<1>1. Init => Inv
  BY InitTyped, InitScheduled
<1>2. Inv /\ [Next]_vars => Inv'
  BY StepTyped, StepScheduled
<1>3. Inv => A
  <2> SUFFICES ASSUME Inv, NEW t \in Threads, ReviewCopies(t), job[t].rating >= 3
               PROVE  copies'[t][job[t].card].interval > job[t].before
    OBVIOUS
  <2> DEFINE k == job[t].card
             v == job[t].dict
             r == [dict[k][v] EXCEPT !.due = dict[k][v].interval]
  <2>1. k \in Cards /\ v \in Dicts /\ Sound(dict[k][v])
    BY DictIsSound DEF ReviewCopies, TypeInv, TypeOK, JobsFit
  <2>2. dict[k][v].interval > job[t].before
    BY DEF ReviewCopies, ScheduleInv, JobsOnSchedule
  <2>3. dict' = [dict EXCEPT ![k] = [@ EXCEPT ![v] = r]]
    BY <2>1 DEF ReviewCopies, TypeInv, TypeOK
  <2>4. dict'[k][v] = r /\ r.interval = dict[k][v].interval
    BY <2>1, <2>3 DEF TypeInv, TypeOK, Sound, Review
  <2>5. copies'[t][k] = dict'[k][v]
    BY DEF ReviewCopies, TypeInv, TypeOK
  <2> QED
    BY <2>2, <2>4, <2>5
<1> HIDE DEF Inv, A
<1>4. Spec => [][A]_vars
  BY <1>1, <1>2, <1>3, PTL DEF Spec
<1> QED
  BY <1>4 DEF A, SuccessPutsOff

-----------------------------------------------------------------------------
\* What was answered is saved, when requests come one at a time.

\* due_in_days is not saved: a load sets it to the interval, as a review does.
Even(r) == r.due = r.interval

Saved(k) == k \in DOMAIN rows /\ rows[k] = dict[k][card[k]]

\* t has begun a review of k and not copied it yet.
BeingReviewed(t, k) == pc[t] \in {"space", "ease", "due"} /\ job[t].card = k

CardsEven ==
  \A k \in Cards :
    card[k] # NoDict =>
      Even(dict[k][card[k]]) \/ \E t \in Threads : BeingReviewed(t, k)

RowsEven == \A k \in DOMAIN rows : Even(rows[k])

\* A copy that waits to be saved is still what the service holds.
CopiesTrue ==
  \A t \in Threads :
    /\ pc[t] \in {"idle", "space", "ease", "due"} => DOMAIN copies[t] = {}
    /\ \A k \in DOMAIN copies[t] : card[k] # NoDict /\ copies[t][k] = dict[k][card[k]]

\* A card is saved, or someone is on the way to save it, or its save has failed.
CardsAccounted ==
  \A k \in Cards :
    card[k] # NoDict =>
      \/ Saved(k) \/ k \in unsaved
      \/ \E t \in Threads : k \in DOMAIN copies[t] \/ BeingReviewed(t, k)

JobsCurrent ==
  \A t \in Threads :
    pc[t] \in {"space", "ease", "due", "store"} => job[t].dict = card[job[t].card]

SavedInv ==
  Sqlite => CardsEven /\ RowsEven /\ CopiesTrue /\ CardsAccounted /\ JobsCurrent

\* Initially there is no card.
LEMMA InitSaved == Init => SavedInv
BY DEF Init, SavedInv, CardsEven, RowsEven, CopiesTrue, CardsAccounted, JobsCurrent, NoCopies

\* While a review changes its card's dict, the other cards stay as they are.
LEMMA ReviewKeepsSaved ==
  ASSUME NEW t, Threads = {t}, TypeOK, CardsEven, RowsEven, CopiesTrue, CardsAccounted,
         NEW k \in Cards, card[k] # NoDict, card' = card, rows' = rows, unsaved' = unsaved,
         copies' = copies, pc[t] \in {"idle", "space", "ease"},
         pc[t] # "idle" => job[t].card = k,
         \A c \in Cards : \A u \in Dicts : (c # k \/ u # card[k]) => dict'[c][u] = dict[c][u],
         pc'[t] \in {"space", "ease", "due"}, job'[t].card = k, job'[t].dict = card[k]
  PROVE  (CardsEven /\ RowsEven /\ CopiesTrue /\ CardsAccounted /\ JobsCurrent)'
<1>1. \A c \in Cards \ {k} : card[c] # NoDict => dict'[c][card[c]] = dict[c][card[c]]
  BY DEF TypeOK
<1>2. BeingReviewed(t, k)'
  BY DEF BeingReviewed
<1>3. \A c \in Cards \ {k} : ~ BeingReviewed(t, c) /\ c \notin DOMAIN copies[t]
  BY DEF BeingReviewed, CopiesTrue
<1>4. CardsEven'
  BY <1>1, <1>2, <1>3 DEF CardsEven
<1>5. RowsEven' /\ CopiesTrue' /\ JobsCurrent'
  BY DEF RowsEven, CopiesTrue, JobsCurrent
<1>6. CardsAccounted'
  <2> SUFFICES ASSUME NEW c \in Cards \ {k}, card[c] # NoDict
               PROVE  Saved(c)' \/ c \in unsaved
    BY <1>2 DEF CardsAccounted
  <2>1. Saved(c) \/ c \in unsaved
    BY <1>3 DEF CardsAccounted
  <2> QED
    BY <1>1, <2>1 DEF Saved
<1> QED
  BY <1>4, <1>5, <1>6

\* Every step keeps it, when there is one thread.
LEMMA StepSaved ==
  ASSUME NEW s, Threads = {s}, TypeInv, SavedInv, [Next]_vars
  PROVE  SavedInv'
<1> SUFFICES ASSUME Sqlite
             PROVE  (CardsEven /\ RowsEven /\ CopiesTrue /\ CardsAccounted /\ JobsCurrent)'
  BY DEF SavedInv
<1> USE FlashcardAssumption DEF TypeInv
<1> DEFINE Kept == CardsEven /\ RowsEven /\ CopiesTrue /\ CardsAccounted /\ JobsCurrent
<1>0. Kept
  BY DEF SavedInv
<1>1. ASSUME UNCHANGED vars PROVE Kept'
  BY <1>0, <1>1
  DEF vars, CardsEven, RowsEven, CopiesTrue, CardsAccounted, JobsCurrent, BeingReviewed, Saved
<1>2. ASSUME NEW t \in Threads, NEW k \in Cards, NEW rating \in Ratings,
             ReviewBegins(t, k, rating)
      PROVE  Kept'
  <2>1. /\ pc[t] = "idle" /\ pc'[t] = "space" /\ card[k] # NoDict
        /\ UNCHANGED <<card, rows, copies, unsaved>>
    BY <1>2 DEF ReviewBegins, Goto, TypeOK
  <2>2. job'[t].card = k /\ job'[t].dict = card[k]
    BY <1>2, NoJobIsJob DEF ReviewBegins, TypeOK, NoJobFits
  <2>3. \A c \in Cards : \A u \in Dicts : (c # k \/ u # card[k]) => dict'[c][u] = dict[c][u]
    BY <1>2 DEF ReviewBegins, TypeOK
  <2>4. Threads = {t}
    OBVIOUS
  <2> QED
    BY <1>0, <2>1, <2>2, <2>3, <2>4, ReviewKeepsSaved
<1>3. ASSUME NEW t \in Threads, ReviewSpaces(t) \/ ReviewEases(t) PROVE Kept'
  <2> DEFINE k == job[t].card
             v == job[t].dict
  <2>1. /\ pc[t] \in {"space", "ease"} /\ pc'[t] \in {"ease", "due"}
        /\ UNCHANGED <<card, rows, copies, unsaved, job>>
    BY <1>3 DEF ReviewSpaces, ReviewEases, Goto, TypeOK
  <2>2. k \in Cards /\ v \in Dicts /\ v = card[k] /\ card[k] # NoDict
    BY <1>0, <2>1 DEF TypeOK, JobsFit, JobsCurrent, Dicts, NoDict
  <2>3. \A c \in Cards : \A u \in Dicts : (c # k \/ u # card[k]) => dict'[c][u] = dict[c][u]
    BY <1>3, <2>2 DEF ReviewSpaces, ReviewEases, TypeOK
  <2>4. Threads = {t}
    OBVIOUS
  <2> HIDE DEF k, v
  <2>5. k = job[t].card /\ v = job[t].dict
    BY DEF k, v
  <2> QED
    BY <1>0, <2>1, <2>2, <2>3, <2>4, <2>5, ReviewKeepsSaved
<1>5. ASSUME NEW t \in Threads, ReviewCopies(t) PROVE Kept'
  <2> DEFINE k == job[t].card
             v == job[t].dict
             r == [dict[k][v] EXCEPT !.due = dict[k][v].interval]
  <2>1. /\ pc[t] = "due" /\ pc'[t] = "save"
        /\ UNCHANGED <<card, rows, unsaved, job>>
    BY <1>5 DEF ReviewCopies, Goto, TypeOK
  <2>2. k \in Cards /\ v \in Dicts /\ v = card[k] /\ card[k] # NoDict /\ Sound(dict[k][v])
    BY <1>0, <2>1, DictIsSound DEF TypeOK, JobsFit, JobsCurrent, Dicts, NoDict
  <2>3. dict' = [dict EXCEPT ![k] = [@ EXCEPT ![v] = r]]
    BY <1>5, <2>2 DEF ReviewCopies, TypeOK
  <2>4. copies'[t] = [c \in {k} |-> dict'[k][v]]
    BY <1>5 DEF ReviewCopies, TypeOK
  <2>5. Even(r)
    BY <2>2 DEF Even, Sound, Review
  <2>6. Threads = {t} /\ \A c \in Cards : BeingReviewed(t, c) => c = k
    BY DEF BeingReviewed
  <2>7. DOMAIN copies[t] = {}
    BY <1>0, <2>1 DEF CopiesTrue
  <2> HIDE DEF r
  <2>8. dict'[k][v] = r /\ \A c \in Cards \ {k} : dict'[c] = dict[c]
    BY <2>2, <2>3 DEF TypeOK
  <2> HIDE DEF k, v
  <2>9. DOMAIN copies'[t] = {k} /\ copies'[t][k] = dict'[k][card'[k]]
    BY <2>1, <2>2, <2>4
  <2>10. CardsEven'
    BY <1>0, <2>1, <2>2, <2>5, <2>6, <2>8 DEF CardsEven
  <2>11. RowsEven' /\ JobsCurrent'
    BY <1>0, <2>1, <2>6 DEF RowsEven, JobsCurrent
  <2>12. CopiesTrue'
    BY <2>1, <2>2, <2>6, <2>9 DEF CopiesTrue
  <2>13. CardsAccounted'
    <3> SUFFICES ASSUME NEW c \in Cards \ {k}, card[c] # NoDict
                 PROVE  Saved(c)' \/ c \in unsaved
      BY <2>1, <2>6, <2>9 DEF CardsAccounted
    <3>1. Saved(c) \/ c \in unsaved
      BY <1>0, <2>6, <2>7 DEF CardsAccounted
    <3> QED
      BY <2>1, <2>8, <3>1 DEF Saved
  <2> QED
    BY <2>10, <2>11, <2>12, <2>13
<1>6. ASSUME NEW t \in Threads, GenerateBegins(t) PROVE Kept'
  <2>1. /\ pc[t] = "idle" /\ pc'[t] = "look"
        /\ UNCHANGED <<dict, card, rows, copies, unsaved>>
    BY <1>6 DEF GenerateBegins, Goto, TypeOK
  <2>2. Threads = {t} /\ DOMAIN copies[t] = {}
    BY <1>0, <2>1 DEF CopiesTrue
  <2> QED
    BY <1>0, <2>1, <2>2
    DEF CardsEven, RowsEven, CopiesTrue, CardsAccounted, JobsCurrent, BeingReviewed, Saved
<1>7. ASSUME NEW t \in Threads, NEW k \in Cards, GenerateLooks(t, k) PROVE Kept'
  <2>1. /\ pc[t] = "look" /\ pc'[t] = "store"
        /\ UNCHANGED <<dict, card, rows, copies, unsaved>>
    BY <1>7 DEF GenerateLooks, Goto, TypeOK
  <2>2. Threads = {t} /\ job'[t].card = k /\ job'[t].dict = card[k]
    BY <1>7 DEF GenerateLooks, TypeOK
  <2> QED
    BY <1>0, <2>1, <2>2
    DEF CardsEven, RowsEven, CopiesTrue, CardsAccounted, JobsCurrent, BeingReviewed, Saved
<1>8. ASSUME NEW t \in Threads, GenerateStores(t) PROVE Kept'
  <2> DEFINE k == job[t].card
             v == IF job[t].dict # NoDict THEN job[t].dict ELSE job[t].made
  <2>1. pc[t] = "store" /\ UNCHANGED <<rows, job, unsaved>> /\ pc'[t] \in {"save", "look"}
    BY <1>8 DEF GenerateStores, Goto, TypeOK
  <2>2. k \in Cards /\ v \in Dicts /\ v # NoDict
    BY <2>1 DEF TypeOK, JobsFit, Dicts, NoDict
  <2>3. dict' = IF job[t].dict # NoDict THEN dict
                ELSE [dict EXCEPT ![k] = [@ EXCEPT ![v] = Fresh]]
    BY <1>8, <2>2 DEF GenerateStores, TypeOK
  <2>4. job[t].dict = card[k]
    BY <1>0, <2>1 DEF JobsCurrent
  <2>5. card' = [card EXCEPT ![k] = v]
    BY <1>8 DEF GenerateStores
  <2>6. copies'[t] = [c \in DOMAIN copies[t] \cup {k} |->
                        IF c = k THEN dict'[k][v] ELSE copies[t][c]]
    BY <1>8 DEF GenerateStores, TypeOK
  <2>7. Threads = {t} /\ \A c \in Cards : ~ BeingReviewed(t, c)
    BY <2>1 DEF BeingReviewed
  <2>8. Even(dict'[k][v])
    <3>1. CASE job[t].dict # NoDict
      BY <1>0, <2>2, <2>3, <2>4, <2>7, <3>1 DEF CardsEven
    <3>2. CASE job[t].dict = NoDict
      <4>1. dict' = [dict EXCEPT ![k] = [@ EXCEPT ![v] = Fresh]]
        BY <2>3, <3>2
      <4> HIDE DEF v
      <4>2. dict'[k][v] = Fresh
        BY <2>2, <4>1 DEF TypeOK
      <4> QED
        BY <4>2 DEF Even, Fresh
    <3> QED
      BY <3>1, <3>2
  <2> HIDE DEF k, v
  <2>9. /\ card'[k] = v
        /\ \A c \in Cards \ {k} : dict'[c] = dict[c] /\ card'[c] = card[c]
    BY <2>2, <2>3, <2>5 DEF TypeOK
  <2>10. CardsEven' /\ RowsEven' /\ JobsCurrent'
    BY <1>0, <2>1, <2>2, <2>7, <2>8, <2>9 DEF CardsEven, RowsEven, JobsCurrent
  <2>11. DOMAIN copies[t] \subseteq Cards
    BY DEF TypeOK
  <2>12. DOMAIN copies'[t] = DOMAIN copies[t] \cup {k} /\ copies'[t][k] = dict'[k][card'[k]]
         /\ \A c \in DOMAIN copies[t] \ {k} : copies'[t][c] = copies[t][c]
    BY <2>6, <2>9
  <2>13. CopiesTrue'
    BY <1>0, <2>1, <2>2, <2>7, <2>9, <2>11, <2>12 DEF CopiesTrue
  <2>14. CardsAccounted'
    <3> SUFFICES ASSUME NEW c \in Cards \ {k}, card[c] # NoDict
                 PROVE  Saved(c)' \/ c \in unsaved \/ c \in DOMAIN copies'[t]
      BY <2>1, <2>7, <2>9, <2>12 DEF CardsAccounted
    <3>1. Saved(c) \/ c \in unsaved \/ c \in DOMAIN copies[t]
      BY <1>0, <2>7 DEF CardsAccounted
    <3> QED
      BY <2>1, <2>9, <2>12, <3>1 DEF Saved
  <2> QED
    BY <2>10, <2>13, <2>14
<1>9. ASSUME NEW t \in Threads, Save(t) PROVE Kept'
  <2>1. /\ pc[t] = "save" /\ pc'[t] = "idle" /\ copies'[t] = NoCopies
        /\ UNCHANGED <<dict, card>>
        /\ unsaved' = unsaved \ DOMAIN copies[t]
        /\ rows' = [k \in DOMAIN rows \cup DOMAIN copies[t] |->
                      IF k \in DOMAIN copies[t] THEN copies[t][k] ELSE rows[k]]
    BY <1>9 DEF Save, Return, Goto, TypeOK
  <2>2. Threads = {t} /\ DOMAIN copies'[t] = {} /\ \A c \in Cards : ~ BeingReviewed(t, c)
    BY <2>1 DEF NoCopies, BeingReviewed
  <2>3. DOMAIN copies[t] \subseteq Cards
    BY DEF TypeOK
  <2>4. CardsEven' /\ CopiesTrue' /\ JobsCurrent'
    BY <1>0, <2>1, <2>2 DEF CardsEven, CopiesTrue, JobsCurrent
  <2>5. RowsEven'
    <3>1. \A c \in DOMAIN copies[t] : Even(copies[t][c])
      BY <1>0, <2>2, <2>3 DEF CardsEven, CopiesTrue
    <3> QED
      BY <1>0, <2>1, <3>1 DEF RowsEven
  <2>6. CardsAccounted'
    <3> SUFFICES ASSUME NEW c \in Cards, card[c] # NoDict
                 PROVE  Saved(c)' \/ c \in unsaved'
      BY <2>1 DEF CardsAccounted
    <3>1. CASE c \in DOMAIN copies[t]
      <4>1. copies[t][c] = dict[c][card[c]]
        BY <1>0, <3>1 DEF CopiesTrue
      <4> QED
        BY <2>1, <3>1, <4>1 DEF Saved
    <3>2. CASE c \notin DOMAIN copies[t]
      <4>1. Saved(c) \/ c \in unsaved
        BY <1>0, <2>2, <3>2 DEF CardsAccounted
      <4> QED
        BY <2>1, <3>2, <4>1 DEF Saved
    <3> QED
      BY <3>1, <3>2
  <2> QED
    BY <2>4, <2>5, <2>6
<1>10. ASSUME NEW t \in Threads, SaveRaises(t) PROVE Kept'
  <2>1. /\ pc[t] = "save" /\ pc'[t] = "idle" /\ copies'[t] = NoCopies
        /\ UNCHANGED <<dict, card, rows>>
        /\ unsaved' = unsaved \cup DOMAIN copies[t]
    BY <1>10 DEF SaveRaises, Return, Goto, TypeOK
  <2>2. Threads = {t} /\ DOMAIN copies'[t] = {} /\ \A c \in Cards : ~ BeingReviewed(t, c)
    BY <2>1 DEF NoCopies, BeingReviewed
  <2>3. CardsEven' /\ RowsEven' /\ CopiesTrue' /\ JobsCurrent'
    BY <1>0, <2>1, <2>2 DEF CardsEven, RowsEven, CopiesTrue, JobsCurrent
  <2>4. CardsAccounted'
    BY <1>0, <2>1, <2>2 DEF CardsAccounted, Saved
  <2> QED
    BY <2>3, <2>4
<1>11. ASSUME Restart PROVE Kept'
  <2> DEFINE v == generates + restarts'
  <2>1. v \in Dicts /\ v # NoDict
    BY <1>11 DEF Restart, TypeOK, Dicts, NoDict
  <2>2. dict' = [k \in Cards |->
          IF k \in DOMAIN rows THEN [dict[k] EXCEPT ![v] = LoadedReview(rows[k])] ELSE dict[k]]
    BY <1>11 DEF Restart
  <2>3. /\ card' = [k \in Cards |-> IF k \in DOMAIN rows THEN v ELSE NoDict]
        /\ rows' = rows
        /\ \A t \in Threads : pc'[t] = "idle" /\ DOMAIN copies'[t] = {}
    BY <1>11 DEF Restart, NoCopies
  <2>4. \A k \in DOMAIN rows : LoadedReview(rows[k]) = rows[k] /\ Even(rows[k])
    <3> SUFFICES ASSUME NEW k \in DOMAIN rows
                 PROVE  LoadedReview(rows[k]) = rows[k] /\ Even(rows[k])
      OBVIOUS
    <3>1. rows[k] \in Review /\ Even(rows[k])
      BY <1>0 DEF TypeOK, RowsEven
    <3> QED
      BY <3>1 DEF LoadedReview, Even, Review
  <2> HIDE DEF v
  <2>5. \A k \in Cards : card'[k] # NoDict =>
          k \in DOMAIN rows /\ dict'[k][card'[k]] = rows[k]
    BY <2>1, <2>2, <2>3, <2>4 DEF TypeOK
  <2>6. CardsEven' /\ RowsEven'
    BY <2>3, <2>4, <2>5 DEF CardsEven, RowsEven
  <2>7. CopiesTrue' /\ JobsCurrent'
    BY <2>3 DEF CopiesTrue, JobsCurrent
  <2>8. CardsAccounted'
    BY <2>3, <2>5 DEF CardsAccounted, Saved
  <2> QED
    BY <2>6, <2>7, <2>8
<1> QED
  BY <1>1, <1>2, <1>3, <1>5, <1>6, <1>7, <1>8, <1>9, <1>10, <1>11 DEF Next

\* When requests come one at a time, what the database holds of a card is what
\* the service holds whenever no request is in progress, unless the last save
\* of the card has failed: a restart loses no review that was answered.
THEOREM AnsweredReviewsSaved ==
  ASSUME NEW s, Threads = {s}
  PROVE  Spec => []ReviewsSaved
<1> DEFINE Inv == TypeInv /\ SavedInv
<1>1. Init => Inv
  BY InitTyped, InitSaved
<1>2. Inv /\ [Next]_vars => Inv'
  BY StepTyped, StepSaved
<1>3. Inv => ReviewsSaved
  BY DEF SavedInv, CardsAccounted, CopiesTrue, BeingReviewed, Saved, ReviewsSaved
<1> HIDE DEF Inv
<1> QED
  BY <1>1, <1>2, <1>3, PTL DEF Spec

\* When requests come one at a time, generating the cards again, saving them or
\* failing to save them leaves the review of a card that exists as it is.
THEOREM GeneratingKeepsReviews ==
  ASSUME NEW s, Threads = {s}
  PROVE  Spec => ReviewsKept
<1> DEFINE Inv == TypeInv /\ ScheduleInv
           A == \A k \in Cards :
                  (/\ card[k] # NoDict
                   /\ \A t \in Threads : pc[t] \notin {"space", "ease", "due"}
                   /\ reviews' = reviews /\ restarts' = restarts)
                    => card'[k] # NoDict /\ dict'[k][card'[k]] = dict[k][card[k]]
<1>1. Init => Inv
  BY InitTyped, InitScheduled
<1>2. Inv /\ [Next]_vars => Inv'
  BY StepTyped, StepScheduled
<1>3. Inv /\ [Next]_vars => A
  <2> SUFFICES ASSUME Inv, [Next]_vars, NEW k \in Cards, card[k] # NoDict,
                      \A t \in Threads : pc[t] \notin {"space", "ease", "due"},
                      reviews' = reviews, restarts' = restarts
               PROVE  card'[k] = card[k] /\ dict'[k][card[k]] = dict[k][card[k]]
    OBVIOUS
  <2>1. ASSUME NEW t \in Threads, GenerateStores(t)
        PROVE  card'[k] = card[k] /\ dict'[k] = dict[k]
    <3> DEFINE c == job[t].card
               v == IF job[t].dict # NoDict THEN job[t].dict ELSE job[t].made
    <3>1. job[t].dict = card[c]
      BY <2>1 DEF GenerateStores, ScheduleInv, JobsOnSchedule
    <3>2. c \in Cards /\ dict \in [Cards -> [Dicts -> Review]]
          /\ card \in [Cards -> Dicts \cup {NoDict}]
      BY DEF TypeInv, TypeOK
    <3>3. /\ card' = [card EXCEPT ![c] = v]
          /\ dict' = IF job[t].dict # NoDict THEN dict ELSE [dict EXCEPT ![c][v] = Fresh]
      BY <2>1 DEF GenerateStores
    <3> QED
      BY <3>1, <3>2, <3>3
  <2>2. ASSUME NEW t \in Threads,
               \/ GenerateBegins(t) \/ (\E c \in Cards : GenerateLooks(t, c))
               \/ Save(t) \/ SaveRaises(t)
        PROVE  UNCHANGED <<card, dict>>
    BY <2>2 DEF GenerateBegins, GenerateLooks, Save, SaveRaises
  <2>3. ASSUME NEW t \in Threads, NEW c \in Cards, NEW rating \in Ratings,
               ReviewBegins(t, c, rating)
        PROVE  FALSE
    BY <2>3 DEF ReviewBegins, TypeInv, TypeOK
  <2>4. ASSUME NEW t \in Threads, ReviewSpaces(t) \/ ReviewEases(t) \/ ReviewCopies(t)
        PROVE  FALSE
    BY <2>4 DEF ReviewSpaces, ReviewEases, ReviewCopies
  <2>5. ~ Restart
    BY DEF Restart, TypeInv, TypeOK
  <2> QED
    BY <2>1, <2>2, <2>3, <2>4, <2>5 DEF Next, vars
<1> HIDE DEF Inv, A
<1>4. Spec => [][A]_vars
  BY <1>1, <1>2, <1>3, PTL DEF Spec
<1> QED
  BY <1>4 DEF A, ReviewsKept

=============================================================================
