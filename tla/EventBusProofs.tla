--------------------------- MODULE EventBusProofs ---------------------------
(***************************************************************************)
(* Theorems about EventBus for every number of vaults, clients, publishes  *)
(* and restarts.                                                           *)
(***************************************************************************)
EXTENDS EventBus, FiniteSetTheorems, SequenceTheorems, TLAPS

-----------------------------------------------------------------------------
(* InOrder lists a finite set of naturals: every member once, in ascending   *)
(* order.  The lemmas below cite this wherever a list is filtered or sorted. *)

\* Ranks of members lie in 1..Cardinality(S) and grow with the members.
LEMMA RankGrows ==
  ASSUME NEW S \in SUBSET Nat, IsFiniteSet(S)
  PROVE  /\ Cardinality(S) \in Nat
         /\ \A n \in S : Rank(S, n) \in 1..Cardinality(S)
         /\ \A m, n \in S : m < n => Rank(S, m) < Rank(S, n)
<1> DEFINE Below(n) == {m \in S : m <= n}
<1>1. Cardinality(S) \in Nat
  BY FS_CardinalityType
<1>2. \A n \in S : IsFiniteSet(Below(n)) /\ Cardinality(Below(n)) \in Nat
                   /\ Cardinality(Below(n)) <= Cardinality(S)
  <2> TAKE n \in S
  <2>1. Below(n) \in SUBSET S
    OBVIOUS
  <2> QED BY <2>1, FS_Subset, FS_CardinalityType
<1>3. \A n \in S : Cardinality(Below(n)) # 0
  <2> TAKE n \in S
  <2>1. n \in Below(n)
    OBVIOUS
  <2> QED BY <2>1, <1>2, FS_EmptySet
<1>4. \A m, n \in S : m < n => Cardinality(Below(m)) < Cardinality(Below(n))
  <2> SUFFICES ASSUME NEW m \in S, NEW n \in S, m < n
               PROVE  Cardinality(Below(m)) < Cardinality(Below(n))
    OBVIOUS
  <2>0. m \in Nat /\ n \in Nat /\ \A x \in S : x \in Nat
    OBVIOUS
  <2>1. \A x \in Below(m) : x \in Below(n)
    BY <2>0
  <2>2. n \in Below(n) /\ n \notin Below(m)
    BY <2>0
  <2>3. Below(m) \in SUBSET Below(n) /\ Below(m) # Below(n)
    <3> HIDE DEF Below
    <3> QED BY <2>1, <2>2
  <2>4. Cardinality(Below(m)) <= Cardinality(Below(n))
        /\ Cardinality(Below(m)) # Cardinality(Below(n))
    BY <2>3, <1>2, FS_Subset
  <2> QED BY <2>4, <1>2
<1> QED BY <1>1, <1>2, <1>3, <1>4 DEF Rank

\* Every member has the position its rank names.
LEMMA InOrderAtRank ==
  ASSUME NEW S \in SUBSET Nat, IsFiniteSet(S), NEW n \in S
  PROVE  /\ Rank(S, n) \in 1..Cardinality(S)
         /\ InOrder(S)[Rank(S, n)] = n
<1>1. Rank(S, n) \in 1..Cardinality(S)
  BY RankGrows
<1>2. \A m \in S : Rank(S, m) = Rank(S, n) => m = n
  <2> SUFFICES ASSUME NEW m \in S, m # n
               PROVE  Rank(S, m) # Rank(S, n)
    OBVIOUS
  <2>1. m < n \/ n < m
    OBVIOUS
  <2> QED BY <2>1, RankGrows, <1>1
<1>3. InOrder(S)[Rank(S, n)] = CHOOSE m \in S : Rank(S, m) = Rank(S, n)
  BY <1>1 DEF InOrder
<1> QED BY <1>1, <1>2, <1>3

\* InOrder(S) is an ascending listing of S.
THEOREM InOrderLists ==
  ASSUME NEW S \in SUBSET Nat, IsFiniteSet(S)
  PROVE  /\ Cardinality(S) \in Nat
         /\ InOrder(S) \in [1..Cardinality(S) -> S]
         /\ \A n \in S : \E k \in 1..Cardinality(S) : InOrder(S)[k] = n
         /\ \A j, k \in 1..Cardinality(S) : j < k => InOrder(S)[j] < InOrder(S)[k]
<1> DEFINE N == Cardinality(S)
           r == [n \in S |-> Rank(S, n)]
<1>1. N \in Nat /\ \A n \in S : Rank(S, n) \in 1..N
  BY RankGrows
<1>2. r \in [S -> 1..N]
  BY <1>1
<1>3. \A m, n \in S : r[m] = r[n] => m = n
  BY InOrderAtRank
<1>4. r \in Injection(S, 1..N)
  BY <1>2, <1>3 DEF Injection, IsInjective
<1>5. IsFiniteSet(1..N) /\ Cardinality(1..N) = N
  BY <1>1, FS_Interval
<1>6. r \in Surjection(S, 1..N)
  BY <1>4, <1>5, FS_Injection
<1>7. \A k \in 1..N : \E n \in S : Rank(S, n) = k
  BY <1>6 DEF Surjection
<1>8. \A k \in 1..N : InOrder(S)[k] \in S /\ Rank(S, InOrder(S)[k]) = k
  BY <1>7 DEF InOrder
<1>9. InOrder(S) \in [1..N -> S]
  BY <1>8 DEF InOrder
<1>10. \A j, k \in 1..N : j < k => InOrder(S)[j] < InOrder(S)[k]
  <2> SUFFICES ASSUME NEW j \in 1..N, NEW k \in 1..N, j < k
               PROVE  InOrder(S)[j] < InOrder(S)[k]
    OBVIOUS
  <2> DEFINE a == InOrder(S)[j]
             b == InOrder(S)[k]
  <2>1. a \in S /\ b \in S /\ Rank(S, a) = j /\ Rank(S, b) = k
    BY <1>8
  <2>2. b < a => Rank(S, b) < Rank(S, a)
    BY <2>1, RankGrows
  <2>3. a # b
    BY <2>1
  <2>4. a \in Nat /\ b \in Nat
    BY <2>1
  <2>5. j \in Nat /\ k \in Nat
    BY <1>1
  <2>6. b < a => k < j
    BY <2>1, <2>2
  <2>7. a < b
    <3> HIDE DEF a, b
    <3> QED BY <2>3, <2>4, <2>5, <2>6
  <2> QED BY <2>7
<1> QED BY <1>1, <1>9, <1>10, InOrderAtRank

-----------------------------------------------------------------------------
\* Facts about the operators of the bus.

\* A deque of bounded length is the tail of what was put into it.
LEMMA KeepIsATail ==
  ASSUME NEW s \in Seq(Event)
  PROVE  /\ Keep(s) \in Seq(Event)
         /\ Len(Keep(s)) <= MaxEvents
         /\ Range(Keep(s)) \subseteq Range(s)
         /\ Increasing(s) => Increasing(Keep(s))
<1>1. CASE Len(s) <= MaxEvents
  <2>1. Keep(s) = s
    BY <1>1, ConstantsAssumption DEF Keep
  <2> QED BY <2>1, <1>1
<1>2. CASE Len(s) > MaxEvents
  <2> DEFINE d == Len(s) - MaxEvents
             t == SubSeq(s, d + 1, Len(s))
  <2>1. Keep(s) = t
    BY <1>2 DEF Keep
  <2>2. Len(s) \in Nat /\ MaxEvents \in Nat /\ d \in Nat /\ d + 1 <= Len(s)
    BY <1>2, ConstantsAssumption, LenProperties
  <2>3. /\ t \in Seq(Event)
        /\ Len(t) = MaxEvents
        /\ \A i \in 1..MaxEvents : t[i] = s[d + i]
    BY <2>2, <1>2, ConstantsAssumption
  <2>4. DOMAIN t = 1..MaxEvents /\ DOMAIN s = 1..Len(s)
    BY <2>3, LenProperties
  <2>5. \A i \in DOMAIN t : d + i \in DOMAIN s
    BY <2>2, <2>4
  <2>6. Range(t) \subseteq Range(s)
    <3> HIDE DEF d, t
    <3> QED BY <2>3, <2>4, <2>5 DEF Range
  <2>7. ASSUME Increasing(s) PROVE Increasing(t)
    <3> SUFFICES ASSUME NEW i \in DOMAIN t, NEW j \in DOMAIN t, i < j
                 PROVE  t[i].id < t[j].id
      BY DEF Increasing
    <3>1. d + i \in DOMAIN s /\ d + j \in DOMAIN s /\ d + i < d + j
      BY <2>2, <2>4, <2>5
    <3>2. s[d + i].id < s[d + j].id
      BY <3>1, <2>7 DEF Increasing
    <3>3. t[i] = s[d + i] /\ t[j] = s[d + j]
      BY <2>3, <2>4
    <3> QED BY <3>2, <3>3
  <2> HIDE DEF t
  <2> QED BY <2>1, <2>2, <2>3, <2>6, <2>7
<1> QED BY <1>1, <1>2, ConstantsAssumption, LenProperties

\* Appending an event above all the others keeps a list of events ascending.
LEMMA AppendNewest ==
  ASSUME NEW s \in Seq(Event), NEW e \in Event
  PROVE  /\ Append(s, e) \in Seq(Event)
         /\ Range(Append(s, e)) = Range(s) \cup {e}
         /\ (Increasing(s) /\ \A d \in Range(s) : d.id < e.id)
              => Increasing(Append(s, e))
<1> DEFINE t == Append(s, e)
<1>1. /\ t \in Seq(Event)
      /\ DOMAIN s = 1..Len(s) /\ Len(s) \in Nat
      /\ DOMAIN t = 1..(Len(s) + 1)
      /\ \A i \in 1..Len(s) : t[i] = s[i]
      /\ t[Len(s) + 1] = e
  BY AppendProperties, LenProperties
<1>2. Range(t) = Range(s) \cup {e}
  <2> HIDE DEF t
  <2>1. \A i \in DOMAIN t : i \in DOMAIN s \/ i = Len(s) + 1
    BY <1>1
  <2>2. Range(t) \subseteq Range(s) \cup {e}
    BY <1>1, <2>1 DEF Range
  <2>3. \A i \in DOMAIN s : i \in DOMAIN t
    BY <1>1
  <2>4. Len(s) + 1 \in DOMAIN t
    BY <1>1
  <2>5. Range(s) \subseteq Range(t)
    BY <1>1, <2>3 DEF Range
  <2>6. e \in Range(t)
    BY <1>1, <2>4 DEF Range
  <2> QED BY <2>2, <2>5, <2>6
<1>3. ASSUME Increasing(s), \A d \in Range(s) : d.id < e.id
      PROVE  Increasing(t)
  <2> SUFFICES ASSUME NEW i \in DOMAIN t, NEW j \in DOMAIN t, i < j
               PROVE  t[i].id < t[j].id
    BY DEF Increasing
  <2>1. i \in 1..Len(s) /\ i \in DOMAIN s /\ t[i] = s[i] /\ s[i] \in Range(s)
    BY <1>1 DEF Range
  <2>2. CASE j \in 1..Len(s)
    <3>1. t[j] = s[j] /\ j \in DOMAIN s
      BY <1>1, <2>2
    <3> QED BY <2>1, <3>1, <1>3 DEF Increasing
  <2>3. CASE j = Len(s) + 1
    BY <2>1, <2>3, <1>1, <1>3
  <2> QED BY <1>1, <2>2, <2>3
<1> HIDE DEF t
<1> QED BY <1>1, <1>2, <1>3 DEF t

\* replay() lists the retained events of the vault past the boundary, all of
\* them, none twice, in the deque's order.
LEMMA ReplayLists ==
  ASSUME events \in Seq(Event), NEW v, NEW b
  PROVE  /\ Replay(v, b) \in Seq(Event)
         /\ Range(Replay(v, b))
              = {e \in Range(events) : e.vault = v /\ e.id > b}
         /\ Increasing(events) => Increasing(Replay(v, b))
<1> DEFINE hits == {i \in DOMAIN events : events[i].vault = v /\ events[i].id > b}
           N == Cardinality(hits)
           ord == InOrder(hits)
           ans == Replay(v, b)
<1>1. DOMAIN events = 1..Len(events) /\ Len(events) \in Nat
      /\ \A i \in DOMAIN events : events[i] \in Event
  BY LenProperties
<1>2. hits \in SUBSET Nat /\ IsFiniteSet(hits)
  <2>1. hits \in SUBSET (1..Len(events))
    BY <1>1
  <2>2. IsFiniteSet(1..Len(events))
    BY <1>1, FS_Interval
  <2>3. IsFiniteSet(hits)
    BY <2>1, <2>2, FS_Subset
  <2> HIDE DEF hits
  <2> QED BY <2>1, <2>3
<1>3. /\ N \in Nat
      /\ ord \in [1..N -> hits]
      /\ \A i \in hits : \E k \in 1..N : ord[k] = i
      /\ \A j, k \in 1..N : j < k => ord[j] < ord[k]
  BY <1>2, InOrderLists
<1>4. ans = [k \in 1..N |-> events[ord[k]]]
  BY DEF Replay
<1> HIDE DEF ord, N, ans
<1>5. \A k \in 1..N : ord[k] \in hits /\ ord[k] \in DOMAIN events
  BY <1>3
<1>6. ans \in [1..N -> Event]
  BY <1>1, <1>4, <1>5
<1>7. ans \in Seq(Event)
  BY <1>3, <1>6, SeqDef
<1>8. Range(ans) = {e \in Range(events) : e.vault = v /\ e.id > b}
  <2>1. ASSUME NEW k \in 1..N
        PROVE  /\ ans[k] \in Range(events)
               /\ ans[k].vault = v /\ ans[k].id > b
    BY <1>4, <1>5 DEF Range
  <2>2. ASSUME NEW e \in Range(events), e.vault = v, e.id > b
        PROVE  \E k \in 1..N : ans[k] = e
    <3>1. PICK i \in DOMAIN events : events[i] = e
      BY DEF Range
    <3>2. i \in hits
      BY <3>1, <2>2
    <3>3. PICK k \in 1..N : ord[k] = i
      BY <3>2, <1>3
    <3> QED BY <3>1, <3>3, <1>4
  <2>3. DOMAIN ans = 1..N
    BY <1>6
  <2> QED BY <2>1, <2>2, <2>3 DEF Range
<1>9. ASSUME Increasing(events) PROVE Increasing(ans)
  <2> SUFFICES ASSUME NEW j \in 1..N, NEW k \in 1..N, j < k
               PROVE  ans[j].id < ans[k].id
    BY <1>6 DEF Increasing
  <2>1. ord[j] \in DOMAIN events /\ ord[k] \in DOMAIN events /\ ord[j] < ord[k]
    BY <1>3, <1>5
  <2>2. events[ord[j]].id < events[ord[k]].id
    BY <2>1, <1>9 DEF Increasing
  <2> QED BY <2>2, <1>4
<1> QED BY <1>7, <1>8, <1>9 DEF ans

\* Sorting rows that are in order already changes nothing.
LEMMA LoadOrderedRows ==
  ASSUME NEW rows \in Seq(Event), Increasing(rows)
  PROVE  LoadRows(rows) = rows
<1> DEFINE ids == {r.id : r \in Range(rows)}
           N == Len(rows)
<1>1. DOMAIN rows = 1..N /\ N \in Nat /\ \A i \in 1..N : rows[i] \in Event
  BY LenProperties
<1>2. ids = {rows[i].id : i \in 1..N}
  BY <1>1 DEF Range
<1>3. \A i, j \in 1..N : (i < j => rows[i].id < rows[j].id) /\ rows[i].id \in Nat
  BY <1>1 DEF Increasing, Event
<1>4. \A i, j \in 1..N : rows[i].id = rows[j].id => i = j
  <2> SUFFICES ASSUME NEW i \in 1..N, NEW j \in 1..N, rows[i].id = rows[j].id
               PROVE  i = j
    OBVIOUS
  <2>1. ~(i < j) /\ ~(j < i)
    BY <1>3
  <2> QED BY <2>1, <1>1
<1>5. \A k \in 0..N : IsFiniteSet({rows[i].id : i \in 1..k})
                      /\ Cardinality({rows[i].id : i \in 1..k}) = k
  <2> SUFFICES ASSUME NEW k \in 0..N
               PROVE  /\ IsFiniteSet({rows[i].id : i \in 1..k})
                      /\ Cardinality({rows[i].id : i \in 1..k}) = k
    OBVIOUS
  <2> DEFINE T == {rows[i].id : i \in 1..k}
             f == [i \in 1..k |-> rows[i].id]
  <2>1. k \in Nat /\ \A i \in 1..k : i \in 1..N
    BY <1>1
  <2>2. f \in [1..k -> T] /\ \A t \in T : \E i \in 1..k : f[i] = t
    OBVIOUS
  <2>3. \A i, j \in 1..k : f[i] = f[j] => i = j
    BY <2>1, <1>4
  <2>4. f \in Bijection(1..k, T)
    BY <2>2, <2>3 DEF Bijection, Injection, Surjection, IsInjective
  <2>5. IsFiniteSet(1..k) /\ Cardinality(1..k) = k
    BY <2>1, FS_Interval
  <2> QED BY <2>4, <2>5, FS_Bijection DEF ExistsBijection
<1>6. ids \in SUBSET Nat /\ IsFiniteSet(ids) /\ Cardinality(ids) = N
  <2>1. N \in 0..N
    BY <1>1
  <2>2. IsFiniteSet(ids) /\ Cardinality(ids) = N
    BY <2>1, <1>2, <1>5
  <2>3. ids \in SUBSET Nat
    BY <1>2, <1>3
  <2> QED BY <2>2, <2>3
<1>7. \A k \in 1..N : InOrder(ids)[k] = rows[k].id
  <2> TAKE k \in 1..N
  <2>a. rows[k].id \in ids
    BY <1>2
  <2>b. k \in 0..N
    BY <1>1
  <2>1. rows[k].id \in ids /\ k \in 0..N
    BY <2>a, <2>b
  <2>2. {m \in ids : m <= rows[k].id} = {rows[i].id : i \in 1..k}
    <3>1. \A i \in 1..N : rows[i].id <= rows[k].id <=> i <= k
      <4> TAKE i \in 1..N
      <4>1. i < k => rows[i].id < rows[k].id
        BY <1>3
      <4>2. k < i => rows[k].id < rows[i].id
        BY <1>3
      <4>3. i \in Nat /\ k \in Nat /\ rows[i].id \in Nat /\ rows[k].id \in Nat
        BY <1>1, <1>3
      <4> QED BY <4>1, <4>2, <4>3
    <3>2. \A i \in 1..k : i \in 1..N /\ i <= k
      BY <1>1
    <3>3. \A i \in 1..N : i <= k => i \in 1..k
      BY <1>1
    <3> QED BY <1>2, <3>1, <3>2, <3>3
  <2>3. Rank(ids, rows[k].id) = k
    BY <2>1, <2>2, <1>5 DEF Rank
  <2> HIDE DEF ids
  <2> QED BY <2>1, <2>3, <1>6, InOrderAtRank
<1>8. \A k \in 1..N : (CHOOSE r \in Range(rows) : r.id = InOrder(ids)[k]) = rows[k]
  <2> TAKE k \in 1..N
  <2>1. rows[k] \in Range(rows) /\ rows[k].id = InOrder(ids)[k]
    BY <1>1, <1>7 DEF Range
  <2>2. \A r \in Range(rows) : r.id = InOrder(ids)[k] => r = rows[k]
    <3> SUFFICES ASSUME NEW r \in Range(rows), r.id = rows[k].id
                 PROVE  r = rows[k]
      BY <1>7
    <3>1. PICK i \in 1..N : r = rows[i]
      BY <1>1 DEF Range
    <3> QED BY <3>1, <1>4
  <2> HIDE DEF ids
  <2> QED BY <2>1, <2>2
<1>9. LoadRows(rows) = [k \in 1..N |-> rows[k]]
  BY <1>6, <1>8 DEF LoadRows
<1> QED BY <1>1, <1>9

\* The id after a list of rows is above every one of them.
LEMMA NextIdIsAbove ==
  ASSUME NEW rows \in Seq(Event), Increasing(rows)
  PROVE  /\ NextIdAfter(rows) \in Nat \ {0}
         /\ \A r \in Range(rows) : r.id < NextIdAfter(rows)
         /\ rows = <<>> => NextIdAfter(rows) = 1
         /\ rows # <<>> => NextIdAfter(rows) = rows[Len(rows)].id + 1
<1>1. CASE rows = <<>>
  BY <1>1 DEF NextIdAfter, Range
<1>2. CASE rows # <<>>
  <2> DEFINE N == Len(rows)
             top == rows[N].id
             ids == {r.id : r \in Range(rows)}
  <2>1. DOMAIN rows = 1..N /\ N \in Nat \ {0} /\ \A i \in 1..N : rows[i] \in Event
    BY <1>2, LenProperties, EmptySeq
  <2>2. N \in 1..N /\ top \in ids /\ top \in Nat
    BY <2>1 DEF Range, Event
  <2>3. \A r \in Range(rows) : r.id \in Nat /\ r.id <= top
    <3> SUFFICES ASSUME NEW i \in 1..N
                 PROVE  rows[i].id \in Nat /\ rows[i].id <= top
      BY <2>1 DEF Range
    <3>1. i < N => rows[i].id < top
      BY <2>1, <2>2 DEF Increasing
    <3>2. rows[i].id \in Nat
      BY <2>1 DEF Event
    <3>3. i < N \/ i = N
      <4>1. N \in Nat
        BY <2>1
      <4> HIDE DEF N
      <4> QED BY <4>1
    <3> QED BY <3>1, <3>2, <3>3, <2>2
  <2> DEFINE m == CHOOSE n \in ids : \A r \in Range(rows) : r.id <= n
  <2>4. m \in ids /\ \A r \in Range(rows) : r.id <= m
    BY <2>2, <2>3
  <2>5. m \in Nat /\ m <= top /\ top <= m
    <3>1. PICK r \in Range(rows) : m = r.id
      BY <2>4
    <3>2. top <= m
      BY <2>1, <2>2, <2>4 DEF Range
    <3> QED BY <3>1, <3>2, <2>3
  <2>6. NextIdAfter(rows) = m + 1
    BY <1>2 DEF NextIdAfter
  <2> HIDE DEF m, top, ids
  <2>7. m = top
    BY <2>2, <2>5
  <2> QED BY <1>2, <2>2, <2>3, <2>6, <2>7 DEF top
<1> QED BY <1>1, <1>2

-----------------------------------------------------------------------------
\* Type correctness and the order of ids.

\* What a publish does to the deque and to the rows.
LEMMA AnnounceFacts ==
  ASSUME TypeOK, IdsIncreasing, NEW v \in Vaults, Announce(v)
  PROVE  /\ NewEvent(v) \in Event /\ NewEvent(v).id = nextId
         /\ NewEvent(v).vault = v
         /\ events' \in Seq(Event) /\ Len(events') <= MaxEvents
         /\ Range(events') \subseteq Range(events) \cup {NewEvent(v)}
         /\ Increasing(events')
         /\ SaveRow(disk, NewEvent(v)) = Append(disk, NewEvent(v))
         /\ SaveRow(disk, NewEvent(v)) \in Seq(Event)
         /\ Range(SaveRow(disk, NewEvent(v))) = Range(disk) \cup {NewEvent(v)}
         /\ Increasing(SaveRow(disk, NewEvent(v)))
<1> DEFINE e == NewEvent(v)
<1>1. e \in Event /\ e.id = nextId /\ e.vault = v
  BY DEF TypeOK, NewEvent, Event
<1>2. /\ events \in Seq(Event) /\ Increasing(events)
      /\ disk \in Seq(Event) /\ Increasing(disk)
      /\ \A d \in Range(events) \cup Range(disk) : d.id < e.id
  BY <1>1 DEF TypeOK, IdsIncreasing
<1>3. events' = Keep(Append(events, e))
  BY DEF Announce
<1> HIDE DEF e
<1>4. /\ Append(events, e) \in Seq(Event) /\ Increasing(Append(events, e))
      /\ Range(Append(events, e)) = Range(events) \cup {e}
      /\ Append(disk, e) \in Seq(Event) /\ Increasing(Append(disk, e))
      /\ Range(Append(disk, e)) = Range(disk) \cup {e}
  BY <1>1, <1>2, AppendNewest
<1>5. /\ events' \in Seq(Event) /\ Len(events') <= MaxEvents
      /\ Range(events') \subseteq Range(events) \cup {e}
      /\ Increasing(events')
  BY <1>3, <1>4, KeepIsATail
<1>6. SaveRow(disk, e) = Append(disk, e)
  <2>1. \A d \in Range(disk) : d.id \in Nat /\ d.id < e.id /\ e.id \in Nat
    <3>1. \A d \in Range(disk) : d \in Event
      BY <1>2, LenProperties DEF Range
    <3> QED BY <1>1, <1>2, <3>1 DEF Event
  <2>2. \A d \in Range(disk) : d.id # e.id
    BY <2>1
  <2> QED BY <2>2 DEF SaveRow
<1> QED BY <1>1, <1>4, <1>5, <1>6 DEF e

\* Ids are in order to begin with.
LEMMA InitOrdered == Init => TypeOK /\ IdsIncreasing
<1> SUFFICES ASSUME Init PROVE TypeOK /\ IdsIncreasing
  OBVIOUS
<1>1. <<>> \in Seq(Event) /\ Len(<<>>) = 0 /\ Range(<<>>) = {} /\ Increasing(<<>>)
  BY EmptySeq DEF Range, Increasing
<1>2. TypeOK
  BY <1>1, ConstantsAssumption DEF Init, TypeOK, Phases
<1>3. IdsIncreasing
  BY <1>1 DEF Init, IdsIncreasing
<1> QED BY <1>2, <1>3

\* Every step keeps the types and the order of ids.
LEMMA StepOrdered ==
  ASSUME TypeOK, IdsIncreasing, [Next]_vars
  PROVE  TypeOK' /\ IdsIncreasing'
<1> USE DEF Phases
<1>1. ASSUME NEW v \in Vaults, Announce(v),
             disk' \in {disk, SaveRow(disk, NewEvent(v))}, unsaved' \in {unsaved, Unsaved}
      PROVE  TypeOK' /\ IdsIncreasing'
  <2>1. /\ events' \in Seq(Event) /\ Len(events') <= MaxEvents
        /\ Increasing(events')
        /\ Range(events') \subseteq Range(events) \cup {NewEvent(v)}
        /\ disk' \in Seq(Event) /\ Increasing(disk')
        /\ Range(disk') \subseteq Range(disk) \cup {NewEvent(v)}
        /\ NewEvent(v).id = nextId
    BY <1>1, AnnounceFacts DEF TypeOK, IdsIncreasing
  <2>2. nextId \in Nat \ {0} /\ nextId' = nextId + 1
    BY <1>1 DEF Announce, TypeOK
  <2>3. phase' \in [Clients -> Phases]
        /\ \A c \in Clients : phase'[c] = "yield" <=> phase[c] = "yield"
    BY <1>1 DEF Announce, Notified, TypeOK
  <2>6. forgotten' = forgotten /\ unsaved' \in Nat /\ unsaved <= unsaved'
    BY <1>1, <2>2 DEF Announce, Unsaved, TypeOK
  <2>4. TypeOK'
    BY <1>1, <2>1, <2>2, <2>3, <2>6 DEF Announce, TypeOK
  <2>5. IdsIncreasing'
    <3>1. \A d \in Range(events') \cup Range(disk') : d.id = nextId \/ d.id < nextId
      BY <2>1 DEF IdsIncreasing
    <3>2. \A d \in Range(events') \cup Range(disk') : d.id \in Nat
      <4>1. \A d \in Range(events') \cup Range(disk') : d \in Event
        BY <2>1, LenProperties DEF Range
      <4> QED BY <4>1 DEF Event
    <3> QED BY <2>1, <2>2, <3>1, <3>2 DEF IdsIncreasing
  <2> QED BY <2>4, <2>5
<1>2. ASSUME Restart PROVE TypeOK' /\ IdsIncreasing'
  <2>1. LoadRows(disk) = disk /\ disk \in Seq(Event) /\ Increasing(disk)
    BY LoadOrderedRows DEF TypeOK, IdsIncreasing
  <2>2. /\ events' \in Seq(Event) /\ Len(events') <= MaxEvents
        /\ Increasing(events') /\ Range(events') \subseteq Range(disk)
    BY <1>2, <2>1, KeepIsATail DEF Restart
  <2>3. nextId' \in Nat \ {0} /\ \A d \in Range(disk) : d.id < nextId'
    BY <1>2, <2>1, NextIdIsAbove DEF Restart
  <2>4. <<>> \in Seq(Event)
    BY EmptySeq
  <2>5. TypeOK'
    BY <1>2, <2>2, <2>3, <2>4 DEF Restart, TypeOK
  <2>6. IdsIncreasing'
    BY <1>2, <2>1, <2>2, <2>3 DEF Restart, IdsIncreasing
  <2> QED BY <2>5, <2>6
<1>3. ASSUME NEW c \in Clients, Stream(c) \/ Browser(c)
      PROVE  TypeOK'
  <2>1. CASE Open(c)
    <3>1. ResumeAt(c) \in Nat
      BY ConstantsAssumption DEF ResumeAt, TypeOK
    <3> QED BY <2>1, <3>1 DEF Open, Goto, TypeOK, busVars, browserVars
  <2>2. CASE Drop(c)
    <3>1. <<>> \in Seq(Event)
      BY EmptySeq
    <3> QED BY <2>2, <3>1 DEF Drop, Goto, TypeOK, busVars, browserVars
  <2>3. CASE Scan(c)
    <3>1. Replay(Follows[c], cursor[c]) \in Seq(Event)
      BY ReplayLists DEF TypeOK
    <3>2. pending' = [pending EXCEPT ![c] = Replay(Follows[c], cursor[c])]
          /\ phase' = [phase EXCEPT ![c] =
                         IF pending'[c] = <<>> THEN "idle" ELSE "yield"]
          /\ UNCHANGED <<events, nextId, disk, unsaved, forgotten, calls, cursor, wire, lastId, seen, restarts>>
      BY <2>3 DEF Scan, Goto, busVars, browserVars
    <3> QED BY <3>1, <3>2 DEF TypeOK
  <2>4. CASE Yield(c)
    <3> DEFINE e == Head(pending[c])
    <3>1. pending[c] \in Seq(Event) /\ pending[c] # <<>>
      BY <2>4 DEF Yield, TypeOK
    <3>2. e \in Event /\ Tail(pending[c]) \in Seq(Event)
          /\ (Tail(pending[c]) = <<>> <=> Len(pending[c]) = 1)
      <4>1. /\ e \in Event /\ Tail(pending[c]) \in Seq(Event)
            /\ Len(Tail(pending[c])) = Len(pending[c]) - 1
        BY <3>1, HeadTailProperties
      <4>2. Len(pending[c]) \in Nat
        BY <3>1, LenProperties
      <4>3. Tail(pending[c]) = <<>> <=> Len(Tail(pending[c])) = 0
        BY <4>1, EmptySeq
      <4> HIDE DEF e
      <4> QED BY <4>1, <4>2, <4>3
    <3>3. e.id \in Nat
      BY <3>2 DEF Event
    <3>4. Append(wire[c], e) \in Seq(Event)
      BY <3>2, AppendProperties DEF TypeOK
    <3> HIDE DEF e
    <3> QED BY <2>4, <3>2, <3>3, <3>4 DEF Yield, Goto, TypeOK, busVars, browserVars, e
  <2>5. CASE Sleep(c)
    BY <2>5 DEF Sleep, Goto, TypeOK, busVars, browserVars
  <2>6. CASE WaitTimesOut(c)
    BY <2>6 DEF WaitTimesOut, Goto, TypeOK, busVars, browserVars
  <2>7. CASE LoopAgain(c)
    BY <2>7 DEF LoopAgain, Goto, TypeOK, busVars, browserVars
  <2>8. CASE Receive(c)
    <3>1. wire[c] \in Seq(Event) /\ wire[c] # <<>>
      BY <2>8 DEF Receive, TypeOK
    <3>2. Head(wire[c]) \in Event /\ Tail(wire[c]) \in Seq(Event)
      BY <3>1, HeadTailProperties
    <3>3. Head(wire[c]).id \in Nat
      BY <3>2 DEF Event
    <3> QED BY <2>8, <3>2, <3>3 DEF Receive, TypeOK, busVars
  <2>9. CASE Poll(c)
    <3> DEFINE answer == Replay(Follows[c], lastId[c])
    <3>1. answer \in Seq(Event)
      BY ReplayLists DEF TypeOK
    <3>2. answer # <<>> /\ lastId' = [lastId EXCEPT ![c] = answer[Len(answer)].id]
          /\ seen' = [seen EXCEPT ![c] = @ \cup Range(answer)]
          /\ UNCHANGED <<events, nextId, disk, unsaved, forgotten, calls, phase, cursor, pending, wire, restarts>>
      BY <2>9 DEF Poll, busVars, streamVars
    <3> HIDE DEF answer
    <3>3. answer[Len(answer)] \in Event
      BY <3>1, <3>2, LenProperties, EmptySeq
    <3>4. answer[Len(answer)].id \in Nat
      BY <3>3 DEF Event
    <3>5. Range(answer) \subseteq Event
      BY <3>1, LenProperties DEF Range
    <3> QED BY <3>2, <3>4, <3>5 DEF TypeOK
  <2> QED BY <1>3, <2>1, <2>2, <2>3, <2>4, <2>5, <2>6, <2>7, <2>8, <2>9
          DEF Stream, Browser
<1>4. ASSUME NEW c \in Clients, Stream(c) \/ Browser(c)
      PROVE  UNCHANGED <<events, nextId, disk>>
  BY <1>4 DEF Stream, Browser, Open, Drop, Scan, Yield, Sleep, WaitTimesOut,
              LoopAgain, Receive, Poll, busVars
<1>5. ASSUME UNCHANGED <<events, nextId, disk>> PROVE IdsIncreasing'
  BY <1>5 DEF IdsIncreasing
<1>6. ASSUME NEW v \in Vaults, Publish(v) \/ PublishRaises(v)
      PROVE  /\ Announce(v) /\ disk' \in {disk, SaveRow(disk, NewEvent(v))}
             /\ unsaved' \in {unsaved, Unsaved}
  BY <1>6 DEF Publish, PublishRaises
<1>7. ASSUME UNCHANGED vars PROVE TypeOK' /\ IdsIncreasing'
  BY <1>7 DEF vars, TypeOK, IdsIncreasing
<1> QED BY <1>1, <1>2, <1>3, <1>4, <1>5, <1>6, <1>7 DEF Next, Bus

\* Whatever publishes, failed saves, restarts and clients do, the state has
\* its shape and the deque never outgrows MaxEvents.
THEOREM TypeCorrect == Spec => []TypeOK
<1>1. Init => TypeOK /\ IdsIncreasing
  BY InitOrdered
<1>2. TypeOK /\ IdsIncreasing /\ [Next]_vars => TypeOK' /\ IdsIncreasing'
  BY StepOrdered
<1> QED BY <1>1, <1>2, PTL DEF Spec

\* Event ids grow along the deque and the rows and stay below the next id,
\* across any mix of failed saves and restarts.
THEOREM IdsAlwaysIncrease == Spec => []IdsIncreasing
<1>1. Init => TypeOK /\ IdsIncreasing
  BY InitOrdered
<1>2. TypeOK /\ IdsIncreasing /\ [Next]_vars => TypeOK' /\ IdsIncreasing'
  BY StepOrdered
<1> QED BY <1>1, <1>2, PTL DEF Spec

-----------------------------------------------------------------------------
\* No retained event is skipped.

\* Every event the state holds has a natural id.
LEMMA HeldEvents ==
  ASSUME TypeOK
  PROVE  /\ \A e \in Range(events) \cup Range(disk) : e \in Event /\ e.id \in Nat
         /\ \A c \in Clients : \A e \in Range(pending[c]) \cup Range(wire[c]) :
              e \in Event /\ e.id \in Nat
         /\ \A c \in Clients : FirstCursor(c) \in Nat /\ cursor[c] \in Nat /\ lastId[c] \in Nat
<1>1. \A s \in Seq(Event) : \A e \in Range(s) : e \in Event /\ e.id \in Nat
  <2> SUFFICES ASSUME NEW s \in Seq(Event), NEW e \in Range(s)
               PROVE  e \in Event /\ e.id \in Nat
    OBVIOUS
  <2>1. e \in Event
    BY LenProperties DEF Range
  <2> QED BY <2>1 DEF Event
<1>2. \A c \in Clients : FirstCursor(c) \in Nat
  BY ConstantsAssumption DEF FirstCursor
<1> QED BY <1>1, <1>2 DEF TypeOK

\* Publishing on top of a mirrored deque leaves it mirrored.
LEMMA KeepAppend ==
  ASSUME NEW s \in Seq(Event), NEW e \in Event
  PROVE  Keep(Append(Keep(s), e)) = Keep(Append(s, e))
<1> DEFINE M == MaxEvents
           t == Append(s, e)
<1>1. M \in Nat \ {0} /\ Len(s) \in Nat
  BY ConstantsAssumption, LenProperties
<1>2. /\ t \in Seq(Event) /\ Len(t) = Len(s) + 1
      /\ \A i \in 1..Len(s) : t[i] = s[i]
      /\ t[Len(s) + 1] = e
  BY AppendProperties
<1>3. CASE Len(s) <= M
  <2>1. Keep(s) = s
    BY <1>1, <1>3 DEF Keep
  <2> QED BY <2>1
<1>4. CASE Len(s) > M
  <2> DEFINE d == Len(s) - M
             u == SubSeq(s, d + 1, Len(s))
             w == Append(u, e)
  <2>1. Keep(s) = u
    BY <1>1, <1>4 DEF Keep
  <2>2. d \in Nat /\ d + M = Len(s) /\ d + 1 <= Len(s)
    BY <1>1, <1>4
  <2>3. /\ u \in Seq(Event) /\ Len(u) = M
        /\ \A i \in 1..M : u[i] = s[d + i]
    BY <2>2, <1>1
  <2> HIDE DEF u, d, t
  <2>4. /\ w \in Seq(Event) /\ Len(w) = M + 1
        /\ \A i \in 1..M : w[i] = u[i]
        /\ w[M + 1] = e
    BY <2>3, AppendProperties
  <2> HIDE DEF w
  <2>5. Keep(w) = SubSeq(w, 2, M + 1)
    BY <2>4, <1>1 DEF Keep
  <2>6. Keep(t) = SubSeq(t, d + 2, Len(s) + 1)
    BY <1>1, <1>2, <1>4, <2>2 DEF Keep
  <2>7. \A i \in 1..(M + 1) : w[i] = t[d + i]
    <3> TAKE i \in 1..(M + 1)
    <3>1. CASE i \in 1..M
      <4>1. d + i \in 1..Len(s)
        BY <3>1, <1>1, <2>2
      <4> QED BY <3>1, <4>1, <1>2, <2>3, <2>4
    <3>2. CASE i = M + 1
      <4>1. d + i = Len(s) + 1
        BY <3>2, <1>1, <2>2
      <4> QED BY <3>2, <4>1, <1>2, <2>4
    <3> QED BY <1>1, <3>1, <3>2
  <2>8. /\ SubSeq(w, 2, M + 1) \in Seq(Event) /\ Len(SubSeq(w, 2, M + 1)) = M
        /\ \A i \in 1..M : SubSeq(w, 2, M + 1)[i] = w[i + 1]
    <3>1. \A i \in 2..(M + 1) : w[i] \in Event
      BY <2>4, <1>1, LenProperties
    <3> QED BY <3>1, <2>4, <1>1
  <2>9. /\ SubSeq(t, d + 2, Len(s) + 1) \in Seq(Event)
        /\ Len(SubSeq(t, d + 2, Len(s) + 1)) = M
        /\ \A i \in 1..M : SubSeq(t, d + 2, Len(s) + 1)[i] = t[d + i + 1]
    <3>1. \A i \in (d + 2)..(Len(s) + 1) : t[i] \in Event
      BY <1>2, <1>1, <2>2, LenProperties
    <3> QED BY <3>1, <1>1, <1>2, <2>2
  <2>10. \A i \in 1..M : w[i + 1] = t[d + i + 1]
    BY <2>7, <2>2, <1>1
  <2> QED BY <2>1, <2>5, <2>6, <2>8, <2>9, <2>10, SeqEqual DEF w, t
<1> QED BY <1>1, <1>3, <1>4

\* What Keep keeps, counted from the end.
LEMMA KeptFromTheEnd ==
  ASSUME NEW s \in Seq(Event)
  PROVE  \A k \in 0..(MaxEvents - 1) : k < Len(s) =>
           k < Len(Keep(s)) /\ Keep(s)[Len(Keep(s)) - k] = s[Len(s) - k]
<1> SUFFICES ASSUME NEW k \in 0..(MaxEvents - 1), k < Len(s)
             PROVE  k < Len(Keep(s)) /\ Keep(s)[Len(Keep(s)) - k] = s[Len(s) - k]
  OBVIOUS
<1> DEFINE M == MaxEvents
<1>1. M \in Nat \ {0} /\ Len(s) \in Nat
  BY ConstantsAssumption, LenProperties
<1>2. CASE Len(s) <= M
  BY <1>1, <1>2 DEF Keep
<1>3. CASE Len(s) > M
  <2> DEFINE d == Len(s) - M
             u == SubSeq(s, d + 1, Len(s))
  <2>1. Keep(s) = u
    BY <1>3 DEF Keep
  <2>2. d \in Nat /\ d + M = Len(s) /\ d + 1 <= Len(s)
    BY <1>1, <1>3
  <2>3. Len(u) = M /\ \A i \in 1..M : u[i] = s[d + i]
    BY <2>2, <1>1
  <2> HIDE DEF u
  <2>4. M - k \in 1..M /\ d + (M - k) = Len(s) - k
    BY <1>1, <2>2
  <2> QED BY <1>1, <2>1, <2>3, <2>4
<1> QED BY <1>1, <1>2, <1>3

\* An event that goes into the deque and the rows leaves the rows the newest events.
LEMMA RowsStayNewest ==
  ASSUME TypeOK, RowsAreNewest, NEW n \in Event, n.id = nextId, nextId' = nextId + 1,
         events' = Keep(Append(events, n)), disk' = Append(disk, n), unsaved' = unsaved,
         Increasing(disk')
  PROVE  RowsAreNewest'
<1>1. /\ events \in Seq(Event) /\ disk \in Seq(Event) /\ MaxEvents \in Nat \ {0}
      /\ Len(events) \in Nat /\ Len(disk) \in Nat
  BY ConstantsAssumption, LenProperties DEF TypeOK
<1>2. /\ disk' \in Seq(Event) /\ Len(disk') = Len(disk) + 1 /\ disk'[Len(disk) + 1] = n
      /\ \A i \in 1..Len(disk) : disk'[i] = disk[i]
  BY <1>1, AppendProperties
<1> DEFINE t == Append(events, n)
<1>3. /\ t \in Seq(Event) /\ Len(t) = Len(events) + 1 /\ t[Len(events) + 1] = n
      /\ \A i \in 1..Len(events) : t[i] = events[i]
  BY <1>1, AppendProperties
<1> HIDE DEF t
<1>4. \A k \in 0..(MaxEvents - 1) : k < Len(t) =>
        k < Len(events') /\ events'[Len(events') - k] = t[Len(t) - k]
  BY <1>3, KeptFromTheEnd DEF t
<1>5. nextId' = NextIdAfter(disk')
  <2>1. disk' # <<>>
    BY <1>1, <1>2, EmptySeq
  <2> QED BY <1>2, <2>1, NextIdIsAbove
<1>6. ASSUME NEW k \in 0..(MaxEvents - 1), k < Len(disk'), disk'[Len(disk') - k].id > unsaved'
      PROVE  k < Len(events') /\ events'[Len(events') - k] = disk'[Len(disk') - k]
  <2>1. CASE k = 0
    <3>1. k < Len(t) /\ t[Len(t) - k] = n
      BY <1>1, <1>3, <2>1
    <3>2. disk'[Len(disk') - k] = n
      BY <1>1, <1>2, <2>1
    <3> QED BY <1>4, <3>1, <3>2
  <2>2. CASE k # 0
    <3>1. k - 1 \in 0..(MaxEvents - 1) /\ k - 1 < Len(disk)
      BY <1>1, <1>2, <1>6, <2>2
    <3>2. /\ Len(disk') - k \in 1..Len(disk)
          /\ Len(disk') - k = Len(disk) - (k - 1)
      BY <1>1, <1>2, <3>1
    <3>3. disk'[Len(disk') - k] = disk[Len(disk) - (k - 1)]
      BY <1>2, <3>2
    <3>4. k - 1 < Len(events) /\ events[Len(events) - (k - 1)] = disk[Len(disk) - (k - 1)]
      BY <1>6, <3>1, <3>3 DEF RowsAreNewest
    <3>5. /\ k < Len(t) /\ Len(t) - k \in 1..Len(events)
          /\ Len(t) - k = Len(events) - (k - 1)
      BY <1>1, <1>3, <3>1, <3>4
    <3>6. t[Len(t) - k] = disk'[Len(disk') - k]
      BY <1>3, <3>3, <3>4, <3>5
    <3> QED BY <1>4, <3>5, <3>6
  <2> QED BY <2>1, <2>2
<1> QED BY <1>5, <1>6 DEF RowsAreNewest

\* A publish adds one event above everything in flight.
LEMMA PublishLosesNothing ==
  ASSUME TypeOK, IdsIncreasing, NothingLost, NEW v \in Vaults,
         Publish(v) \/ PublishRaises(v)
  PROVE  NothingLost'
<1> DEFINE n == NewEvent(v)
<1>1. Announce(v)
  BY DEF Publish, PublishRaises
<1>2. /\ n \in Event /\ n.id = nextId
      /\ Range(events') \subseteq Range(events) \cup {n}
      /\ SaveRow(disk, n) = Append(disk, n)
      /\ SaveRow(disk, n) \in Seq(Event)
      /\ Increasing(SaveRow(disk, n))
  BY <1>1, AnnounceFacts
<1>3. /\ nextId' = nextId + 1 /\ nextId \in Nat
      /\ UNCHANGED <<cursor, pending, wire, lastId, seen, forgotten>>
      /\ events' = Keep(Append(events, n))
  BY <1>1 DEF Announce, TypeOK
<1>4. \A c \in Clients : phase'[c] # "closed" => phase[c] # "closed"
  BY <1>1 DEF Announce, Notified, TypeOK, Phases
<1> HIDE DEF n
<1>5. InFlightBelowNextId'
  BY <1>3, HeldEvents DEF InFlightBelowNextId, GivenOut, NothingLost, FirstCursor, TypeOK
<1>6. StreamsInOrder'
  BY <1>1, <1>3 DEF Announce, Notified, StreamsInOrder, NothingLost, Increasing
<1>7. SentIsHeardOrOnWire'
  <2> SUFFICES ASSUME NEW c \in Clients, phase'[c] # "closed",
                      NEW e \in Range(events'), e.id > forgotten, e.vault = Follows[c],
                      FirstCursor(c) < e.id, e.id <= cursor[c]
               PROVE  e \in seen[c] \cup Range(wire[c])
    BY <1>3 DEF SentIsHeardOrOnWire, FirstCursor
  <2>1. cursor[c] < nextId \/ cursor[c] <= forgotten \/ cursor[c] = FirstCursor(c)
    BY DEF NothingLost, InFlightBelowNextId, GivenOut
  <2>2. cursor[c] \in Nat /\ FirstCursor(c) \in Nat /\ forgotten \in Nat
    BY HeldEvents DEF TypeOK
  <2>3. e # n
    BY <1>2, <1>3, <2>1, <2>2
  <2>4. e \in Range(events)
    BY <1>2, <2>3
  <2> QED BY <1>4, <2>4 DEF NothingLost, SentIsHeardOrOnWire
<1>8. PendingIsComplete'
  <2> SUFFICES ASSUME NEW c \in Clients, NEW q \in Range(pending[c]),
                      NEW e \in Range(events'), e.vault = Follows[c],
                      cursor[c] < e.id, e.id <= q.id
               PROVE  e \in Range(pending[c])
    BY <1>3 DEF PendingIsComplete
  <2>1. q.id < nextId /\ q.id \in Nat
    BY HeldEvents DEF NothingLost, InFlightBelowNextId
  <2>2. e # n
    BY <1>2, <1>3, <2>1
  <2>3. e \in Range(events)
    BY <1>2, <2>2
  <2> QED BY <2>3 DEF NothingLost, PendingIsComplete
<1>9. DequeMirrorsRows'
  <2> SUFFICES ASSUME Persistent, ~SaveCanFail
               PROVE  events' = Keep(disk') /\ nextId' = NextIdAfter(disk') /\ unsaved' = 0
    BY DEF DequeMirrorsRows
  <2>1. disk' = Append(disk, n) /\ unsaved' = unsaved
    BY <1>2 DEF Publish, PublishRaises, n
  <2>2. disk \in Seq(Event) /\ events = Keep(disk) /\ unsaved = 0
    BY DEF TypeOK, NothingLost, DequeMirrorsRows
  <2>3. events' = Keep(disk')
    BY <1>2, <1>3, <2>1, <2>2, KeepAppend
  <2>4. /\ disk' \in Seq(Event) /\ disk' # <<>> /\ Increasing(disk')
        /\ disk'[Len(disk')] = n
    BY <1>2, <2>1, <2>2, AppendProperties
  <2>5. NextIdAfter(disk') = n.id + 1
    BY <2>4, NextIdIsAbove
  <2> QED BY <1>2, <1>3, <2>1, <2>2, <2>3, <2>5
<1>10. NoRetainedEventSkipped'
  <2> SUFFICES ASSUME NEW c \in Clients, NEW e \in Range(events'), e.id > forgotten,
                      e.vault = Follows[c], FirstCursor(c) < e.id, e.id <= lastId[c]
               PROVE  e \in seen[c]
    BY <1>3 DEF NoRetainedEventSkipped, FirstCursor
  <2>1. /\ lastId[c] < nextId \/ lastId[c] <= forgotten
        /\ lastId[c] \in Nat /\ forgotten \in Nat
    BY HeldEvents DEF NothingLost, InFlightBelowNextId, GivenOut, TypeOK
  <2>2. e # n
    BY <1>2, <1>3, <2>1
  <2>3. e \in Range(events)
    BY <1>2, <2>2
  <2> QED BY <2>3 DEF NothingLost, NoRetainedEventSkipped
<1>11. RowsAreNewest'
  <2>1. CASE Persistent /\ Publish(v)
    <3>1. disk' = Append(disk, n) /\ unsaved' = unsaved
      BY <1>2, <2>1 DEF Publish, n
    <3> QED BY <1>2, <1>3, <3>1, RowsStayNewest DEF NothingLost, IdsIncreasing
  <2>2. CASE ~(Persistent /\ Publish(v))
    <3>1. /\ disk' = disk /\ unsaved' = Unsaved
      BY <2>2 DEF Publish, PublishRaises
    <3>2. unsaved' \in Nat /\ nextId <= unsaved'
      BY <1>3, <3>1 DEF Unsaved, TypeOK
    <3>3. \A k \in 0..(MaxEvents - 1) : k < Len(disk) => disk[Len(disk) - k] \in Range(disk)
      <4>1. Len(disk) \in Nat /\ DOMAIN disk = 1..Len(disk)
        BY LenProperties DEF TypeOK
      <4> QED BY <4>1, ConstantsAssumption DEF Range
    <3>4. \A k \in 0..(MaxEvents - 1) : k < Len(disk) => ~(disk[Len(disk) - k].id > unsaved')
      BY <1>3, <3>2, <3>3, HeldEvents DEF IdsIncreasing
    <3> QED BY <1>3, <3>1, <3>2, <3>4 DEF RowsAreNewest
  <2> QED BY <2>1, <2>2
<1> QED BY <1>5, <1>6, <1>7, <1>8, <1>9, <1>10, <1>11 DEF NothingLost

\* A restart rebuilds the deque and the next id from the rows: past the events
\* it forgets, nothing is in the deque that was not there before.
LEMMA RestartLosesNothing ==
  ASSUME TypeOK, IdsIncreasing, NothingLost, Restart
  PROVE  NothingLost'
<1>1. LoadRows(disk) = disk /\ disk \in Seq(Event) /\ Increasing(disk)
  BY LoadOrderedRows DEF TypeOK, IdsIncreasing
<1>2. /\ events' = Keep(disk) /\ nextId' = NextIdAfter(disk) /\ disk' = disk
      /\ unsaved' = unsaved /\ forgotten' = unsaved
  BY <1>1 DEF Restart
<1>3. /\ \A c \in Clients : /\ phase'[c] = "closed" /\ cursor'[c] = 0
                            /\ pending'[c] = <<>> /\ wire'[c] = <<>>
      /\ lastId' = lastId /\ seen' = seen
  BY DEF Restart
<1>4. Range(<<>>) = {} /\ Increasing(<<>>)
  BY DEF Range, Increasing
<1>5. /\ nextId \in Nat \ {0} /\ nextId' \in Nat \ {0}
      /\ unsaved \in Nat /\ forgotten \in Nat /\ forgotten <= unsaved
  BY <1>1, <1>2, NextIdIsAbove DEF TypeOK
<1>6. InFlightBelowNextId'
  <2>1. \A c \in Clients : lastId[c] \in Nat /\ (lastId[c] < nextId \/ lastId[c] <= forgotten)
    BY HeldEvents DEF NothingLost, InFlightBelowNextId, GivenOut
  <2>2. nextId = nextId' \/ nextId <= unsaved + 1
    BY <1>2 DEF NothingLost, RowsAreNewest
  <2>3. \A c \in Clients : lastId[c] < nextId' \/ lastId[c] <= unsaved
    BY <1>5, <2>1, <2>2
  <2> QED BY <1>2, <1>3, <1>4, <1>5, <2>3 DEF InFlightBelowNextId, GivenOut
<1>7. StreamsInOrder'
  BY <1>3, <1>4 DEF StreamsInOrder
<1>8. SentIsHeardOrOnWire'
  BY <1>3 DEF SentIsHeardOrOnWire
<1>9. PendingIsComplete'
  BY <1>3, <1>4 DEF PendingIsComplete
<1>10. DequeMirrorsRows'
  BY <1>2 DEF NothingLost, DequeMirrorsRows
<1>11. RowsAreNewest'
  BY <1>1, <1>2, KeptFromTheEnd DEF RowsAreNewest
<1>12. \A e \in Range(events') : e.id > unsaved => e \in Range(events)
  <2> SUFFICES ASSUME NEW e \in Range(events'), e.id > unsaved PROVE e \in Range(events)
    OBVIOUS
  <2> DEFINE E == Len(events')
  <2>1. /\ events' \in Seq(Event) /\ E <= MaxEvents /\ E \in Nat /\ DOMAIN events' = 1..E
        /\ MaxEvents \in Nat
    BY <1>1, <1>2, KeepIsATail, LenProperties, ConstantsAssumption
  <2>2. PICK i \in 1..E : e = events'[i]
    BY <2>1 DEF Range
  <2> DEFINE k == E - i
  <2>3. k \in 0..(MaxEvents - 1) /\ E - k = i
    BY <2>1
  <2>4. k < Len(disk)
    <3>1. Len(disk) \in Nat /\ (Len(disk) <= MaxEvents => events' = disk)
      BY <1>1, <1>2, LenProperties, ConstantsAssumption DEF Keep
    <3> QED BY <2>1, <2>3, <3>1
  <2> HIDE DEF k
  <2>5. e = disk[Len(disk) - k]
    <3>1. k < E /\ events'[E - k] = disk[Len(disk) - k]
      BY <1>1, <1>2, <2>3, <2>4, KeptFromTheEnd
    <3> QED BY <2>2, <2>3, <3>1
  <2>6. k < Len(events) /\ events[Len(events) - k] = e
    BY <2>3, <2>4, <2>5 DEF NothingLost, RowsAreNewest
  <2>7. Len(events) \in Nat /\ DOMAIN events = 1..Len(events)
    BY LenProperties DEF TypeOK
  <2>8. Len(events) - k \in DOMAIN events
    BY <2>3, <2>6, <2>7
  <2> QED BY <2>6, <2>8 DEF Range
<1>13. NoRetainedEventSkipped'
  <2> SUFFICES ASSUME NEW c \in Clients, NEW e \in Range(events'), e.id > unsaved,
                      e.vault = Follows[c], FirstCursor(c) < e.id, e.id <= lastId[c]
               PROVE  e \in seen[c]
    BY <1>2, <1>3 DEF NoRetainedEventSkipped, FirstCursor
  <2>1. e \in Range(events)
    BY <1>12
  <2>2. e.id > forgotten
    BY <1>5, <2>1, HeldEvents
  <2> QED BY <2>1, <2>2 DEF NothingLost, NoRetainedEventSkipped
<1> QED BY <1>6, <1>7, <1>8, <1>9, <1>10, <1>11, <1>13 DEF NothingLost

\* What a client's step can disturb is that client's own part.
LEMMA OtherClients ==
  ASSUME TypeOK, NothingLost, NEW c \in Clients,
         UNCHANGED <<events, nextId, disk, unsaved, forgotten>>,
         \A d \in Clients \ {c} :
           /\ phase'[d] = phase[d] /\ cursor'[d] = cursor[d]
           /\ pending'[d] = pending[d] /\ wire'[d] = wire[d]
           /\ lastId'[d] = lastId[d] /\ seen'[d] = seen[d],
         GivenOut(lastId'[c]),
         GivenOut(cursor'[c]) \/ cursor'[c] = FirstCursor(c),
         \A e \in Range(pending'[c]) \cup Range(wire'[c]) : e.id < nextId,
         phase'[c] = "closed" => wire'[c] = <<>>,
         Increasing(wire'[c]), \A e \in Range(wire'[c]) : e.id <= cursor'[c],
         Increasing(pending'[c]), \A e \in Range(pending'[c]) : e.id > cursor'[c],
         phase'[c] # "closed" =>
           \A e \in Range(events) :
             (e.id > forgotten /\ e.vault = Follows[c] /\ FirstCursor(c) < e.id /\ e.id <= cursor'[c])
               => e \in seen'[c] \cup Range(wire'[c]),
         \A p \in Range(pending'[c]) : \A e \in Range(events) :
           (e.vault = Follows[c] /\ cursor'[c] < e.id /\ e.id <= p.id)
             => e \in Range(pending'[c]),
         \A e \in Range(events) :
           (e.id > forgotten /\ e.vault = Follows[c] /\ FirstCursor(c) < e.id /\ e.id <= lastId'[c])
             => e \in seen'[c]
  PROVE  NothingLost'
<1>1. InFlightBelowNextId'
  BY DEF NothingLost, InFlightBelowNextId, GivenOut, FirstCursor
<1>2. StreamsInOrder'
  BY DEF NothingLost, StreamsInOrder, Increasing
<1>3. SentIsHeardOrOnWire'
  BY DEF NothingLost, SentIsHeardOrOnWire, FirstCursor
<1>4. PendingIsComplete'
  BY DEF NothingLost, PendingIsComplete
<1>5. DequeMirrorsRows'
  BY DEF NothingLost, DequeMirrorsRows
<1>6. NoRetainedEventSkipped'
  BY DEF NothingLost, NoRetainedEventSkipped, FirstCursor
<1>7. RowsAreNewest'
  BY DEF NothingLost, RowsAreNewest
<1> QED BY <1>1, <1>2, <1>3, <1>4, <1>5, <1>6, <1>7 DEF NothingLost

\* The head of an ascending list is its least; its tail holds the rest.
LEMMA HeadIsLeast ==
  ASSUME NEW s \in Seq(Event), s # <<>>, Increasing(s)
  PROVE  /\ Head(s) \in Range(s) /\ Head(s) \in Event
         /\ Tail(s) \in Seq(Event) /\ Increasing(Tail(s))
         /\ Range(s) = {Head(s)} \cup Range(Tail(s))
         /\ \A e \in Range(Tail(s)) : Head(s).id < e.id
<1> DEFINE h == Head(s)
           t == Tail(s)
<1>1. /\ Len(s) \in Nat \ {0} /\ DOMAIN s = 1..Len(s)
      /\ h \in Event /\ h = s[1]
      /\ t \in Seq(Event) /\ Len(t) = Len(s) - 1
      /\ \A i \in 1..Len(t) : t[i] = s[i + 1]
  BY HeadTailProperties, LenProperties, EmptySeq
<1>2. DOMAIN t = 1..Len(t) /\ Len(t) \in Nat
  BY <1>1, LenProperties
<1> HIDE DEF h, t
<1>3. \A i \in DOMAIN t : i + 1 \in DOMAIN s /\ 1 \in DOMAIN s /\ 1 < i + 1
  BY <1>1, <1>2
<1>4. \A e \in Range(t) : e \in Range(s) /\ h.id < e.id
  BY <1>1, <1>2, <1>3 DEF Range, Increasing
<1>5. \A i, j \in DOMAIN t : i < j => i + 1 < j + 1
  BY <1>2
<1>6. Increasing(t)
  BY <1>1, <1>2, <1>3, <1>5 DEF Increasing
<1>7. h \in Range(s)
  BY <1>1 DEF Range
<1>8. \A e \in Range(s) : e = h \/ e \in Range(t)
  <2> SUFFICES ASSUME NEW i \in 1..Len(s), i # 1
               PROVE  s[i] \in Range(t)
    BY <1>1 DEF Range
  <2>1. i - 1 \in 1..Len(t) /\ (i - 1) + 1 = i
    BY <1>1
  <2> QED BY <2>1, <1>1, <1>2 DEF Range
<1> QED BY <1>1, <1>4, <1>6, <1>7, <1>8 DEF h, t

\* A (re)connecting stream starts where its client's last event, or its URL,
\* says: nothing retained lies between the two.
LEMMA OpenLosesNothing ==
  ASSUME TypeOK, NothingLost, NEW c \in Clients, Open(c)
  PROVE  NothingLost'
<1>1. /\ cursor'[c] = ResumeAt(c) /\ phase'[c] = "scan"
      /\ UNCHANGED <<events, nextId, disk, unsaved, forgotten, pending, wire, lastId, seen>>
      /\ \A d \in Clients \ {c} : phase'[d] = phase[d] /\ cursor'[d] = cursor[d]
  BY DEF Open, Goto, TypeOK, busVars, browserVars
<1>2. (ResumeAt(c) = lastId[c] /\ FirstCursor(c) = 0) \/ ResumeAt(c) = FirstCursor(c)
  BY DEF ResumeAt, FirstCursor
<1>3. Range(wire[c]) = {} /\ Range(pending[c]) = {}
  <2>1. wire[c] = <<>> /\ pending[c] = <<>>
    BY DEF Open, TypeOK, NothingLost, StreamsInOrder
  <2> QED BY <2>1 DEF Range
<1>4. GivenOut(lastId[c])
  BY DEF NothingLost, InFlightBelowNextId
<1>5. \A e \in Range(events) :
        (e.id > forgotten /\ e.vault = Follows[c] /\ FirstCursor(c) < e.id /\ e.id <= cursor'[c])
          => e \in seen[c]
  BY <1>1, <1>2, HeldEvents DEF NothingLost, NoRetainedEventSkipped
<1> QED BY <1>1, <1>2, <1>3, <1>4, <1>5, OtherClients
        DEF NothingLost, StreamsInOrder, NoRetainedEventSkipped

\* A broken connection forgets the wire, not what the client heard or where it
\* resumes.
LEMMA DropLosesNothing ==
  ASSUME TypeOK, NothingLost, NEW c \in Clients, Drop(c)
  PROVE  NothingLost'
<1>1. /\ phase'[c] = "closed" /\ cursor'[c] = 0
      /\ pending'[c] = <<>> /\ wire'[c] = <<>>
      /\ UNCHANGED <<events, nextId, disk, unsaved, forgotten, lastId, seen>>
      /\ \A d \in Clients \ {c} : /\ phase'[d] = phase[d] /\ cursor'[d] = cursor[d]
                                /\ pending'[d] = pending[d] /\ wire'[d] = wire[d]
  BY DEF Drop, Goto, TypeOK, busVars, browserVars
<1>2. Range(<<>>) = {} /\ Increasing(<<>>)
  BY DEF Range, Increasing
<1>3. GivenOut(lastId[c]) /\ GivenOut(0)
  BY DEF NothingLost, InFlightBelowNextId, GivenOut, TypeOK
<1> QED BY <1>1, <1>2, <1>3, OtherClients DEF NothingLost, NoRetainedEventSkipped

\* replay() fills an empty pending list with everything retained past the
\* generator's cursor.
LEMMA ScanLosesNothing ==
  ASSUME TypeOK, IdsIncreasing, NothingLost, NEW c \in Clients, Scan(c)
  PROVE  NothingLost'
<1> DEFINE found == Replay(Follows[c], cursor[c])
<1>1. /\ pending'[c] = found /\ phase[c] = "scan" /\ phase'[c] # "closed"
      /\ UNCHANGED <<events, nextId, disk, unsaved, forgotten, cursor, wire, lastId, seen>>
      /\ \A d \in Clients \ {c} : phase'[d] = phase[d] /\ pending'[d] = pending[d]
  BY DEF Scan, Goto, TypeOK, busVars, browserVars
<1>2. /\ found \in Seq(Event) /\ Increasing(found)
      /\ Range(found) = {e \in Range(events) : e.vault = Follows[c] /\ e.id > cursor[c]}
  BY ReplayLists DEF TypeOK, IdsIncreasing
<1> HIDE DEF found
<1>3. \A e \in Range(found) : e.id < nextId /\ e.id > cursor[c]
  BY <1>2 DEF IdsIncreasing
<1>4. \A e \in Range(events) : (e.vault = Follows[c] /\ cursor[c] < e.id) => e \in Range(found)
  BY <1>2, HeldEvents
<1> QED BY <1>1, <1>2, <1>3, <1>4, OtherClients
        DEF NothingLost, InFlightBelowNextId, StreamsInOrder, SentIsHeardOrOnWire,
            NoRetainedEventSkipped

\* Yielding the head of the pending list moves the cursor over exactly that
\* event, which is now on the wire.
LEMMA YieldLosesNothing ==
  ASSUME TypeOK, NothingLost, NEW c \in Clients, Yield(c)
  PROVE  NothingLost'
<1> DEFINE h == Head(pending[c])
           t == Tail(pending[c])
<1>1. /\ cursor'[c] = h.id /\ wire'[c] = Append(wire[c], h) /\ pending'[c] = t
      /\ phase[c] = "yield" /\ phase'[c] # "closed"
      /\ UNCHANGED <<events, nextId, disk, unsaved, forgotten, lastId, seen>>
      /\ \A d \in Clients \ {c} : /\ phase'[d] = phase[d] /\ cursor'[d] = cursor[d]
                                /\ pending'[d] = pending[d] /\ wire'[d] = wire[d]
  BY DEF Yield, Goto, TypeOK, busVars, browserVars
<1>2. pending[c] \in Seq(Event) /\ pending[c] # <<>> /\ Increasing(pending[c])
  BY DEF Yield, TypeOK, NothingLost, StreamsInOrder
<1>3. /\ h \in Range(pending[c]) /\ h \in Event
      /\ t \in Seq(Event) /\ Increasing(t)
      /\ Range(pending[c]) = {h} \cup Range(t)
      /\ \A e \in Range(t) : h.id < e.id
  BY <1>2, HeadIsLeast
<1>4. h.id < nextId /\ cursor[c] < h.id
  BY <1>3 DEF NothingLost, InFlightBelowNextId, StreamsInOrder
<1>5. wire[c] \in Seq(Event) /\ Increasing(wire[c]) /\ \A e \in Range(wire[c]) : e.id <= cursor[c]
  BY DEF TypeOK, NothingLost, StreamsInOrder
<1> HIDE DEF h, t
<1>6. cursor[c] \in Nat /\ h.id \in Nat
      /\ (\A e \in Range(wire[c]) : e.id \in Nat) /\ \A e \in Range(t) : e.id \in Nat
  BY <1>3, HeldEvents DEF Event
<1>7. \A e \in Range(wire[c]) : e.id < h.id
  BY <1>4, <1>5, <1>6
<1>8. Range(wire'[c]) = Range(wire[c]) \cup {h} /\ Increasing(wire'[c])
  BY <1>1, <1>3, <1>5, <1>7, AppendNewest
<1>9. \A e \in Range(wire'[c]) : e.id <= h.id /\ e.id < nextId
  BY <1>4, <1>6, <1>7, <1>8 DEF NothingLost, InFlightBelowNextId
<1>10. \A e \in Range(t) : e.id > h.id /\ e.id < nextId
  BY <1>3, <1>6 DEF NothingLost, InFlightBelowNextId
<1>11. ASSUME NEW e \in Range(events), e.id > forgotten, e.vault = Follows[c],
              FirstCursor(c) < e.id, e.id <= h.id
       PROVE  e \in seen[c] \cup Range(wire'[c])
  <2>1. e.id \in Nat
    BY HeldEvents
  <2>2. CASE e.id <= cursor[c]
    BY <1>1, <1>8, <1>11, <2>2 DEF NothingLost, SentIsHeardOrOnWire
  <2>3. CASE cursor[c] < e.id
    <3>1. e \in Range(pending[c])
      BY <1>3, <1>11, <2>3 DEF NothingLost, PendingIsComplete
    <3>2. e \notin Range(t)
      BY <1>3, <1>6, <1>11, <2>1
    <3> QED BY <1>3, <1>8, <3>1, <3>2
  <2> QED BY <2>1, <2>2, <2>3, <1>6
<1>12. ASSUME NEW q \in Range(t), NEW e \in Range(events),
              e.vault = Follows[c], h.id < e.id, e.id <= q.id
       PROVE  e \in Range(t)
  <2>1. e.id \in Nat
    BY HeldEvents
  <2>2. cursor[c] < e.id /\ e # h
    BY <1>4, <1>6, <1>12, <2>1
  <2>3. e \in Range(pending[c])
    BY <1>3, <1>12, <2>2 DEF NothingLost, PendingIsComplete
  <2> QED BY <1>3, <2>2, <2>3
<1> QED BY <1>1, <1>3, <1>4, <1>8, <1>9, <1>10, <1>11, <1>12, OtherClients
        DEF NothingLost, InFlightBelowNextId, GivenOut, NoRetainedEventSkipped

\* The browser's last id moves over exactly the event it is handed, because
\* the wire is in order.
LEMMA ReceiveLosesNothing ==
  ASSUME TypeOK, NothingLost, NEW c \in Clients, Receive(c)
  PROVE  NothingLost'
<1> DEFINE h == Head(wire[c])
           t == Tail(wire[c])
<1>1. /\ lastId'[c] = h.id /\ seen'[c] = seen[c] \cup {h} /\ wire'[c] = t
      /\ UNCHANGED <<events, nextId, disk, unsaved, forgotten, phase, cursor, pending>>
      /\ \A d \in Clients \ {c} : /\ lastId'[d] = lastId[d] /\ seen'[d] = seen[d]
                                /\ wire'[d] = wire[d]
  BY DEF Receive, TypeOK, busVars
<1>2. wire[c] \in Seq(Event) /\ wire[c] # <<>> /\ Increasing(wire[c])
      /\ \A e \in Range(wire[c]) : e.id <= cursor[c]
  BY DEF Receive, TypeOK, NothingLost, StreamsInOrder
<1>3. /\ h \in Range(wire[c]) /\ h \in Event
      /\ t \in Seq(Event) /\ Increasing(t)
      /\ Range(wire[c]) = {h} \cup Range(t)
      /\ \A e \in Range(t) : h.id < e.id
  BY <1>2, HeadIsLeast
<1>4. phase[c] # "closed" /\ h.id < nextId /\ h.id <= cursor[c]
  BY <1>2, <1>3 DEF NothingLost, StreamsInOrder, InFlightBelowNextId
<1> HIDE DEF h, t
<1>5. h.id \in Nat /\ (\A e \in Range(t) : e.id \in Nat) /\ cursor[c] \in Nat
  BY <1>3, HeldEvents
<1>6. ASSUME NEW e \in Range(events), e.id > forgotten, e.vault = Follows[c],
             FirstCursor(c) < e.id, e.id <= cursor[c]
      PROVE  e \in seen'[c] \cup Range(t)
  BY <1>1, <1>3, <1>4, <1>6 DEF NothingLost, SentIsHeardOrOnWire
<1>7. ASSUME NEW e \in Range(events), e.id > forgotten, e.vault = Follows[c],
             FirstCursor(c) < e.id, e.id <= h.id
      PROVE  e \in seen'[c]
  <2>1. e.id \in Nat
    BY HeldEvents
  <2>2. e.id <= cursor[c]
    BY <1>4, <1>5, <1>7, <2>1
  <2>3. e \notin Range(t)
    BY <1>3, <1>5, <1>7, <2>1
  <2> QED BY <1>6, <1>7, <2>2, <2>3
<1>8. /\ \A e \in Range(pending[c]) \cup Range(t) : e.id < nextId
      /\ \A e \in Range(t) : e.id <= cursor[c]
  BY <1>2, <1>3 DEF NothingLost, InFlightBelowNextId
<1> QED BY <1>1, <1>3, <1>4, <1>6, <1>7, <1>8, OtherClients
        DEF NothingLost, InFlightBelowNextId, GivenOut, StreamsInOrder, PendingIsComplete

\* The polling route hands over everything retained up to the id it moves the
\* client to.
LEMMA PollLosesNothing ==
  ASSUME TypeOK, IdsIncreasing, NothingLost, NEW c \in Clients, Poll(c)
  PROVE  NothingLost'
<1> DEFINE answer == Replay(Follows[c], lastId[c])
           top == answer[Len(answer)]
<1>1. /\ answer # <<>> /\ phase[c] = "closed"
      /\ lastId'[c] = top.id /\ seen'[c] = seen[c] \cup Range(answer)
      /\ UNCHANGED <<events, nextId, disk, unsaved, forgotten, phase, cursor, pending, wire>>
      /\ \A d \in Clients \ {c} : lastId'[d] = lastId[d] /\ seen'[d] = seen[d]
  BY DEF Poll, TypeOK, busVars, streamVars
<1>2. /\ answer \in Seq(Event)
      /\ Range(answer) = {e \in Range(events) : e.vault = Follows[c] /\ e.id > lastId[c]}
  BY ReplayLists DEF TypeOK
<1> HIDE DEF answer
<1>3. top \in Range(answer)
  <2>1. Len(answer) \in DOMAIN answer
    BY <1>1, <1>2, LenProperties, EmptySeq
  <2> QED BY <2>1 DEF Range
<1>4. top.id < nextId
  BY <1>2, <1>3 DEF IdsIncreasing
<1>5. ASSUME NEW e \in Range(events), e.id > forgotten, e.vault = Follows[c],
             FirstCursor(c) < e.id
      PROVE  e \in seen'[c]
  <2>1. e.id \in Nat /\ lastId[c] \in Nat
    BY HeldEvents
  <2>2. CASE e.id <= lastId[c]
    BY <1>1, <1>5, <2>2 DEF NothingLost, NoRetainedEventSkipped
  <2>3. CASE e.id > lastId[c]
    BY <1>1, <1>2, <1>5, <2>3
  <2> QED BY <2>1, <2>2, <2>3
<1> QED BY <1>1, <1>4, <1>5, OtherClients
        DEF NothingLost, InFlightBelowNextId, GivenOut, StreamsInOrder, PendingIsComplete

\* Sleeping, waking and looping move no event.
LEMMA WaitingLosesNothing ==
  ASSUME TypeOK, NothingLost, NEW c \in Clients,
         Sleep(c) \/ WaitTimesOut(c) \/ LoopAgain(c)
  PROVE  NothingLost'
<1>1. /\ phase[c] # "closed" /\ phase'[c] # "closed"
      /\ UNCHANGED <<events, nextId, disk, unsaved, forgotten, cursor, pending, wire, lastId, seen>>
      /\ \A d \in Clients \ {c} : phase'[d] = phase[d]
  BY DEF Sleep, WaitTimesOut, LoopAgain, Goto, TypeOK, busVars, browserVars
<1> QED BY <1>1, OtherClients
        DEF NothingLost, InFlightBelowNextId, StreamsInOrder, SentIsHeardOrOnWire,
            PendingIsComplete, NoRetainedEventSkipped

BusInv == TypeOK /\ IdsIncreasing /\ NothingLost

LEMMA BusInvInit == Init => BusInv
<1> SUFFICES ASSUME Init PROVE NothingLost
  BY InitOrdered DEF BusInv
<1>1. Range(<<>>) = {} /\ Increasing(<<>>) /\ <<>> \in Seq(Event) /\ Len(<<>>) = 0
  BY EmptySeq DEF Range, Increasing
<1>2. Keep(<<>>) = <<>> /\ NextIdAfter(<<>>) = 1
  BY <1>1, ConstantsAssumption DEF Keep, NextIdAfter
<1> QED BY <1>1, <1>2
        DEF Init, NothingLost, InFlightBelowNextId, StreamsInOrder,
            GivenOut, SentIsHeardOrOnWire, PendingIsComplete, RowsAreNewest, DequeMirrorsRows,
            NoRetainedEventSkipped

LEMMA BusInvStep == BusInv /\ [Next]_vars => BusInv'
<1> SUFFICES ASSUME BusInv, [Next]_vars PROVE NothingLost'
  BY StepOrdered DEF BusInv
<1> USE DEF BusInv
<1>1. CASE \E v \in Vaults : Publish(v) \/ PublishRaises(v)
  BY <1>1, PublishLosesNothing
<1>2. CASE Restart
  BY <1>2, RestartLosesNothing
<1>3. CASE \E c \in Clients : Stream(c)
  BY <1>3, ScanLosesNothing, YieldLosesNothing, WaitingLosesNothing DEF Stream
<1>4. CASE \E c \in Clients : Browser(c)
  BY <1>4, OpenLosesNothing, DropLosesNothing, ReceiveLosesNothing,
     PollLosesNothing DEF Browser
<1>5. CASE UNCHANGED vars
  BY <1>5 DEF vars, NothingLost, InFlightBelowNextId, GivenOut, StreamsInOrder,
              SentIsHeardOrOnWire, PendingIsComplete, RowsAreNewest, DequeMirrorsRows,
              NoRetainedEventSkipped, FirstCursor
<1> QED BY <1>1, <1>2, <1>3, <1>4, <1>5 DEF Next, Bus

\* Whatever a stream holds is in order and below the next id, a list under way
\* has every retained event it spans, what was sent is heard or on the wire, and
\* the newest rows are the newest events; past the events a restart has forgotten.
THEOREM NothingIsLost == Spec => []NothingLost
<1>1. BusInv => NothingLost
  BY DEF BusInv
<1> QED BY <1>1, BusInvInit, BusInvStep, PTL DEF Spec

\* A client never jumps over an event the bus still retains, for any number of
\* clients, drops, reconnects, polls, failed saves and restarts, but for one that
\* is no newer than an event a restart has forgotten.
THEOREM NoRetainedEventIsSkipped == Spec => []NoRetainedEventSkipped
<1>1. BusInv => NoRetainedEventSkipped
  BY DEF BusInv, NothingLost
<1> QED BY <1>1, BusInvInit, BusInvStep, PTL DEF Spec

-----------------------------------------------------------------------------
\* A client that resumes by the header hears no event twice.

\* What is under way to such a client is past the last event it heard, and that is
\* its newest; what is under way to any client is past the cursor of its URL:
\* whether or not a restart has forgotten events.
OnlyNewerUnderWay ==
  \A c \in Clients :
    /\ phase[c] # "closed" => FirstCursor(c) <= cursor[c]
    /\ \A e \in Range(wire[c]) : FirstCursor(c) < e.id
    /\ UrlCursor[c] = NoCursor =>
         /\ phase[c] # "closed" => lastId[c] <= cursor[c]
         /\ \A e \in Range(wire[c]) : lastId[c] < e.id
         /\ \A e \in seen[c] : e.id <= lastId[c]

Forward == StreamsInOrder /\ OnlyNewerUnderWay

\* A step of one client leaves the others' lists alone.
LEMMA OthersStayForward ==
  ASSUME Forward, NEW c \in Clients,
         \A d \in Clients \ {c} :
           /\ phase'[d] = phase[d] /\ cursor'[d] = cursor[d]
           /\ pending'[d] = pending[d] /\ wire'[d] = wire[d]
           /\ lastId'[d] = lastId[d] /\ seen'[d] = seen[d],
         phase'[c] = "closed" => wire'[c] = <<>>,
         Increasing(wire'[c]), \A e \in Range(wire'[c]) : e.id <= cursor'[c],
         Increasing(pending'[c]), \A e \in Range(pending'[c]) : e.id > cursor'[c],
         phase'[c] # "closed" => FirstCursor(c) <= cursor'[c],
         \A e \in Range(wire'[c]) : FirstCursor(c) < e.id,
         UrlCursor[c] = NoCursor =>
           /\ phase'[c] # "closed" => lastId'[c] <= cursor'[c]
           /\ \A e \in Range(wire'[c]) : lastId'[c] < e.id
           /\ \A e \in seen'[c] : e.id <= lastId'[c]
  PROVE  Forward'
<1>1. StreamsInOrder'
  BY DEF Forward, StreamsInOrder, Increasing
<1>2. OnlyNewerUnderWay'
  BY DEF Forward, OnlyNewerUnderWay, FirstCursor
<1> QED BY <1>1, <1>2 DEF Forward

\* A step of the bus hands out nothing; a restart closes every stream.
LEMMA BusStaysForward ==
  ASSUME TypeOK, Forward, Bus
  PROVE  Forward'
<1>1. CASE \E v \in Vaults : Announce(v)
  <2>1. UNCHANGED <<cursor, pending, wire, lastId, seen>>
        /\ \A c \in Clients : phase'[c] = "closed" <=> phase[c] = "closed"
    BY <1>1 DEF Announce, Notified, TypeOK, Phases
  <2>2. StreamsInOrder'
    BY <2>1 DEF Forward, StreamsInOrder, Increasing
  <2>3. OnlyNewerUnderWay'
    BY <2>1 DEF Forward, OnlyNewerUnderWay, FirstCursor
  <2> QED BY <2>2, <2>3 DEF Forward
<1>2. CASE Restart
  <2>1. \A c \in Clients : phase'[c] = "closed" /\ pending'[c] = <<>> /\ wire'[c] = <<>>
        /\ UNCHANGED <<lastId, seen>>
    BY <1>2 DEF Restart
  <2>2. Range(<<>>) = {} /\ Increasing(<<>>)
    BY DEF Range, Increasing
  <2> QED BY <2>1, <2>2 DEF Forward, StreamsInOrder, OnlyNewerUnderWay
<1> QED BY <1>1, <1>2 DEF Bus, Publish, PublishRaises

\* A stream lists and sends events past its cursor only.
LEMMA StreamStaysForward ==
  ASSUME TypeOK, IdsIncreasing, Forward, NEW c \in Clients, Stream(c)
  PROVE  Forward'
<1>1. CASE Scan(c)
  <2> DEFINE found == Replay(Follows[c], cursor[c])
  <2>1. /\ pending'[c] = found /\ phase[c] = "scan" /\ phase'[c] # "closed"
        /\ UNCHANGED <<cursor, wire, lastId, seen>>
        /\ \A d \in Clients \ {c} : phase'[d] = phase[d] /\ pending'[d] = pending[d]
    BY <1>1 DEF Scan, Goto, TypeOK, browserVars
  <2>2. Increasing(found) /\ \A e \in Range(found) : e.id > cursor[c]
    BY ReplayLists DEF TypeOK, IdsIncreasing
  <2> HIDE DEF found
  <2> QED BY <2>1, <2>2, OthersStayForward DEF Forward, StreamsInOrder, OnlyNewerUnderWay
<1>2. CASE Yield(c)
  <2> DEFINE h == Head(pending[c])
             t == Tail(pending[c])
  <2>1. /\ cursor'[c] = h.id /\ wire'[c] = Append(wire[c], h) /\ pending'[c] = t
        /\ phase[c] = "yield" /\ phase'[c] # "closed" /\ UNCHANGED <<lastId, seen>>
        /\ \A d \in Clients \ {c} : /\ phase'[d] = phase[d] /\ cursor'[d] = cursor[d]
                                  /\ pending'[d] = pending[d] /\ wire'[d] = wire[d]
    BY <1>2 DEF Yield, Goto, TypeOK, browserVars
  <2>2. /\ pending[c] \in Seq(Event) /\ pending[c] # <<>> /\ Increasing(pending[c])
        /\ wire[c] \in Seq(Event) /\ Increasing(wire[c])
        /\ \A e \in Range(wire[c]) : e.id <= cursor[c]
    BY <1>2 DEF Yield, TypeOK, Forward, StreamsInOrder
  <2>3. /\ h \in Range(pending[c]) /\ h \in Event /\ Increasing(t)
        /\ Range(t) \subseteq Range(pending[c])
        /\ \A e \in Range(t) : h.id < e.id
    BY <2>2, HeadIsLeast
  <2> HIDE DEF h, t
  <2>4. /\ cursor[c] \in Nat /\ lastId[c] \in Nat /\ h.id \in Nat /\ cursor[c] < h.id
        /\ FirstCursor(c) \in Nat
        /\ \A e \in Range(wire[c]) \cup Range(t) : e.id \in Nat
    BY <2>3, HeldEvents DEF Forward, StreamsInOrder
  <2>5. \A e \in Range(wire[c]) : e.id < h.id
    BY <2>2, <2>4
  <2>6. Range(wire'[c]) = Range(wire[c]) \cup {h} /\ Increasing(wire'[c])
    BY <2>1, <2>2, <2>3, <2>5, AppendNewest
  <2>7. UrlCursor[c] = NoCursor =>
          lastId[c] < h.id /\ \A e \in Range(wire[c]) : lastId[c] < e.id
    BY <2>1, <2>4 DEF Forward, OnlyNewerUnderWay
  <2>8. \A e \in Range(wire'[c]) : e.id <= cursor'[c]
    BY <2>1, <2>4, <2>5, <2>6
  <2>9. Increasing(pending'[c]) /\ \A e \in Range(pending'[c]) : e.id > cursor'[c]
    BY <2>1, <2>3, <2>4
  <2>10. UrlCursor[c] = NoCursor =>
           /\ lastId'[c] <= cursor'[c] /\ \A e \in Range(wire'[c]) : lastId'[c] < e.id
           /\ \A e \in seen'[c] : e.id <= lastId'[c]
    BY <2>1, <2>4, <2>6, <2>7 DEF Forward, OnlyNewerUnderWay
  <2>11. FirstCursor(c) <= cursor'[c] /\ \A e \in Range(wire'[c]) : FirstCursor(c) < e.id
    <3>1. FirstCursor(c) < h.id /\ \A e \in Range(wire[c]) : FirstCursor(c) < e.id
      BY <2>1, <2>4 DEF Forward, OnlyNewerUnderWay
    <3> QED BY <2>1, <2>4, <2>6, <3>1
  <2> QED BY <2>1, <2>6, <2>8, <2>9, <2>10, <2>11, OthersStayForward
<1>3. CASE Sleep(c) \/ WaitTimesOut(c) \/ LoopAgain(c)
  <2>1. /\ phase[c] # "closed" /\ phase'[c] # "closed"
        /\ UNCHANGED <<cursor, pending, wire, lastId, seen>>
        /\ \A d \in Clients \ {c} : phase'[d] = phase[d]
    BY <1>3 DEF Sleep, WaitTimesOut, LoopAgain, Goto, TypeOK, browserVars
  <2> QED BY <2>1, OthersStayForward DEF Forward, StreamsInOrder, OnlyNewerUnderWay
<1> QED BY <1>1, <1>2, <1>3 DEF Stream

\* A browser only moves on, and resumes where it stands.
LEMMA BrowserStaysForward ==
  ASSUME TypeOK, IdsIncreasing, Forward, NEW c \in Clients, Browser(c)
  PROVE  Forward'
<1>0. Range(<<>>) = {} /\ Increasing(<<>>)
  BY DEF Range, Increasing
<1>1. CASE Open(c)
  <2>1. /\ cursor'[c] = ResumeAt(c) /\ phase[c] = "closed"
        /\ UNCHANGED <<pending, wire, lastId, seen>>
        /\ \A d \in Clients \ {c} : phase'[d] = phase[d] /\ cursor'[d] = cursor[d]
    BY <1>1 DEF Open, Goto, TypeOK, browserVars
  <2>2. wire[c] = <<>> /\ pending[c] = <<>>
    BY <2>1 DEF TypeOK, Forward, StreamsInOrder
  <2>3. /\ UrlCursor[c] = NoCursor => cursor'[c] = lastId[c] /\ lastId[c] \in Nat
        /\ FirstCursor(c) <= cursor'[c]
    BY <2>1, HeldEvents DEF ResumeAt, FirstCursor, TypeOK
  <2> QED BY <1>0, <2>1, <2>2, <2>3, OthersStayForward DEF Forward, OnlyNewerUnderWay
<1>2. CASE Drop(c)
  <2>1. /\ phase'[c] = "closed" /\ pending'[c] = <<>> /\ wire'[c] = <<>>
        /\ UNCHANGED <<lastId, seen>>
        /\ \A d \in Clients \ {c} : /\ phase'[d] = phase[d] /\ cursor'[d] = cursor[d]
                                  /\ pending'[d] = pending[d] /\ wire'[d] = wire[d]
    BY <1>2 DEF Drop, Goto, TypeOK, browserVars
  <2> QED BY <1>0, <2>1, OthersStayForward DEF Forward, OnlyNewerUnderWay
<1>3. CASE Receive(c)
  <2> DEFINE h == Head(wire[c])
             t == Tail(wire[c])
  <2>1. /\ lastId'[c] = h.id /\ seen'[c] = seen[c] \cup {h} /\ wire'[c] = t
        /\ UNCHANGED <<phase, cursor, pending>>
        /\ \A d \in Clients \ {c} : /\ lastId'[d] = lastId[d] /\ seen'[d] = seen[d]
                                  /\ wire'[d] = wire[d]
    BY <1>3 DEF Receive, TypeOK
  <2>2. /\ wire[c] \in Seq(Event) /\ wire[c] # <<>> /\ Increasing(wire[c])
        /\ \A e \in Range(wire[c]) : e.id <= cursor[c]
        /\ phase[c] # "closed"
    BY <1>3 DEF Receive, TypeOK, Forward, StreamsInOrder
  <2>3. /\ h \in Range(wire[c]) /\ Increasing(t)
        /\ Range(t) \subseteq Range(wire[c])
        /\ \A e \in Range(t) : h.id < e.id
    BY <2>2, HeadIsLeast
  <2> HIDE DEF h, t
  <2>4. ASSUME UrlCursor[c] = NoCursor PROVE \A e \in seen'[c] : e.id <= h.id
    <3>1. lastId[c] < h.id /\ h.id \in Nat /\ lastId[c] \in Nat
      BY <2>3, <2>4, HeldEvents DEF Forward, OnlyNewerUnderWay
    <3>2. \A e \in seen[c] : e.id \in Nat /\ e.id <= lastId[c]
      BY <2>4 DEF Forward, OnlyNewerUnderWay, TypeOK, Event
    <3> QED BY <2>1, <3>1, <3>2
  <2> QED BY <2>1, <2>2, <2>3, <2>4, OthersStayForward
          DEF Forward, StreamsInOrder, OnlyNewerUnderWay
<1>4. CASE Poll(c)
  <2> DEFINE answer == Replay(Follows[c], lastId[c])
             top == answer[Len(answer)]
  <2>1. /\ answer # <<>> /\ phase[c] = "closed" /\ lastId'[c] = top.id
        /\ seen'[c] = seen[c] \cup Range(answer)
        /\ UNCHANGED <<phase, cursor, pending, wire>>
        /\ \A d \in Clients \ {c} : lastId'[d] = lastId[d] /\ seen'[d] = seen[d]
    BY <1>4 DEF Poll, TypeOK, streamVars
  <2>2. /\ answer \in Seq(Event) /\ Increasing(answer)
        /\ \A e \in Range(answer) : e.id > lastId[c]
    BY ReplayLists DEF TypeOK, IdsIncreasing
  <2> HIDE DEF answer
  <2>3. /\ Len(answer) \in DOMAIN answer /\ DOMAIN answer = 1..Len(answer)
        /\ Len(answer) \in Nat /\ top \in Range(answer)
    <3>1. Len(answer) \in DOMAIN answer /\ DOMAIN answer = 1..Len(answer) /\ Len(answer) \in Nat
      BY <2>1, <2>2, LenProperties, EmptySeq
    <3> QED BY <3>1 DEF Range
  <2>4. wire[c] = <<>>
    BY <2>1 DEF Forward, StreamsInOrder
  <2>5. \A e \in Range(answer) : e.id \in Nat /\ e.id <= top.id
    <3> SUFFICES ASSUME NEW i \in DOMAIN answer
                 PROVE  answer[i].id \in Nat /\ answer[i].id <= top.id
      BY DEF Range
    <3>0. answer[i] \in Event /\ top \in Event
      BY <2>2, <2>3
    <3>1. answer[i].id \in Nat /\ top.id \in Nat
      BY <3>0 DEF Event
    <3>2. i < Len(answer) => answer[i].id < top.id
      BY <2>2, <2>3 DEF Increasing
    <3>3. i < Len(answer) \/ i = Len(answer)
      BY <2>3
    <3> QED BY <3>1, <3>2, <3>3
  <2>6. ASSUME UrlCursor[c] = NoCursor PROVE \A e \in seen'[c] : e.id <= top.id
    <3>1. top.id \in Nat /\ lastId[c] \in Nat /\ lastId[c] < top.id
      BY <2>2, <2>3, <2>5, HeldEvents
    <3>2. \A e \in seen[c] : e.id \in Nat /\ e.id <= lastId[c]
      BY <2>6 DEF Forward, OnlyNewerUnderWay, TypeOK, Event
    <3> HIDE DEF top
    <3> QED BY <2>1, <2>5, <3>1, <3>2
  <2> QED BY <1>0, <2>1, <2>4, <2>6, OthersStayForward
          DEF Forward, StreamsInOrder, OnlyNewerUnderWay
<1> QED BY <1>1, <1>2, <1>3, <1>4 DEF Browser

\* A client that resumes by the Last-Event-ID header is handed no event twice and
\* none older than one it has heard, and one whose URL names a cursor none up to
\* it: through any number of drops, reconnects, polls and restarts, and even when
\* saves have failed and ids are given out a second time.
THEOREM NothingIsHeardTwice == Spec => HeardOnce
<1> DEFINE Inv == TypeOK /\ IdsIncreasing /\ Forward
           A == \A c \in Clients :
                  /\ Receive(c) => Head(wire[c]).id > FirstCursor(c)
                  /\ UrlCursor[c] = NoCursor =>
                       /\ Receive(c) => Unheard(c, Head(wire[c]))
                       /\ Poll(c) => \A e \in Range(Replay(Follows[c], lastId[c])) : Unheard(c, e)
<1>1. Init => Inv
  <2> SUFFICES ASSUME Init PROVE Forward
    BY InitOrdered
  <2>1. Range(<<>>) = {} /\ Increasing(<<>>)
    BY DEF Range, Increasing
  <2> QED BY <2>1 DEF Init, Forward, StreamsInOrder, OnlyNewerUnderWay
<1>2. Inv /\ [Next]_vars => Inv'
  <2> SUFFICES ASSUME Inv, [Next]_vars PROVE Forward'
    BY StepOrdered
  <2>1. CASE Bus
    BY <2>1, BusStaysForward
  <2>2. CASE \E c \in Clients : Stream(c)
    BY <2>2, StreamStaysForward
  <2>3. CASE \E c \in Clients : Browser(c)
    BY <2>3, BrowserStaysForward
  <2>4. CASE UNCHANGED vars
    BY <2>4 DEF vars, Forward, StreamsInOrder, OnlyNewerUnderWay, Increasing, FirstCursor
  <2> QED BY <2>1, <2>2, <2>3, <2>4 DEF Next
<1>3. Inv => A
  <2> SUFFICES ASSUME Inv, NEW c \in Clients
               PROVE  /\ Receive(c) => Head(wire[c]).id > FirstCursor(c)
                      /\ UrlCursor[c] = NoCursor =>
                           /\ Receive(c) => Unheard(c, Head(wire[c]))
                           /\ Poll(c) => \A e \in Range(Replay(Follows[c], lastId[c])) : Unheard(c, e)
    OBVIOUS
  <2>1. /\ FirstCursor(c) \in Nat /\ lastId[c] \in Nat
        /\ UrlCursor[c] = NoCursor => \A e \in seen[c] : e.id \in Nat /\ e.id <= lastId[c]
    <3>1. FirstCursor(c) \in Nat /\ lastId[c] \in Nat
      BY HeldEvents
    <3>2. \A e \in seen[c] : e \in Event
      BY DEF TypeOK
    <3>3. \A e \in seen[c] : e.id \in Nat
      BY <3>2 DEF Event
    <3> QED BY <3>1, <3>3 DEF Forward, OnlyNewerUnderWay
  <2>2. ASSUME NEW e, e.id \in Nat, e.id > lastId[c], UrlCursor[c] = NoCursor PROVE Unheard(c, e)
    BY <2>1, <2>2 DEF Unheard
  <2>3. ASSUME Receive(c)
        PROVE  /\ Head(wire[c]).id \in Nat /\ Head(wire[c]).id > FirstCursor(c)
               /\ UrlCursor[c] = NoCursor => Head(wire[c]).id > lastId[c]
    <3>1. wire[c] \in Seq(Event) /\ wire[c] # <<>> /\ Increasing(wire[c])
      BY <2>3 DEF Receive, TypeOK, Forward, StreamsInOrder
    <3>2. Head(wire[c]) \in Range(wire[c])
      BY <3>1, HeadIsLeast
    <3> QED BY <2>1, <3>2, HeldEvents DEF Forward, OnlyNewerUnderWay
  <2>4. \A e \in Range(Replay(Follows[c], lastId[c])) : e.id \in Nat /\ e.id > lastId[c]
    BY ReplayLists, HeldEvents DEF TypeOK
  <2> QED BY <2>2, <2>3, <2>4
<1> HIDE DEF Inv, A
<1>4. Spec => [][A]_vars
  BY <1>1, <1>2, <1>3, PTL DEF Spec
<1> QED BY <1>4 DEF A, HeardOnce

-----------------------------------------------------------------------------
\* With a database that never fails, the bus implements EventFeed.

\* The retained events are the newest rows.
LEMMA DequeIsWindow ==
  ASSUME NEW s \in Seq(Event)
  PROVE  \A e : e \in Range(Keep(s))
                 <=> \E i \in DOMAIN s : i > Len(s) - MaxEvents /\ e = s[i]
<1>1. Len(s) \in Nat /\ DOMAIN s = 1..Len(s) /\ MaxEvents \in Nat \ {0}
  BY LenProperties, ConstantsAssumption
<1>2. CASE Len(s) <= MaxEvents
  <2>1. Keep(s) = s /\ \A i \in DOMAIN s : i > Len(s) - MaxEvents
    BY <1>1, <1>2 DEF Keep
  <2> QED BY <2>1 DEF Range
<1>3. CASE Len(s) > MaxEvents
  <2> DEFINE d == Len(s) - MaxEvents
             t == SubSeq(s, d + 1, Len(s))
  <2>1. Keep(s) = t
    BY <1>3 DEF Keep
  <2>2. d \in Nat /\ d + MaxEvents = Len(s)
    BY <1>1, <1>3
  <2>3. Len(t) = MaxEvents /\ t \in Seq(Event) /\ \A i \in 1..MaxEvents : t[i] = s[d + i]
    BY <1>1, <2>2
  <2>4. DOMAIN t = 1..MaxEvents
    BY <2>3, LenProperties
  <2> HIDE DEF t, d
  <2>5. \A i \in 1..MaxEvents : d + i \in DOMAIN s /\ d + i > d
    BY <1>1, <2>2
  <2>6. \A i \in DOMAIN s : i > d => i - d \in 1..MaxEvents /\ d + (i - d) = i
    BY <1>1, <2>2
  <2>7. \A e : e \in Range(t) <=> \E i \in DOMAIN s : i > d /\ e = s[i]
    BY <2>3, <2>4, <2>5, <2>6 DEF Range
  <2> QED BY <2>1, <2>7 DEF d
<1> QED BY <1>1, <1>2, <1>3

\* Rows in order are listed by ascending id.
LEMMA LaterIsGreater ==
  ASSUME NEW s \in Seq(Event), Increasing(s), NEW i \in DOMAIN s, NEW j \in DOMAIN s
  PROVE  /\ s[i].id \in Nat /\ s[j].id \in Nat
         /\ i \in Nat /\ j \in Nat
         /\ i < j <=> s[i].id < s[j].id
<1>0. s[i] \in Event /\ s[j] \in Event /\ i \in Nat /\ j \in Nat
  BY LenProperties
<1>1. s[i].id \in Nat /\ s[j].id \in Nat /\ i \in Nat /\ j \in Nat
  BY <1>0 DEF Event
<1>2. i < j => s[i].id < s[j].id
  BY DEF Increasing
<1>3. j < i => s[j].id < s[i].id
  BY DEF Increasing
<1> QED BY <1>1, <1>2, <1>3

\* A stream goes on from f, where its client stands or its URL says: nothing
\* retained lies between f and the generator's cursor but what is on the wire.
GoesOnFrom(c, f) ==
  /\ f <= cursor[c] /\ (cursor[c] < nextId \/ f = cursor[c])
  /\ \A e \in Range(wire[c]) : f < e.id
  /\ \A e \in Range(events) :
       (e.vault = Follows[c] /\ f < e.id /\ e.id <= cursor[c]) => e \in Range(wire[c])

\* What is under way are rows of the client's vault.
RowsUnderWay(c) ==
  \A e \in Range(pending[c]) \cup Range(wire[c]) : e.vault = Follows[c] /\ e \in Range(disk)

FeedInv ==
  /\ nextId = calls + 1
  /\ \A c \in Clients :
       /\ RowsUnderWay(c)
       /\ phase[c] # "closed" => \E f \in Feed!Starts(c) : GoesOnFrom(c, f)

\* A place a reader may start from is a number.
LEMMA StartsAreNat ==
  ASSUME TypeOK, NEW c \in Clients, NEW f \in Feed!Starts(c)
  PROVE  f \in Nat
BY ConstantsAssumption DEF Feed!Starts, TypeOK

\* A retained event is a row.
LEMMA RetainedIsRow ==
  ASSUME TypeOK, NothingLost, Persistent, ~SaveCanFail
  PROVE  Range(events) \subseteq Range(disk)
BY KeepIsATail DEF TypeOK, NothingLost, DequeMirrorsRows

\* A publish announces one event, and nothing of it is under way yet.
LEMMA PublishFeeds ==
  ASSUME BusInv, FeedInv, Persistent, ~SaveCanFail, NEW v \in Vaults,
         Publish(v) \/ PublishRaises(v)
  PROVE  FeedInv' /\ Feed!Announce
<1> DEFINE n == NewEvent(v)
<1> USE DEF BusInv
<1>1. Announce(v) /\ disk' = SaveRow(disk, n)
  BY DEF Publish, PublishRaises
<1>2. /\ n \in Event /\ n.id = nextId
      /\ Range(events') \subseteq Range(events) \cup {n}
      /\ disk' = Append(disk, n) /\ Range(disk') = Range(disk) \cup {n}
  BY <1>1, AnnounceFacts
<1>3. /\ nextId' = nextId + 1 /\ calls' = calls + 1 /\ nextId \in Nat \ {0} /\ calls \in Nat
      /\ calls < MaxPublish /\ MaxPublish \in Nat
      /\ UNCHANGED <<cursor, pending, wire, lastId, seen>>
      /\ \A c \in Clients : phase'[c] = "closed" <=> phase[c] = "closed"
  BY <1>1, ConstantsAssumption DEF Announce, TypeOK, Notified, Phases
<1>4. n \in [id : 1..MaxPublish, vault : Vaults, data : 1..MaxPublish]
  BY <1>3 DEF NewEvent, FeedInv
<1> HIDE DEF n
<1>5. Feed!Announce
  <2>1. \A i \in DOMAIN disk : disk[i].id < n.id
    BY <1>2 DEF IdsIncreasing, Range
  <2> QED BY <1>2, <1>3, <1>4, <2>1 DEF Feed!Announce, Feed!Positions
<1>6. ASSUME NEW c \in Clients PROVE RowsUnderWay(c)'
  BY <1>2, <1>3 DEF FeedInv, RowsUnderWay
<1>7. ASSUME NEW c \in Clients, phase'[c] # "closed"
      PROVE  (\E f \in Feed!Starts(c) : GoesOnFrom(c, f))'
  <2>1. PICK f \in Feed!Starts(c) : GoesOnFrom(c, f)
    BY <1>3, <1>7 DEF FeedInv
  <2>2. f \in Nat /\ cursor[c] \in Nat
    BY StartsAreNat DEF TypeOK
  <2>3. ASSUME NEW e \in Range(events'), e.vault = Follows[c], f < e.id, e.id <= cursor[c]
        PROVE  e \in Range(wire[c])
    <3>1. e # n
      BY <1>2, <1>3, <2>1, <2>2, <2>3 DEF GoesOnFrom
    <3> QED BY <1>2, <2>1, <2>3, <3>1 DEF GoesOnFrom
  <2>4. cursor[c] < nextId' \/ f = cursor[c]
    BY <1>3, <2>1, <2>2 DEF GoesOnFrom
  <2>5. f \in Feed!Starts(c)' /\ GoesOnFrom(c, f)'
    BY <1>3, <2>1, <2>3, <2>4 DEF GoesOnFrom, Feed!Starts
  <2> QED BY <2>5
<1>8. nextId' = calls' + 1
  BY <1>3 DEF FeedInv
<1> QED BY <1>5, <1>6, <1>7, <1>8 DEF FeedInv

\* A restart closes every stream and forgets nothing.
LEMMA RestartFeeds ==
  ASSUME BusInv, FeedInv, Persistent, ~SaveCanFail, Restart
  PROVE  FeedInv' /\ UNCHANGED <<disk, lastId, seen>>
<1>1. LoadRows(disk) = disk
  BY LoadOrderedRows DEF BusInv, TypeOK, IdsIncreasing
<1>2. nextId' = nextId /\ calls' = calls
  BY <1>1 DEF Restart, BusInv, NothingLost, DequeMirrorsRows
<1>3. \A c \in Clients : phase'[c] = "closed" /\ pending'[c] = <<>> /\ wire'[c] = <<>>
  BY DEF Restart
<1>4. Range(<<>>) = {}
  BY DEF Range
<1> QED BY <1>2, <1>3, <1>4 DEF Restart, FeedInv, RowsUnderWay

\* A step of one client leaves what is said of the others.
LEMMA OthersStayFed ==
  ASSUME FeedInv, NEW c \in Clients, UNCHANGED <<events, nextId, disk, calls>>,
         \A d \in Clients \ {c} :
           /\ phase'[d] = phase[d] /\ cursor'[d] = cursor[d]
           /\ pending'[d] = pending[d] /\ wire'[d] = wire[d] /\ lastId'[d] = lastId[d],
         RowsUnderWay(c)',
         phase'[c] # "closed" => (\E f \in Feed!Starts(c) : GoesOnFrom(c, f))'
  PROVE  FeedInv'
<1>1. ASSUME NEW d \in Clients \ {c} PROVE RowsUnderWay(d)'
  BY <1>1 DEF FeedInv, RowsUnderWay
<1>2. ASSUME NEW d \in Clients \ {c}, phase'[d] # "closed"
      PROVE  (\E f \in Feed!Starts(d) : GoesOnFrom(d, f))'
  <2>1. PICK f \in Feed!Starts(d) : GoesOnFrom(d, f)
    BY <1>2 DEF FeedInv
  <2>2. f \in Feed!Starts(d)' /\ GoesOnFrom(d, f)'
    BY <2>1 DEF GoesOnFrom, Feed!Starts
  <2> QED BY <2>2
<1> QED BY <1>1, <1>2 DEF FeedInv

\* A stream moves events from the rows to its wire; no client hears of it.
LEMMA StreamFeeds ==
  ASSUME BusInv, FeedInv, Persistent, ~SaveCanFail, NEW c \in Clients, Stream(c)
  PROVE  FeedInv' /\ UNCHANGED <<disk, lastId, seen>>
<1> USE DEF BusInv
<1>1. CASE Scan(c)
  <2> DEFINE found == Replay(Follows[c], cursor[c])
  <2>1. /\ pending'[c] = found /\ phase[c] = "scan" /\ phase'[c] # "closed"
        /\ UNCHANGED <<events, nextId, disk, calls, cursor, wire, lastId, seen>>
        /\ \A d \in Clients \ {c} : phase'[d] = phase[d] /\ pending'[d] = pending[d]
    BY <1>1 DEF Scan, Goto, TypeOK, busVars, browserVars
  <2>2. \A e \in Range(found) : e.vault = Follows[c] /\ e \in Range(disk)
    BY ReplayLists, RetainedIsRow DEF TypeOK
  <2> HIDE DEF found
  <2>3. RowsUnderWay(c)'
    BY <2>1, <2>2 DEF FeedInv, RowsUnderWay
  <2>4. PICK f \in Feed!Starts(c) : GoesOnFrom(c, f)
    BY <2>1 DEF FeedInv
  <2>5. f \in Feed!Starts(c)' /\ GoesOnFrom(c, f)'
    BY <2>1, <2>4 DEF GoesOnFrom, Feed!Starts
  <2> QED BY <2>1, <2>3, <2>5, OthersStayFed
<1>2. CASE Yield(c)
  <2> DEFINE h == Head(pending[c])
             t == Tail(pending[c])
  <2>1. /\ cursor'[c] = h.id /\ wire'[c] = Append(wire[c], h) /\ pending'[c] = t
        /\ phase[c] = "yield" /\ phase'[c] # "closed"
        /\ UNCHANGED <<events, nextId, disk, calls, lastId, seen>>
        /\ \A d \in Clients \ {c} : /\ phase'[d] = phase[d] /\ cursor'[d] = cursor[d]
                                  /\ pending'[d] = pending[d] /\ wire'[d] = wire[d]
    BY <1>2 DEF Yield, Goto, TypeOK, busVars, browserVars
  <2>2. /\ pending[c] \in Seq(Event) /\ pending[c] # <<>> /\ Increasing(pending[c])
        /\ wire[c] \in Seq(Event)
    BY <1>2 DEF Yield, TypeOK, NothingLost, StreamsInOrder
  <2>3. /\ h \in Range(pending[c]) /\ h \in Event
        /\ Range(pending[c]) = {h} \cup Range(t)
        /\ \A e \in Range(t) : h.id < e.id
    BY <2>2, HeadIsLeast
  <2> HIDE DEF h, t
  <2>4. Range(wire'[c]) = Range(wire[c]) \cup {h}
    BY <2>1, <2>2, <2>3, AppendNewest
  <2>5. RowsUnderWay(c)'
    BY <2>1, <2>3, <2>4 DEF FeedInv, RowsUnderWay
  <2>6. PICK f \in Feed!Starts(c) : GoesOnFrom(c, f)
    BY <2>1 DEF FeedInv
  <2>7. /\ f \in Nat /\ cursor[c] \in Nat /\ h.id \in Nat /\ nextId \in Nat
        /\ cursor[c] < h.id /\ h.id < nextId
        /\ \A e \in Range(t) : e.id \in Nat
    BY <2>3, HeldEvents, StartsAreNat
    DEF TypeOK, NothingLost, StreamsInOrder, InFlightBelowNextId
  <2>8. f < h.id
    BY <2>6, <2>7 DEF GoesOnFrom
  <2>9. ASSUME NEW e \in Range(events), e.vault = Follows[c], f < e.id, e.id <= h.id
        PROVE  e \in Range(wire'[c])
    <3>0. e.id \in Nat
      BY HeldEvents
    <3>1. CASE e.id <= cursor[c]
      BY <2>4, <2>6, <2>9, <3>1 DEF GoesOnFrom
    <3>2. CASE cursor[c] < e.id
      <4>1. e \in Range(pending[c])
        BY <2>3, <2>9, <3>2 DEF NothingLost, PendingIsComplete
      <4>2. e \notin Range(t)
        BY <2>3, <2>7, <2>9, <3>0
      <4> QED BY <2>3, <2>4, <4>1, <4>2
    <3> QED BY <2>7, <3>0, <3>1, <3>2
  <2>10. f \in Feed!Starts(c)' /\ GoesOnFrom(c, f)'
    BY <2>1, <2>4, <2>6, <2>7, <2>8, <2>9 DEF GoesOnFrom, Feed!Starts
  <2> QED BY <2>1, <2>5, <2>10, OthersStayFed
<1>3. CASE Sleep(c) \/ WaitTimesOut(c) \/ LoopAgain(c)
  <2>1. /\ phase[c] # "closed" /\ phase'[c] # "closed"
        /\ UNCHANGED <<events, nextId, disk, calls, cursor, pending, wire, lastId, seen>>
        /\ \A d \in Clients \ {c} : phase'[d] = phase[d]
    BY <1>3 DEF Sleep, WaitTimesOut, LoopAgain, Goto, TypeOK, busVars, browserVars
  <2>2. PICK f \in Feed!Starts(c) : GoesOnFrom(c, f)
    BY <2>1 DEF FeedInv
  <2>3. f \in Feed!Starts(c)' /\ GoesOnFrom(c, f)'
    BY <2>1, <2>2 DEF GoesOnFrom, Feed!Starts
  <2>4. RowsUnderWay(c)'
    BY <2>1 DEF FeedInv, RowsUnderWay
  <2> QED BY <2>1, <2>3, <2>4, OthersStayFed
<1> QED BY <1>1, <1>2, <1>3 DEF Stream

\* A browser that connects or loses its connection hears nothing.
LEMMA ConnectionFeeds ==
  ASSUME BusInv, FeedInv, NEW c \in Clients, Open(c) \/ Drop(c)
  PROVE  FeedInv' /\ UNCHANGED <<disk, lastId, seen>>
<1> USE DEF BusInv
<1>0. Range(<<>>) = {}
  BY DEF Range
<1>1. CASE Open(c)
  <2>1. /\ cursor'[c] = ResumeAt(c) /\ phase[c] = "closed"
        /\ UNCHANGED <<events, nextId, disk, calls, pending, wire, lastId, seen>>
        /\ \A d \in Clients \ {c} : phase'[d] = phase[d] /\ cursor'[d] = cursor[d]
    BY <1>1 DEF Open, Goto, TypeOK, busVars, browserVars
  <2>2. wire[c] = <<>>
    BY <2>1 DEF NothingLost, StreamsInOrder
  <2> PICK f : f = ResumeAt(c)
    OBVIOUS
  <2>3. f \in Feed!Starts(c)' /\ f \in Feed!Starts(c)
    BY <2>1 DEF ResumeAt, Feed!Starts
  <2>4. f \in Nat /\ \A e \in Range(events) : e.id \in Nat
    BY <2>3, StartsAreNat, HeldEvents
  <2>5. GoesOnFrom(c, f)'
    BY <1>0, <2>1, <2>2, <2>4 DEF GoesOnFrom
  <2>6. RowsUnderWay(c)'
    BY <2>1 DEF FeedInv, RowsUnderWay
  <2> QED BY <2>1, <2>3, <2>5, <2>6, OthersStayFed
<1>2. CASE Drop(c)
  <2>1. /\ phase'[c] = "closed" /\ pending'[c] = <<>> /\ wire'[c] = <<>>
        /\ UNCHANGED <<events, nextId, disk, calls, lastId, seen>>
        /\ \A d \in Clients \ {c} : /\ phase'[d] = phase[d] /\ cursor'[d] = cursor[d]
                                  /\ pending'[d] = pending[d] /\ wire'[d] = wire[d]
    BY <1>2 DEF Drop, Goto, TypeOK, busVars, browserVars
  <2>2. RowsUnderWay(c)'
    BY <1>0, <2>1 DEF RowsUnderWay
  <2> QED BY <2>1, <2>2, OthersStayFed
<1> QED BY <1>1, <1>2

\* The event a browser is handed is the next row of its vault, after f, that
\* the window still holds.
LEMMA ReceiveHears ==
  ASSUME BusInv, FeedInv, Persistent, ~SaveCanFail, NEW c \in Clients, Receive(c)
  PROVE  FeedInv' /\ Feed!Hear(c)
<1> DEFINE h == Head(wire[c])
           t == Tail(wire[c])
<1> USE DEF BusInv
<1>1. /\ lastId' = [lastId EXCEPT ![c] = h.id] /\ seen' = [seen EXCEPT ![c] = @ \cup {h}]
      /\ lastId'[c] = h.id /\ wire'[c] = t
      /\ UNCHANGED <<events, nextId, disk, calls, phase, cursor, pending>>
      /\ \A d \in Clients \ {c} : lastId'[d] = lastId[d] /\ wire'[d] = wire[d]
  BY DEF Receive, TypeOK, busVars
<1>2. /\ wire[c] \in Seq(Event) /\ wire[c] # <<>> /\ Increasing(wire[c])
      /\ \A e \in Range(wire[c]) : e.id <= cursor[c]
      /\ phase[c] # "closed"
  BY DEF Receive, TypeOK, NothingLost, StreamsInOrder
<1>3. /\ h \in Range(wire[c])
      /\ Range(wire[c]) = {h} \cup Range(t)
      /\ \A e \in Range(t) : h.id < e.id
  BY <1>2, HeadIsLeast
<1> HIDE DEF h, t
<1>4. PICK f \in Feed!Starts(c) : GoesOnFrom(c, f)
  BY <1>2 DEF FeedInv
<1>5. /\ f \in Nat /\ cursor[c] \in Nat /\ nextId \in Nat /\ h.id \in Nat
      /\ f < h.id /\ h.id <= cursor[c] /\ h.id < nextId
      /\ \A e \in Range(events) \cup Range(t) : e.id \in Nat
  BY <1>2, <1>3, <1>4, HeldEvents, StartsAreNat
  DEF GoesOnFrom, TypeOK, NothingLost, InFlightBelowNextId
<1>6. RowsUnderWay(c)'
  BY <1>1, <1>3 DEF FeedInv, RowsUnderWay
<1>7. \E n : n \in Feed!Starts(c)' /\ GoesOnFrom(c, n)'
  <2> PICK n : n = h.id
    OBVIOUS
  <2>1. cursor[c] < nextId
    BY <1>4, <1>5 DEF GoesOnFrom
  <2>2. ASSUME NEW e \in Range(events), e.vault = Follows[c], h.id < e.id, e.id <= cursor[c]
        PROVE  e \in Range(t)
    BY <1>3, <1>4, <1>5, <2>2 DEF GoesOnFrom
  <2>3. n \in Feed!Starts(c)'
    BY <1>1 DEF Feed!Starts
  <2>4. GoesOnFrom(c, n)'
    BY <1>1, <1>3, <1>5, <2>1, <2>2 DEF GoesOnFrom
  <2> QED BY <2>3, <2>4
<1>8. FeedInv'
  BY <1>1, <1>2, <1>6, <1>7, OthersStayFed
<1>9. Feed!Hear(c)
  <2>1. disk \in Seq(Event) /\ Increasing(disk) /\ events = Keep(disk)
    BY DEF TypeOK, IdsIncreasing, NothingLost, DequeMirrorsRows
  <2>2. PICK i \in DOMAIN disk : disk[i] = h
    BY <1>3 DEF FeedInv, RowsUnderWay, Range
  <2>3. h.vault = Follows[c]
    BY <1>3 DEF FeedInv, RowsUnderWay
  <2>4. i \in Feed!Beyond(c, f)
    BY <1>5, <2>2, <2>3 DEF Feed!Beyond, Feed!Positions
  <2>5. ASSUME NEW j \in Feed!Beyond(c, f), j < i, Feed!InWindow(j)
        PROVE  FALSE
    <3>1. j \in DOMAIN disk /\ disk[j].vault = Follows[c] /\ disk[j].id > f
      BY DEF Feed!Beyond, Feed!Positions
    <3>2. disk[j] \in Range(events)
      BY <2>1, <2>5, <3>1, DequeIsWindow DEF Feed!InWindow
    <3>3. disk[j].id < h.id /\ disk[j].id \in Nat
      BY <2>1, <2>2, <2>5, <3>1, LaterIsGreater
    <3>4. disk[j] \in Range(wire[c])
      BY <1>4, <1>5, <3>1, <3>2, <3>3 DEF GoesOnFrom
    <3> QED BY <1>3, <1>5, <3>3, <3>4
  <2> QED BY <1>1, <1>4, <2>2, <2>4, <2>5 DEF Feed!Hear
<1> QED BY <1>8, <1>9

\* A poll hands over the whole window past the client's last event.
LEMMA PollCatchesUp ==
  ASSUME BusInv, FeedInv, Persistent, ~SaveCanFail, NEW c \in Clients, Poll(c)
  PROVE  FeedInv' /\ Feed!CatchUp(c)
<1> DEFINE answer == Replay(Follows[c], lastId[c])
           N == Len(answer)
           top == answer[N]
           fresh == {i \in Feed!Beyond(c, lastId[c]) : Feed!InWindow(i)}
<1> USE DEF BusInv
<1>1. /\ answer # <<>> /\ phase[c] = "closed"
      /\ lastId' = [lastId EXCEPT ![c] = top.id]
      /\ seen' = [seen EXCEPT ![c] = @ \cup Range(answer)]
      /\ UNCHANGED <<events, nextId, disk, calls, phase, cursor, pending, wire>>
      /\ \A d \in Clients \ {c} : lastId'[d] = lastId[d]
  BY DEF Poll, TypeOK, busVars, streamVars
<1>2. /\ answer \in Seq(Event) /\ Increasing(answer)
      /\ Range(answer) = {e \in Range(events) : e.vault = Follows[c] /\ e.id > lastId[c]}
  BY ReplayLists DEF TypeOK, IdsIncreasing
<1>3. disk \in Seq(Event) /\ Increasing(disk) /\ events = Keep(disk)
  BY DEF TypeOK, IdsIncreasing, NothingLost, DequeMirrorsRows
<1> HIDE DEF answer
<1>4. N \in DOMAIN answer /\ DOMAIN answer = 1..N /\ N \in Nat
  BY <1>1, <1>2, LenProperties, EmptySeq
<1>5. \A e \in Range(answer) : ~ (top.id < e.id)
  <2> SUFFICES ASSUME NEW j \in DOMAIN answer PROVE ~ (top.id < answer[j].id)
    BY DEF Range
  <2>1. (N < j <=> top.id < answer[j].id) /\ j <= N
    BY <1>2, <1>4, LaterIsGreater
  <2> QED BY <1>4, <2>1
<1>6. \A i : i \in fresh
               <=> i \in DOMAIN disk /\ i > Len(disk) - MaxEvents
                   /\ disk[i].vault = Follows[c] /\ disk[i].id > lastId[c]
  BY DEF Feed!Beyond, Feed!Positions, Feed!InWindow
<1> HIDE DEF fresh, N
<1>7. \A e : e \in Range(answer) <=> \E i \in fresh : e = disk[i]
  BY <1>2, <1>3, <1>6, DequeIsWindow
<1>8. Range(answer) = {disk[i] : i \in fresh}
  BY <1>7
<1>9. PICK last \in fresh : disk[last] = top
  BY <1>4, <1>7 DEF Range
<1>10. \A i \in fresh : i <= last
  <2> SUFFICES ASSUME NEW i \in fresh PROVE i <= last
    OBVIOUS
  <2>1. ~ (top.id < disk[i].id)
    BY <1>5, <1>7
  <2>2. i \in Nat /\ last \in Nat /\ (last < i <=> top.id < disk[i].id)
    BY <1>3, <1>6, <1>9, LaterIsGreater
  <2> QED BY <2>1, <2>2
<1>11. Feed!CatchUp(c)
  BY <1>1, <1>8, <1>9, <1>10 DEF Feed!CatchUp, fresh
<1>12. RowsUnderWay(c)'
  BY <1>1 DEF FeedInv, RowsUnderWay
<1>13. FeedInv'
  BY <1>1, <1>12, OthersStayFed
<1> QED BY <1>11, <1>13

\* With a database that never fails the bus implements EventFeed, for any
\* clients, drops, reconnects, polls and restarts: deque, generators, wires and
\* restarts are invisible, and a client misses only what has left the window.
THEOREM BusIsAFeed ==
  ASSUME Persistent, ~SaveCanFail
  PROVE  Spec => FeedSpec
<1> DEFINE Inv == BusInv /\ FeedInv
<1>1. Init => Inv /\ Feed!Init
  <2> SUFFICES ASSUME Init PROVE FeedInv /\ Feed!Init
    BY BusInvInit
  <2>1. Range(<<>>) = {}
    BY DEF Range
  <2> QED BY <2>1 DEF Init, FeedInv, RowsUnderWay, Feed!Init
<1>2. Inv /\ [Next]_vars => Inv' /\ [Feed!Next]_(Feed!vars)
  <2> SUFFICES ASSUME Inv, [Next]_vars PROVE FeedInv' /\ [Feed!Next]_(Feed!vars)
    BY BusInvStep
  <2>1. CASE \E v \in Vaults : Publish(v) \/ PublishRaises(v)
    BY <2>1, PublishFeeds DEF Feed!Next
  <2>2. CASE Restart
    BY <2>2, RestartFeeds DEF Feed!vars
  <2>3. CASE \E c \in Clients : Stream(c)
    BY <2>3, StreamFeeds DEF Feed!vars
  <2>4. CASE \E c \in Clients : Open(c) \/ Drop(c)
    BY <2>4, ConnectionFeeds DEF Feed!vars
  <2>5. CASE \E c \in Clients : Receive(c)
    BY <2>5, ReceiveHears DEF Feed!Next
  <2>6. CASE \E c \in Clients : Poll(c)
    BY <2>6, PollCatchesUp DEF Feed!Next
  <2>7. CASE UNCHANGED vars
    <3>1. FeedInv'
      BY <2>7 DEF vars, FeedInv, RowsUnderWay, GoesOnFrom, Feed!Starts
    <3> QED BY <2>7, <3>1 DEF vars, Feed!vars
  <2> QED BY <2>1, <2>2, <2>3, <2>4, <2>5, <2>6, <2>7 DEF Next, Bus, Browser
<1> HIDE DEF Inv
<1> QED BY <1>1, <1>2, PTL DEF Spec, FeedSpec, Feed!Spec

=============================================================================
