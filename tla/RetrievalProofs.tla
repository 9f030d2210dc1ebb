-------------------------- MODULE RetrievalProofs --------------------------
(***************************************************************************)
(* Theorems of Retrieval, for every vault, every limit and every number of *)
(* runs.  First lists: what sorting, filtering, cutting and flattening one *)
(* keep, and from that what a search makes of its notes and chunks.  Then  *)
(* the invariants of the index and of the request, one lemma for each step *)
(* of the run and of the request, and the theorems.                        *)
(***************************************************************************)
EXTENDS Retrieval, FiniteSetTheorems, SequenceTheorems, WellFoundedInduction, TLAPS

-----------------------------------------------------------------------------
(* Lists. *)

\* Induction, for a set of naturals.
LEMMA Induct ==
  ASSUME NEW A, 0 \in A, \A n \in Nat : n \in A => n + 1 \in A
  PROVE  Nat \subseteq A
  <1> DEFINE Less == {p \in Nat \X Nat : p[1] < p[2]}
             B == Nat \ A
  <1>1. IsWellFoundedOn(Less, Nat)
    BY NatLessThanWellFounded DEF OpToRel
  <1>2. \A x, y \in Nat : <<x, y>> \in Less <=> x < y
    OBVIOUS
  <1> HIDE DEF Less
  <1>3. ASSUME B # {} PROVE FALSE
    <2>1. B \subseteq Nat
      OBVIOUS
    <2> HIDE DEF B
    <2>2. PICK n \in B : \A m \in B : ~(<<m, n>> \in Less)
      BY <1>1, <1>3, <2>1, WFMin
    <2>3. n \in Nat /\ n \notin A /\ n # 0
      BY <2>1, <2>2 DEF B
    <2>4. n - 1 \in Nat /\ n - 1 < n /\ n = (n - 1) + 1
      BY <2>3
    <2>5. n - 1 \notin B
      BY <1>2, <2>2, <2>3, <2>4
    <2>6. n - 1 \in A
      BY <2>4, <2>5 DEF B
    <2> QED  BY <2>3, <2>4, <2>6
  <1> QED  BY <1>3

\* The members of a finite set listed by the number of members before each:
\* every member once, in the order R.
LEMMA Listing ==
  ASSUME NEW S, IsFiniteSet(S), NEW R,
         \A i \in S : <<i, i>> \notin R,
         \A i, j \in S : i = j \/ <<i, j>> \in R \/ <<j, i>> \in R,
         \A i, j, k \in S : <<i, j>> \in R /\ <<j, k>> \in R => <<i, k>> \in R,
         NEW f, f = [k \in 1..Cardinality(S) |-> f[k]],
         \A k \in 1..Cardinality(S) : \A i \in S :
           Cardinality({j \in S : <<j, i>> \in R}) = k - 1 =>
             f[k] \in S /\ Cardinality({j \in S : <<j, f[k]>> \in R}) = k - 1
  PROVE  /\ Cardinality(S) \in Nat
         /\ f \in [1..Cardinality(S) -> S]
         /\ \A i \in S : \E k \in 1..Cardinality(S) : f[k] = i
         /\ \A j, k \in 1..Cardinality(S) : j < k => <<f[j], f[k]>> \in R
  <1> DEFINE N == Cardinality(S)
             Below(i) == {j \in S : <<j, i>> \in R}
             r == [i \in S |-> Cardinality(Below(i)) + 1]
  <1>1. N \in Nat
    BY FS_CardinalityType
  <1>2. \A i \in S : Cardinality(Below(i)) \in Nat /\ Cardinality(Below(i)) < N
    <2> TAKE i \in S
    <2>1. Below(i) \in SUBSET S /\ Below(i) # S
      OBVIOUS
    <2> HIDE DEF Below
    <2>2. /\ IsFiniteSet(Below(i)) /\ Cardinality(Below(i)) <= N
          /\ Cardinality(Below(i)) # N
      BY <2>1, FS_Subset
    <2>3. Cardinality(Below(i)) \in Nat
      BY <2>2, FS_CardinalityType
    <2> QED  BY <1>1, <2>2, <2>3
  <1>3. \A i, j \in S : <<i, j>> \in R => Cardinality(Below(i)) < Cardinality(Below(j))
    <2> SUFFICES ASSUME NEW i \in S, NEW j \in S, <<i, j>> \in R
                 PROVE  Cardinality(Below(i)) < Cardinality(Below(j))
      OBVIOUS
    <2>1. Below(i) \in SUBSET Below(j) /\ i \in Below(j) /\ i \notin Below(i)
      OBVIOUS
    <2>2. IsFiniteSet(Below(j))
      BY FS_Subset
    <2>3. Cardinality(Below(i)) <= Cardinality(Below(j))
          /\ Cardinality(Below(i)) # Cardinality(Below(j))
      BY <2>1, <2>2, FS_Subset
    <2> QED  BY <1>2, <2>3
  <1> HIDE DEF Below
  <1>4. r \in [S -> 1..N]
    BY <1>1, <1>2
  <1>5. \A i, j \in S : r[i] = r[j] => i = j
    <2> SUFFICES ASSUME NEW i \in S, NEW j \in S, i # j
                 PROVE  Cardinality(Below(i)) # Cardinality(Below(j))
      BY <1>2
    <2>1. \/ Cardinality(Below(i)) < Cardinality(Below(j))
          \/ Cardinality(Below(j)) < Cardinality(Below(i))
      BY <1>3
    <2> QED  BY <1>2, <2>1
  <1>6. r \in Injection(S, 1..N)
    BY <1>4, <1>5 DEF Injection, IsInjective
  <1>7. IsFiniteSet(1..N) /\ Cardinality(1..N) = N
    BY <1>1, FS_Interval
  <1>8. r \in Surjection(S, 1..N)
    BY <1>6, <1>7, FS_Injection
  <1>9. \A k \in 1..N : \E i \in S : Cardinality(Below(i)) = k - 1
    <2> TAKE k \in 1..N
    <2>1. PICK i \in S : r[i] = k
      BY <1>8 DEF Surjection
    <2> QED  BY <1>1, <1>2, <2>1
  <1>10. /\ f = [k \in 1..N |-> f[k]]
         /\ \A k \in 1..N : \A i \in S :
              Cardinality(Below(i)) = k - 1 => f[k] \in S /\ Cardinality(Below(f[k])) = k - 1
    BY DEF Below
  <1> HIDE DEF N
  <1>11. \A k \in 1..N : f[k] \in S /\ Cardinality(Below(f[k])) = k - 1
    BY <1>9, <1>10
  <1>12. f \in [1..N -> S]
    BY <1>10, <1>11
  <1>13. \A i \in S : \E k \in 1..N : f[k] = i
    <2> TAKE i \in S
    <2>1. r[i] \in 1..N /\ Cardinality(Below(f[r[i]])) = r[i] - 1 /\ f[r[i]] \in S
      BY <1>4, <1>11
    <2>2. r[f[r[i]]] = r[i]
      BY <1>2, <2>1
    <2> QED  BY <1>5, <2>1, <2>2
  <1>14. \A j, k \in 1..N : j < k => <<f[j], f[k]>> \in R
    <2> SUFFICES ASSUME NEW j \in 1..N, NEW k \in 1..N, j < k
                 PROVE  <<f[j], f[k]>> \in R
      OBVIOUS
    <2>1. f[j] \in S /\ f[k] \in S /\ Cardinality(Below(f[j])) < Cardinality(Below(f[k]))
      <3>1. /\ f[j] \in S /\ Cardinality(Below(f[j])) = j - 1
            /\ f[k] \in S /\ Cardinality(Below(f[k])) = k - 1
        BY <1>11
      <3>2. j \in Int /\ k \in Int
        BY <1>1
      <3> QED  BY <3>1, <3>2
    <2>2. ~(Cardinality(Below(f[k])) < Cardinality(Below(f[j]))) /\ f[j] # f[k]
      BY <1>2, <2>1
    <2> QED  BY <1>3, <2>1, <2>2
  <1> QED  BY <1>1, <1>12, <1>13, <1>14 DEF N

\* Naturals in ascending order.
LEMMA Ascending ==
  ASSUME NEW I \in SUBSET Nat, IsFiniteSet(I)
  PROVE  /\ Cardinality(I) \in Nat
         /\ InOrder(I, <) \in [1..Cardinality(I) -> I]
         /\ \A i \in I : \E k \in 1..Cardinality(I) : InOrder(I, <)[k] = i
         /\ \A j, k \in 1..Cardinality(I) : j < k => InOrder(I, <)[j] < InOrder(I, <)[k]
  <1> DEFINE R == {x \in I \X I : x[1] < x[2]}
             f == InOrder(I, <)
  <1>1. \A i, j \in I : i \in Nat /\ j \in Nat /\ (<<i, j>> \in R <=> i < j)
    OBVIOUS
  <1>2. \A i \in I : {j \in I : <<j, i>> \in R} = {j \in I : j < i}
    BY <1>1
  <1> HIDE DEF R
  <1>3. f = [k \in 1..Cardinality(I) |-> f[k]]
    BY DEF InOrder
  <1>4. ASSUME NEW k \in 1..Cardinality(I), NEW i \in I,
               Cardinality({j \in I : <<j, i>> \in R}) = k - 1
        PROVE  f[k] \in I /\ Cardinality({j \in I : <<j, f[k]>> \in R}) = k - 1
    <2>1. f[k] = CHOOSE x \in I : Cardinality({j \in I : j < x}) = k - 1
      BY DEF InOrder
    <2>2. Cardinality({j \in I : j < i}) = k - 1
      BY <1>2, <1>4
    <2>3. f[k] \in I /\ Cardinality({j \in I : j < f[k]}) = k - 1
      BY <2>1, <2>2
    <2> QED  BY <1>2, <2>3
  <1> HIDE DEF f
  <1>5. /\ \A i \in I : <<i, i>> \notin R
        /\ \A i, j \in I : i = j \/ <<i, j>> \in R \/ <<j, i>> \in R
        /\ \A i, j, k \in I : <<i, j>> \in R /\ <<j, k>> \in R => <<i, k>> \in R
    BY <1>1
  <1>6. /\ Cardinality(I) \in Nat
        /\ f \in [1..Cardinality(I) -> I]
        /\ \A i \in I : \E k \in 1..Cardinality(I) : f[k] = i
        /\ \A j, k \in 1..Cardinality(I) : j < k => <<f[j], f[k]>> \in R
    BY <1>3, <1>4, <1>5, Listing
  <1>7. \A j, k \in 1..Cardinality(I) : j < k => f[j] < f[k]
    BY <1>1, <1>6
  <1> QED  BY <1>6, <1>7 DEF f

\* The positions a comprehension keeps, in their order.
LEMMA SelectKeeps ==
  ASSUME NEW T, NEW items \in Seq(T), NEW I \in SUBSET DOMAIN items
  PROVE  /\ Select(items, I) \in Seq(T)
         /\ \E p \in [1..Len(Select(items, I)) -> I] :
              /\ \A k \in 1..Len(Select(items, I)) : Select(items, I)[k] = items[p[k]]
              /\ \A j, k \in 1..Len(Select(items, I)) : j < k => p[j] < p[k]
              /\ \A i \in I : \E k \in 1..Len(Select(items, I)) : p[k] = i
  <1> DEFINE n == Cardinality(I)
             p == InOrder(I, <)
  <1>1. DOMAIN items = 1..Len(items) /\ Len(items) \in Nat
        /\ \A i \in DOMAIN items : items[i] \in T
    OBVIOUS
  <1>2. I \in SUBSET Nat /\ IsFiniteSet(I)
    <2>1. I \in SUBSET (1..Len(items)) /\ IsFiniteSet(1..Len(items))
      BY <1>1, FS_Interval
    <2> QED  BY <2>1, FS_Subset
  <1>3. /\ n \in Nat /\ p \in [1..n -> I]
        /\ \A i \in I : \E k \in 1..n : p[k] = i
        /\ \A j, k \in 1..n : j < k => p[j] < p[k]
    BY <1>2, Ascending
  <1>4. Select(items, I) = [k \in DOMAIN p |-> items[p[k]]]
    BY DEF Select
  <1> HIDE DEF n, p
  <1>5. Select(items, I) \in [1..n -> T] /\ \A k \in 1..n : Select(items, I)[k] = items[p[k]]
    BY <1>1, <1>3, <1>4
  <1>6. Select(items, I) \in Seq(T) /\ Len(Select(items, I)) = n
    BY <1>3, <1>5
  <1> QED  BY <1>3, <1>5, <1>6

\* Item i comes before item j when it is better, or as good and earlier.
Better(items, i, j) ==
  \/ items[i].score > items[j].score
  \/ items[i].score = items[j].score /\ i < j

BestFirst(items, S) == InOrder(S, LAMBDA i, j : Better(items, i, j))

\* Some positions of a list, best first.
LEMMA BestFirstLists ==
  ASSUME NEW T, \A x \in T : x.score \in Int, NEW items \in Seq(T),
         NEW S \in SUBSET DOMAIN items
  PROVE  /\ Cardinality(S) \in Nat
         /\ BestFirst(items, S) \in [1..Cardinality(S) -> S]
         /\ \A i \in S : \E k \in 1..Cardinality(S) : BestFirst(items, S)[k] = i
         /\ \A j, k \in 1..Cardinality(S) :
              j < k => Better(items, BestFirst(items, S)[j], BestFirst(items, S)[k])
  <1> DEFINE Before(i, j) == Better(items, i, j)
             R == {x \in S \X S : Before(x[1], x[2])}
             f == BestFirst(items, S)
             g(k) == CHOOSE i \in S : Cardinality({j \in S : Before(j, i)}) = k - 1
  <1>1. \A i \in S : items[i] \in T /\ items[i].score \in Int /\ i \in Int
    OBVIOUS
  <1>2. IsFiniteSet(S)
    <2>1. Len(items) \in Nat /\ S \in SUBSET (1..Len(items))
      OBVIOUS
    <2> QED  BY <2>1, FS_Interval, FS_Subset
  <1>3. \A i, j \in S : <<i, j>> \in R <=> Before(i, j)
    OBVIOUS
  <1>4. \A i \in S : {j \in S : <<j, i>> \in R} = {j \in S : Before(j, i)}
    BY <1>3
  <1> HIDE DEF Before, R
  <1>5. f = [k \in 1..Cardinality(S) |-> g(k)]
    BY DEF InOrder, BestFirst, Before
  <1> HIDE DEF f
  <1>6. ASSUME NEW k \in 1..Cardinality(S), NEW i \in S,
               Cardinality({j \in S : <<j, i>> \in R}) = k - 1
        PROVE  f[k] \in S /\ Cardinality({j \in S : <<j, f[k]>> \in R}) = k - 1
    <2>1. Cardinality({j \in S : Before(j, i)}) = k - 1
      BY <1>4, <1>6
    <2>2. f[k] \in S /\ Cardinality({j \in S : Before(j, f[k])}) = k - 1
      BY <1>5, <2>1
    <2> QED  BY <1>4, <2>2
  <1> HIDE DEF g
  <1>7. f = [k \in 1..Cardinality(S) |-> f[k]]
    BY <1>5
  <1>8. \A i, j \in S : ~Before(i, i) /\ (i = j \/ Before(i, j) \/ Before(j, i))
    BY <1>1 DEF Before, Better
  <1>9. \A i, j, k \in S : Before(i, j) /\ Before(j, k) => Before(i, k)
    BY <1>1 DEF Before, Better
  <1>10. /\ \A i \in S : <<i, i>> \notin R
         /\ \A i, j \in S : i = j \/ <<i, j>> \in R \/ <<j, i>> \in R
         /\ \A i, j, k \in S : <<i, j>> \in R /\ <<j, k>> \in R => <<i, k>> \in R
    BY <1>3, <1>8, <1>9
  <1>11. /\ Cardinality(S) \in Nat
         /\ f \in [1..Cardinality(S) -> S]
         /\ \A i \in S : \E k \in 1..Cardinality(S) : f[k] = i
         /\ \A j, k \in 1..Cardinality(S) : j < k => <<f[j], f[k]>> \in R
    BY <1>2, <1>6, <1>7, <1>10, Listing
  <1>12. \A j, k \in 1..Cardinality(S) : j < k => Better(items, f[j], f[k])
    BY <1>3, <1>11 DEF Before
  <1> QED  BY <1>11, <1>12 DEF f

\* There is a best position.
LEMMA BestExists ==
  ASSUME NEW T, \A x \in T : x.score \in Int, NEW items \in Seq(T),
         NEW S \in SUBSET DOMAIN items, S # {}
  PROVE  \E i \in S : \A j \in S : \/ items[j].score < items[i].score
                                   \/ items[j].score = items[i].score /\ i <= j
  <1> DEFINE f == BestFirst(items, S)
             n == Cardinality(S)
  <1>1. /\ n \in Nat /\ f \in [1..n -> S]
        /\ \A i \in S : \E k \in 1..n : f[k] = i
        /\ \A j, k \in 1..n : j < k => Better(items, f[j], f[k])
    BY BestFirstLists
  <1> HIDE DEF f, n
  <1>2. 1 \in 1..n /\ f[1] \in S
    BY <1>1
  <1>3. \A j \in S : j = f[1] \/ Better(items, f[1], j)
    <2> TAKE j \in S
    <2>1. PICK k \in 1..n : f[k] = j
      BY <1>1
    <2>2. k = 1 \/ 1 < k
      BY <1>1
    <2> QED  BY <1>1, <1>2, <2>1, <2>2
  <1>4. \A j \in S : items[j].score \in Int /\ j \in Int
    OBVIOUS
  <1> QED  BY <1>2, <1>3, <1>4 DEF Better

\* p takes the first n positions to positions of items, no two to one.
Takes(p, n, items) ==
  /\ p \in [1..n -> 1..Len(items)]
  /\ \A j, k \in 1..n : p[j] = p[k] => j = k

\* Sorting keeps every item once, best first.
LEMMA RankedSorts ==
  ASSUME NEW T, \A x \in T : x.score \in Int, NEW items \in Seq(T)
  PROVE  /\ Ranked(items) \in Seq(T) /\ Len(Ranked(items)) = Len(items)
         /\ \A j, k \in 1..Len(items) :
              j < k => Ranked(items)[j].score >= Ranked(items)[k].score
         /\ \E p :
              /\ Takes(p, Len(items), items)
              /\ \A k \in 1..Len(items) : Ranked(items)[k] = items[p[k]]
              /\ \A i \in 1..Len(items) : \E k \in 1..Len(items) : p[k] = i
  <1> DEFINE n == Len(items)
             S == 1..n
             f == BestFirst(items, DOMAIN items)
  <1>1. /\ n \in Nat /\ DOMAIN items = S
        /\ \A i \in S : items[i] \in T /\ items[i].score \in Int /\ i \in Int
    OBVIOUS
  <1>2. Cardinality(S) = n
    <2> HIDE DEF n
    <2> QED  BY <1>1, FS_Interval
  <1>3. Ranked(items) = [k \in DOMAIN f |-> items[f[k]]]
    BY DEF Ranked, BestFirst, Better, InOrder
  <1>4. /\ f \in [S -> S] /\ DOMAIN f = S
        /\ \A i \in S : \E k \in S : f[k] = i
        /\ \A j, k \in S : j < k => Better(items, f[j], f[k])
    <2> HIDE DEF f, S
    <2>1. S \in SUBSET DOMAIN items /\ f = BestFirst(items, S)
      BY <1>1 DEF f
    <2>2. /\ f \in [1..Cardinality(S) -> S]
          /\ \A i \in S : \E k \in 1..Cardinality(S) : f[k] = i
          /\ \A j, k \in 1..Cardinality(S) : j < k => Better(items, f[j], f[k])
      BY <2>1, BestFirstLists
    <2>3. 1..Cardinality(S) = S
      BY <1>2 DEF S
    <2> QED  BY <2>2, <2>3
  <1> HIDE DEF f, S
  <1>5. /\ Ranked(items) \in [S -> T]
        /\ \A k \in S : Ranked(items)[k] = items[f[k]]
    BY <1>1, <1>3, <1>4
  <1>6. Ranked(items) \in Seq(T) /\ Len(Ranked(items)) = n
    <2> HIDE DEF n
    <2> QED  BY <1>1, <1>5 DEF S
  <1>7. \A j, k \in S : j < k => Ranked(items)[j].score >= Ranked(items)[k].score
    <2> TAKE j, k \in S
    <2>1. f[j] \in S /\ f[k] \in S
      BY <1>4
    <2>2. Ranked(items)[j] = items[f[j]] /\ Ranked(items)[k] = items[f[k]]
      BY <1>5
    <2>3. items[f[j]].score \in Int /\ items[f[k]].score \in Int
      BY <1>1, <2>1
    <2>4. j < k => Better(items, f[j], f[k])
      BY <1>4
    <2> QED  BY <2>2, <2>3, <2>4 DEF Better
  <1>8. \A j, k \in S : f[j] = f[k] => j = k
    <2> SUFFICES ASSUME NEW j \in S, NEW k \in S, j # k PROVE f[j] # f[k]
      OBVIOUS
    <2>1. j < k \/ k < j
      BY <1>1
    <2>2. \A i \in S : ~Better(items, i, i)
      BY <1>1 DEF Better
    <2> QED  BY <1>4, <2>1, <2>2
  <1>9. Takes(f, n, items)
    BY <1>4, <1>8 DEF S, Takes
  <1> QED  BY <1>4, <1>5, <1>6, <1>7, <1>9 DEF S

\* t has some of the items; what is left out is left out for n that are as good.
BestOf(t, items, n) ==
  \E p : /\ Takes(p, Len(t), items)
         /\ \A k \in 1..Len(t) : t[k] = items[p[k]]
         /\ \A i \in 1..Len(items) :
              \/ \E k \in 1..Len(t) : p[k] = i
              \/ Len(t) = n /\ \A k \in 1..n : t[k].score >= items[i].score

\* The n best items, and what is left out for them.
LEMMA TopRanked ==
  ASSUME NEW T, \A x \in T : x.score \in Int, NEW items \in Seq(T), NEW n \in Nat,
         NEW t, t = Top(Ranked(items), n)
  PROVE  /\ t \in Seq(T) /\ Len(t) \in Nat /\ Len(t) <= n
         /\ Len(t) = n \/ Len(t) = Len(items)
         /\ \A j, k \in 1..Len(t) : j < k => t[j].score >= t[k].score
         /\ BestOf(t, items, n)
  <1> DEFINE N == Len(items)
             r == Ranked(items)
             m == Len(t)
  <1>1. N \in Nat /\ \A i \in 1..N : items[i].score \in Int
    OBVIOUS
  <1>2. /\ r \in Seq(T) /\ Len(r) = N
        /\ \A j, k \in 1..N : j < k => r[j].score >= r[k].score
    BY RankedSorts
  <1>3. PICK p : /\ Takes(p, N, items)
                 /\ \A k \in 1..N : r[k] = items[p[k]]
                 /\ \A i \in 1..N : \E k \in 1..N : p[k] = i
    BY RankedSorts
  <1>4. t = SubSeq(r, 1, IF n < N THEN n ELSE N)
    BY <1>2 DEF Top
  <1> HIDE DEF r
  <1>5. /\ t \in Seq(T) /\ m = (IF n < N THEN n ELSE N)
        /\ \A k \in 1..m : t[k] = r[k]
    <2> HIDE DEF N
    <2> QED  BY <1>1, <1>2, <1>4
  <1> HIDE DEF N, m
  <1>6. m \in Nat /\ m <= n /\ m <= N /\ (m = n \/ m = N) /\ \A k \in 1..m : k \in 1..N
    BY <1>1, <1>5
  <1>7. \A j, k \in 1..m : j < k => t[j].score >= t[k].score
    BY <1>2, <1>5, <1>6
  <1> DEFINE q == [k \in 1..m |-> p[k]]
  <1>8. /\ Takes(q, m, items)
        /\ \A k \in 1..m : t[k] = items[q[k]]
    BY <1>3, <1>5, <1>6 DEF Takes, N
  <1>9. ASSUME NEW i \in 1..N, \A k \in 1..m : q[k] # i
        PROVE  m = n /\ \A k \in 1..n : t[k].score >= items[i].score
    <2>1. PICK x \in 1..N : p[x] = i
      BY <1>3
    <2>2. x > m /\ m = n
      BY <1>1, <1>6, <1>9, <2>1
    <2>3. \A k \in 1..n : t[k].score >= items[i].score
      <3> TAKE k \in 1..n
      <3>1. k \in 1..N /\ k < x /\ k \in 1..m
        BY <1>1, <1>6, <2>2
      <3> QED  BY <1>2, <1>3, <1>5, <2>1, <3>1
    <2> QED  BY <2>2, <2>3
  <1> HIDE DEF q
  <1>10. \E z :
           /\ Takes(z, m, items)
           /\ \A k \in 1..m : t[k] = items[z[k]]
           /\ \A i \in 1..N :
                \/ \E k \in 1..m : z[k] = i
                \/ m = n /\ \A k \in 1..n : t[k].score >= items[i].score
    BY <1>8, <1>9
  <1>11. BestOf(t, items, n)
    BY <1>10 DEF N, m, BestOf
  <1> QED  BY <1>5, <1>6, <1>7, <1>11 DEF N, m

\* flat has every item of the first n lists of ss, each at a place of its own.
Places(at, flat, ss, n) ==
  /\ at \in [DOMAIN flat -> (1..n) \X Nat]
  /\ \A k \in DOMAIN flat : /\ at[k][2] \in DOMAIN ss[at[k][1]]
                           /\ flat[k] = ss[at[k][1]][at[k][2]]
  /\ \A j, k \in DOMAIN flat : at[j] = at[k] => j = k
  /\ \A i \in 1..n : \A j \in DOMAIN ss[i] : \E k \in DOMAIN flat : at[k] = <<i, j>>

Located(flat, ss, n) == \E at : Places(at, flat, ss, n)

LEMMA LocatedAppend ==
  ASSUME NEW T, NEW n \in Nat, NEW ss, \A i \in 1..n+1 : ss[i] \in Seq(T),
         NEW flat \in Seq(T), Located(flat, ss, n)
  PROVE  Located(flat \o ss[n + 1], ss, n + 1)
  <1> DEFINE last == ss[n + 1]
             N == Len(flat)
             M == Len(last)
             F == flat \o last
  <1>1. /\ last \in Seq(T) /\ N \in Nat /\ M \in Nat /\ DOMAIN flat = 1..N /\ DOMAIN last = 1..M
    OBVIOUS
  <1>2. /\ DOMAIN F = 1..N+M
        /\ \A k \in 1..N : F[k] = flat[k]
        /\ \A k \in N+1..N+M : F[k] = last[k - N]
    BY <1>1
  <1>0. PICK at : Places(at, flat, ss, n)
    BY DEF Located
  <1>3. /\ at \in [1..N -> (1..n) \X Nat]
        /\ \A k \in 1..N : at[k][2] \in DOMAIN ss[at[k][1]] /\ flat[k] = ss[at[k][1]][at[k][2]]
        /\ \A j, k \in 1..N : at[j] = at[k] => j = k
        /\ \A i \in 1..n : \A j \in DOMAIN ss[i] : \E k \in 1..N : at[k] = <<i, j>>
    BY <1>0, <1>1 DEF Places
  <1> DEFINE new == [k \in 1..N+M |-> IF k <= N THEN at[k] ELSE <<n + 1, k - N>>]
  <1> HIDE DEF F, N, M, last
  <1>4. \A k \in 1..N+M : k \in 1..N \/ (k \in N+1..N+M /\ k - N \in 1..M)
    BY <1>1
  <1>5. \A k \in 1..N : k \in 1..N+M /\ new[k] = at[k] /\ at[k] \in (1..n) \X Nat
    BY <1>1, <1>3
  <1>6. \A k \in N+1..N+M : k \in 1..N+M /\ new[k] = <<n + 1, k - N>> /\ k - N \in 1..M
    BY <1>1
  <1> HIDE DEF new
  <1>7. \A k \in 1..N+M : new[k] \in (1..n+1) \X Nat
    <2> TAKE k \in 1..N+M
    <2>1. CASE k \in 1..N
      BY <1>5, <2>1
    <2>2. CASE k \in N+1..N+M /\ k - N \in 1..M
      <3>1. k - N \in Nat /\ n + 1 \in 1..n+1
        BY <1>1, <2>2
      <3>2. \A x, y : x \in 1..n+1 /\ y \in Nat => <<x, y>> \in (1..n+1) \X Nat
        OBVIOUS
      <3>3. <<n + 1, k - N>> \in (1..n+1) \X Nat
        BY <3>1, <3>2
      <3>4. new[k] = <<n + 1, k - N>>
        BY <1>6, <2>2
      <3> QED  BY <3>3, <3>4
    <2> QED  BY <1>4, <2>1, <2>2
  <1>8. new \in [1..N+M -> (1..n+1) \X Nat]
    BY <1>7 DEF new
  <1>9. \A k \in 1..N+M : new[k][2] \in DOMAIN ss[new[k][1]] /\ F[k] = ss[new[k][1]][new[k][2]]
    <2> TAKE k \in 1..N+M
    <2>1. CASE k \in 1..N
      BY <1>1, <1>2, <1>3, <1>5, <2>1
    <2>2. CASE k \in N+1..N+M /\ k - N \in 1..M
      <3>1. new[k][1] = n + 1 /\ new[k][2] = k - N
        BY <1>6, <2>2
      <3>2. F[k] = last[k - N] /\ k - N \in DOMAIN last
        BY <1>1, <1>2, <2>2
      <3> QED  BY <3>1, <3>2 DEF last
    <2> QED  BY <1>4, <2>1, <2>2
  <1>10. \A j, k \in 1..N+M : new[j] = new[k] => j = k
    <2> SUFFICES ASSUME NEW j \in 1..N+M, NEW k \in 1..N+M, new[j] = new[k] PROVE j = k
      OBVIOUS
    <2>1. CASE j \in 1..N /\ k \in 1..N
      BY <1>1, <1>3, <1>5, <2>1
    <2>2. CASE j \in N+1..N+M /\ k \in N+1..N+M
      BY <1>1, <1>6, <2>2
    <2>3. CASE j \in 1..N /\ k \in N+1..N+M
      BY <1>5, <1>6, <2>3
    <2>4. CASE k \in 1..N /\ j \in N+1..N+M
      BY <1>5, <1>6, <2>4
    <2> QED  BY <1>4, <2>1, <2>2, <2>3, <2>4
  <1>11. ASSUME NEW i \in 1..n+1, NEW j \in DOMAIN ss[i]
         PROVE  \E k \in 1..N+M : new[k] = <<i, j>>
    <2>1. CASE i \in 1..n
      <3>1. PICK k \in 1..N : at[k] = <<i, j>>
        BY <1>1, <1>3, <2>1
      <3> QED  BY <1>5, <3>1
    <2>2. CASE i = n + 1
      <3>1. j \in 1..M
        BY <1>1, <2>2 DEF last
      <3>2. N + j \in N+1..N+M /\ (N + j) - N = j
        BY <1>1, <3>1
      <3> QED  BY <1>6, <2>2, <3>2
    <2> QED  BY <2>1, <2>2
  <1>12. \A i \in 1..n+1 : \A j \in DOMAIN ss[i] : \E k \in DOMAIN F : new[k] = <<i, j>>
    BY <1>2, <1>11
  <1>13. Places(new, F, ss, n + 1)
    BY <1>2, <1>8, <1>9, <1>10, <1>12 DEF Places
  <1> QED  BY <1>13 DEF Located, F, last

\* FlattenSeq has every item of every list, at a place of its own.
LEMMA Flattened ==
  ASSUME NEW T, NEW ss \in Seq(Seq(T))
  PROVE  FlattenSeq(ss) \in Seq(T) /\ Located(FlattenSeq(ss), ss, Len(ss))
  <1> DEFINE N == Len(ss)
             Folds(f, n) == \A i \in 1..n : f[i] = IF i = 1 THEN ss[i] ELSE f[i-1] \o ss[i]
             A == {n \in Nat : n <= N => \E f : Folds(f, n)}
  <1>1. N \in Nat /\ \A i \in 1..N : ss[i] \in Seq(T)
    OBVIOUS
  <1>2. CASE N = 0
    <2>1. FlattenSeq(ss) = ss /\ ss \in Seq(T) /\ DOMAIN ss = {}
      BY <1>2 DEF FlattenSeq
    <2>2. Places(ss, ss, ss, 0)
      BY <2>1 DEF Places
    <2>3. Located(ss, ss, 0)
      BY <2>2 DEF Located
    <2> QED  BY <1>2, <2>1, <2>3
  <1>3. CASE N # 0
    <2> DEFINE flatten == CHOOSE f : f = [i \in 1..N |-> IF i = 1 THEN ss[i] ELSE f[i-1] \o ss[i]]
    <2>1. FlattenSeq(ss) = flatten[N]
      BY <1>3 DEF FlattenSeq
    <2>2. \E f : f = [i \in 1..N |-> IF i = 1 THEN ss[i] ELSE f[i-1] \o ss[i]]
      <3> HIDE DEF N
      <3>1. 0 \in A
        OBVIOUS
      <3>2. ASSUME NEW n \in Nat, n \in A PROVE n + 1 \in A
        <4> SUFFICES ASSUME n + 1 <= N PROVE \E f : Folds(f, n + 1)
          OBVIOUS
        <4>1. PICK f : Folds(f, n)
          BY <1>1, <3>2
        <4> DEFINE g == [i \in 1..n+1 |-> IF i <= n THEN f[i]
                                          ELSE IF i = 1 THEN ss[i] ELSE f[i-1] \o ss[i]]
        <4>2. Folds(g, n + 1)
          BY <4>1
        <4> HIDE DEF g
        <4>3. \E h : Folds(h, n + 1)
          <5> HIDE DEF Folds
          <5> QED  BY <4>2
        <4> QED  BY <4>3
      <3>3. N \in A
        <4> HIDE DEF A
        <4> QED  BY <1>1, <3>1, <3>2, Induct
      <3>4. PICK f : Folds(f, N)
        BY <1>1, <3>3
      <3> DEFINE g == [i \in 1..N |-> f[i]]
      <3>5. g = [i \in 1..N |-> IF i = 1 THEN ss[i] ELSE g[i-1] \o ss[i]]
        BY <1>1, <3>4
      <3> HIDE DEF g
      <3> QED  BY <3>5
    <2>3. flatten = [i \in 1..N |-> IF i = 1 THEN ss[i] ELSE flatten[i-1] \o ss[i]]
      <3> DEFINE P(f) == f = [i \in 1..N |-> IF i = 1 THEN ss[i] ELSE f[i-1] \o ss[i]]
      <3>1. (\E f : P(f)) /\ flatten = CHOOSE f : P(f)
        BY <2>2
      <3> HIDE DEF P, flatten
      <3>2. P(flatten)
        BY <3>1
      <3> QED  BY <3>2 DEF P
    <2> HIDE DEF flatten
    <2> DEFINE B == {n \in Nat : n + 1 <= N => /\ flatten[n + 1] \in Seq(T)
                                             /\ Located(flatten[n + 1], ss, n + 1)}
    <2> HIDE DEF N
    <2>4. 0 \in B
      <3>1. flatten[1] = ss[1] /\ ss[1] \in Seq(T)
        BY <1>1, <1>3, <2>3
      <3>2. Located(ss[1], ss, 1)
        <4> DEFINE at == [k \in DOMAIN ss[1] |-> <<1, k>>]
        <4>1. at \in [DOMAIN ss[1] -> (1..1) \X Nat]
          BY <3>1
        <4>2. \A k \in DOMAIN ss[1] : at[k] = <<1, k>> /\ at[k][1] = 1 /\ at[k][2] = k
          OBVIOUS
        <4>3. \A i \in 1..1 : i = 1
          OBVIOUS
        <4> HIDE DEF at
        <4>4. Places(at, ss[1], ss, 1)
          BY <4>1, <4>2, <4>3 DEF Places
        <4> QED  BY <4>4 DEF Located
      <3> QED  BY <3>1, <3>2
    <2>5. ASSUME NEW n \in Nat, n \in B PROVE n + 1 \in B
      <3> SUFFICES ASSUME (n + 1) + 1 <= N
                   PROVE  /\ flatten[(n + 1) + 1] \in Seq(T)
                          /\ Located(flatten[(n + 1) + 1], ss, (n + 1) + 1)
        OBVIOUS
      <3>1. flatten[n + 1] \in Seq(T) /\ Located(flatten[n + 1], ss, n + 1)
        BY <1>1, <2>5
      <3>2. flatten[(n + 1) + 1] = flatten[n + 1] \o ss[(n + 1) + 1]
        <4>1. (n + 1) + 1 \in 1..N /\ (n + 1) + 1 # 1 /\ ((n + 1) + 1) - 1 = n + 1
          BY <1>1
        <4>2. \A i \in 1..N : flatten[i] = IF i = 1 THEN ss[i] ELSE flatten[i-1] \o ss[i]
          BY <2>3
        <4> QED  BY <4>1, <4>2
      <3>3. n + 1 \in Nat /\ \A i \in 1..(n + 1) + 1 : ss[i] \in Seq(T)
        BY <1>1
      <3>4. Located(flatten[n + 1] \o ss[(n + 1) + 1], ss, (n + 1) + 1)
        BY <3>1, <3>3, LocatedAppend
      <3> QED  BY <3>1, <3>2, <3>3, <3>4
    <2>6. N - 1 \in B
      <3> HIDE DEF B
      <3>1. N - 1 \in Nat
        BY <1>1, <1>3
      <3>2. \A n \in Nat : n \in B => n + 1 \in B
        BY <2>5
      <3>3. Nat \subseteq B
        BY <2>4, <3>2, Induct
      <3> QED  BY <3>1, <3>3
    <2>7. flatten[N] \in Seq(T) /\ Located(flatten[N], ss, N)
      <3>1. (N - 1) + 1 = N
        BY <1>1
      <3> QED  BY <1>1, <2>6, <3>1
    <2> QED  BY <2>1, <2>7 DEF N
  <1> QED  BY <1>2, <1>3

-----------------------------------------------------------------------------
(* What a search makes of its notes and of the chunks its query gave it. *)

Note == [id : Ids, text : Text]
Chunk == [chunk : Ids \X Nat, score : Int, text : Text]
Match == [id : Ids, content : Text, score : Int, match : {"keyword", "semantic"}, snippet : Text]

\* A list of notes, each of them once.
NotesOK(notes) ==
  /\ notes \in Seq(Note)
  /\ \A j, k \in DOMAIN notes : notes[j].id = notes[k].id => j = k

\* The answers a search may give from some notes.
WellFormed(found, notes) ==
  /\ found \in Seq(Match) /\ Len(found) <= Limit
  /\ \A j, k \in DOMAIN found : found[j].id = found[k].id => j = k
  /\ \A j, k \in DOMAIN found : j < k => found[j].score >= found[k].score
  /\ \A k \in DOMAIN found :
       \E i \in DOMAIN notes : notes[i].id = found[k].id /\ notes[i].text = found[k].content

LEMMA LexicalType ==
  ASSUME NEW text \in Text PROVE Lexical(text) \in Int
  BY DEF Lexical, Text

\* Cutting a list of results that are each of another note.
LEMMA TopWellFormed ==
  ASSUME NEW notes, NEW items \in Seq(Match),
         \A j, k \in DOMAIN items : items[j].id = items[k].id => j = k,
         \A k \in DOMAIN items : \E i \in DOMAIN notes :
           notes[i].id = items[k].id /\ notes[i].text = items[k].content
  PROVE  WellFormed(Top(Ranked(items), Limit), notes)
  <1> DEFINE t == Top(Ranked(items), Limit)
  <1>1. Limit \in Nat /\ \A x \in Match : x.score \in Int
    BY LimitAssumption DEF Match
  <1>2. /\ t \in Seq(Match) /\ Len(t) \in Nat /\ Len(t) <= Limit
        /\ \A j, k \in 1..Len(t) : j < k => t[j].score >= t[k].score
    BY <1>1, TopRanked
  <1>3. BestOf(t, items, Limit)
    BY <1>1, TopRanked
  <1> HIDE DEF t
  <1>3a. PICK p : Takes(p, Len(t), items) /\ \A k \in 1..Len(t) : t[k] = items[p[k]]
    BY <1>3 DEF BestOf
  <1>4. DOMAIN t = 1..Len(t) /\ DOMAIN items = 1..Len(items)
    BY <1>2
  <1>5. \A k \in DOMAIN t : p[k] \in DOMAIN items /\ t[k] = items[p[k]]
    BY <1>3a, <1>4 DEF Takes
  <1>6. \A j, k \in DOMAIN t : t[j].id = t[k].id => j = k
    BY <1>3a, <1>4, <1>5 DEF Takes
  <1>7. \A k \in DOMAIN t : \E i \in DOMAIN notes :
          notes[i].id = t[k].id /\ notes[i].text = t[k].content
    BY <1>5
  <1> QED  BY <1>2, <1>4, <1>6, <1>7 DEF WellFormed, t

LEMMA NoteList ==
  ASSUME NEW notes, NotesOK(notes)
  PROVE  /\ notes \in Seq(Note) /\ DOMAIN notes = 1..Len(notes) /\ Len(notes) \in Nat
         /\ \A k \in DOMAIN notes : /\ notes[k] \in Note
                                    /\ notes[k].id \in Ids /\ notes[k].text \in Text
  <1>1. notes \in Seq(Note)
    BY DEF NotesOK
  <1>2. DOMAIN notes = 1..Len(notes) /\ Len(notes) \in Nat /\ \A k \in DOMAIN notes : notes[k] \in Note
    BY <1>1
  <1>3. \A n \in Note : n.id \in Ids /\ n.text \in Text
    BY DEF Note
  <1> QED  BY <1>1, <1>2, <1>3

LEMMA KeywordWellFormed ==
  ASSUME NEW notes, NotesOK(notes)
  PROVE  WellFormed(KeywordSearch(notes), notes)
  <1> DEFINE scored == [k \in DOMAIN notes |->
                          Result(notes[k], Lexical(notes[k].text), "keyword", notes[k].text)]
             I == {k \in DOMAIN scored : scored[k].score > 0}
             items == Select(scored, I)
  <1>1. /\ notes \in Seq(Note) /\ DOMAIN notes = 1..Len(notes) /\ Len(notes) \in Nat
        /\ \A k \in DOMAIN notes : notes[k].id \in Ids /\ notes[k].text \in Text
    BY NoteList
  <1>2. \A k \in DOMAIN notes : /\ scored[k] \in Match
                                /\ scored[k].id = notes[k].id /\ scored[k].content = notes[k].text
    BY <1>1, LexicalType DEF Result, Match
  <1>3. scored \in Seq(Match) /\ DOMAIN scored = DOMAIN notes
    BY <1>1, <1>2
  <1>4. I \in SUBSET DOMAIN scored
    OBVIOUS
  <1>5. KeywordSearch(notes) = Top(Ranked(items), Limit)
    BY DEF KeywordSearch
  <1> HIDE DEF scored, I
  <1>6. items \in Seq(Match)
    BY <1>3, <1>4, SelectKeeps
  <1>7. PICK p \in [1..Len(items) -> I] :
          /\ \A k \in 1..Len(items) : items[k] = scored[p[k]]
          /\ \A j, k \in 1..Len(items) : j < k => p[j] < p[k]
    BY <1>3, <1>4, SelectKeeps
  <1> HIDE DEF items
  <1>8. /\ DOMAIN items = 1..Len(items) /\ Len(items) \in Nat
        /\ \A k \in DOMAIN items : p[k] \in DOMAIN notes /\ items[k].id = notes[p[k]].id
                                   /\ items[k].content = notes[p[k]].text
    BY <1>2, <1>3, <1>4, <1>6, <1>7
  <1>9. \A j, k \in DOMAIN items : items[j].id = items[k].id => j = k
    <2> SUFFICES ASSUME NEW j \in DOMAIN items, NEW k \in DOMAIN items, j # k
                 PROVE  items[j].id # items[k].id
      OBVIOUS
    <2>1. j < k \/ k < j
      BY <1>8
    <2>2. p[j] # p[k]
      BY <1>1, <1>7, <1>8, <2>1
    <2> QED  BY <1>8, <2>2 DEF NotesOK
  <1>10. \A k \in DOMAIN items : \E i \in DOMAIN notes :
           notes[i].id = items[k].id /\ notes[i].text = items[k].content
    BY <1>8
  <1> QED  BY <1>5, <1>6, <1>9, <1>10, TopWellFormed

\* The results of the notes whose chunks were hit, one for each note: its best hit.
Rolled(items, notes, hits) ==
  /\ items \in Seq(Match)
  /\ \A j, k \in DOMAIN items : items[j].id = items[k].id => j = k
  /\ \A k \in DOMAIN items : \E i \in DOMAIN notes :
       notes[i].id = items[k].id /\ notes[i].text = items[k].content
  /\ \A k \in DOMAIN items :
       /\ \E i \in DOMAIN hits : /\ hits[i].chunk[1] = items[k].id
                                /\ hits[i].score = items[k].score
                                /\ hits[i].text = items[k].snippet
       /\ \A i \in DOMAIN hits :
            hits[i].chunk[1] = items[k].id => hits[i].score <= items[k].score
  /\ \A i \in DOMAIN hits :
       (\E k \in DOMAIN notes : notes[k].id = hits[i].chunk[1]) =>
         \E k \in DOMAIN items : items[k].id = hits[i].chunk[1]

LEMMA RollUpItems ==
  ASSUME NEW notes, NotesOK(notes), NEW hits \in Seq(Chunk)
  PROVE  \E items : Rolled(items, notes, hits) /\ RollUp(notes, hits) = Top(Ranked(items), Limit)
  <1> DEFINE I == {i \in DOMAIN hits : \E k \in DOMAIN notes : notes[k].id = hits[i].chunk[1]}
             known == Select(hits, I)
             F == {i \in DOMAIN known : \A j \in 1..i-1 : known[j].chunk[1] # known[i].chunk[1]}
             firsts == InOrder(F, <)
             OfNote(id) == {i \in DOMAIN known : known[i].chunk[1] = id}
             Best(id) == known[CHOOSE i \in OfNote(id) :
                                 \A j \in OfNote(id) : \/ known[j].score < known[i].score
                                                       \/ known[j].score = known[i].score /\ i <= j]
             Of(id) == CHOOSE n \in {notes[k] : k \in DOMAIN notes} : n.id = id
             ResultOf(id) == Result(Of(id), Best(id).score, "semantic", Best(id).text)
             items == [k \in DOMAIN firsts |-> ResultOf(known[firsts[k]].chunk[1])]
  <1>1. /\ notes \in Seq(Note)
        /\ \A k \in DOMAIN notes : notes[k].id \in Ids /\ notes[k].text \in Text
    BY NoteList
  <1>2. RollUp(notes, hits) = Top(Ranked(items), Limit)
    BY DEF RollUp
  <1>3. I \in SUBSET DOMAIN hits
    OBVIOUS
  <1> HIDE DEF ResultOf
  <1>4. known \in Seq(Chunk)
    <2> HIDE DEF I
    <2> QED  BY <1>3, SelectKeeps
  <1>5. /\ DOMAIN known = 1..Len(known) /\ Len(known) \in Nat
        /\ \A i \in DOMAIN known : known[i] \in Chunk
    <2> HIDE DEF known
    <2> QED  BY <1>4
  <1>6. /\ \A i \in DOMAIN known : /\ \E k \in DOMAIN notes : notes[k].id = known[i].chunk[1]
                                  /\ \E k \in DOMAIN hits : known[i] = hits[k]
        /\ \A k \in DOMAIN hits :
             (\E m \in DOMAIN notes : notes[m].id = hits[k].chunk[1]) =>
               \E i \in DOMAIN known : known[i] = hits[k]
    <2> HIDE DEF I
    <2>1. PICK p \in [1..Len(known) -> I] :
            /\ \A k \in 1..Len(known) : known[k] = hits[p[k]]
            /\ \A j, k \in 1..Len(known) : j < k => p[j] < p[k]
            /\ \A i \in I : \E k \in 1..Len(known) : p[k] = i
      BY <1>3, SelectKeeps
    <2> HIDE DEF known
    <2>2. \A i \in DOMAIN known : p[i] \in I /\ known[i] = hits[p[i]]
      BY <1>5, <2>1
    <2>3. \A k \in I : \E i \in DOMAIN known : known[i] = hits[k]
      BY <1>5, <2>1
    <2> QED  BY <2>2, <2>3 DEF I
  <1> HIDE DEF known, I
  <1>7. \A i \in DOMAIN known : /\ Of(known[i].chunk[1]) \in Note
                                /\ Of(known[i].chunk[1]).id = known[i].chunk[1]
                                /\ \E k \in DOMAIN notes : Of(known[i].chunk[1]) = notes[k]
    <2> TAKE i \in DOMAIN known
    <2>1. \E n \in {notes[k] : k \in DOMAIN notes} : n.id = known[i].chunk[1]
      BY <1>6
    <2>2. /\ Of(known[i].chunk[1]) \in {notes[k] : k \in DOMAIN notes}
          /\ Of(known[i].chunk[1]).id = known[i].chunk[1]
      BY <2>1
    <2> HIDE DEF Of
    <2> QED  BY <1>1, <2>2
  <1>8. \A i \in DOMAIN known :
          /\ \E x \in DOMAIN known : /\ known[x].chunk[1] = known[i].chunk[1]
                                    /\ Best(known[i].chunk[1]) = known[x]
          /\ \A y \in DOMAIN known : known[y].chunk[1] = known[i].chunk[1] =>
               known[y].score <= Best(known[i].chunk[1]).score
    <2> TAKE i \in DOMAIN known
    <2> DEFINE id == known[i].chunk[1]
               S == OfNote(id)
    <2>1. S \in SUBSET DOMAIN known /\ S # {}
      OBVIOUS
    <2> HIDE DEF S
    <2>2. \A x \in Chunk : x.score \in Int
      BY DEF Chunk
    <2>3. \E x \in S : \A j \in S :
            \/ known[j].score < known[x].score
            \/ known[j].score = known[x].score /\ x <= j
      BY <1>4, <2>1, <2>2, BestExists
    <2>4. \E x \in S : /\ Best(id) = known[x]
                       /\ \A j \in S : \/ known[j].score < known[x].score
                                       \/ known[j].score = known[x].score /\ x <= j
      BY <2>3 DEF S
    <2> HIDE DEF Best
    <2>5. \A y \in DOMAIN known : known[y].score \in Int
      BY <1>5 DEF Chunk
    <2>6. PICK x \in S : /\ Best(id) = known[x]
                        /\ \A j \in S : known[j].score <= known[x].score
      BY <2>1, <2>4, <2>5
    <2>7. \A y \in DOMAIN known : y \in S <=> known[y].chunk[1] = id
      BY DEF S
    <2> HIDE DEF S
    <2> QED  BY <2>1, <2>6, <2>7
  <1> HIDE DEF Of, Best
  <1>9. \A i \in DOMAIN known :
          /\ ResultOf(known[i].chunk[1]) \in Match
          /\ ResultOf(known[i].chunk[1]).id = known[i].chunk[1]
          /\ ResultOf(known[i].chunk[1]).score = Best(known[i].chunk[1]).score
          /\ ResultOf(known[i].chunk[1]).snippet = Best(known[i].chunk[1]).text
          /\ \E k \in DOMAIN notes : /\ notes[k].id = ResultOf(known[i].chunk[1]).id
                                     /\ notes[k].text = ResultOf(known[i].chunk[1]).content
    <2> TAKE i \in DOMAIN known
    <2>1. Best(known[i].chunk[1]) \in Chunk
      BY <1>5, <1>8
    <2> QED  BY <1>1, <1>7, <2>1 DEF ResultOf, Result, Note, Chunk, Match
  <1>10. F \in SUBSET Nat /\ IsFiniteSet(F)
    <2>1. F \in SUBSET (1..Len(known)) /\ IsFiniteSet(1..Len(known))
      BY <1>5, FS_Interval
    <2> HIDE DEF F
    <2>2. IsFiniteSet(F)
      BY <2>1, FS_Subset
    <2> QED  BY <1>5, <2>1, <2>2
  <1>11. \A i, j \in F : known[i].chunk[1] = known[j].chunk[1] => i = j
    <2> SUFFICES ASSUME NEW i \in F, NEW j \in F, i < j
                 PROVE  known[i].chunk[1] # known[j].chunk[1]
      BY <1>5
    <2> QED  BY <1>5
  <1>12. F \in SUBSET DOMAIN known
    OBVIOUS
  <1>12a. \A i \in DOMAIN known : \E j \in F : known[j].chunk[1] = known[i].chunk[1]
    <2> TAKE i \in DOMAIN known
    <2> DEFINE S == OfNote(known[i].chunk[1])
               f == InOrder(S, <)
    <2>1. i \in S /\ S \in SUBSET (1..Len(known)) /\ S \in SUBSET Nat
      BY <1>5
    <2>2. \A j \in S : j \in DOMAIN known /\ known[j].chunk[1] = known[i].chunk[1]
      OBVIOUS
    <2>3. \A j \in 1..Len(known) : j \in S <=> known[j].chunk[1] = known[i].chunk[1]
      BY <1>5
    <2> HIDE DEF S
    <2>4. IsFiniteSet(S)
      <3>1. IsFiniteSet(1..Len(known))
        BY <1>5, FS_Interval
      <3> QED  BY <2>1, <3>1, FS_Subset
    <2>5. /\ Cardinality(S) \in Nat /\ f \in [1..Cardinality(S) -> S]
          /\ \A j \in S : \E k \in 1..Cardinality(S) : f[k] = j
          /\ \A j, k \in 1..Cardinality(S) : j < k => f[j] < f[k]
      BY <2>1, <2>4, Ascending
    <2> HIDE DEF f
    <2>6. 1 \in 1..Cardinality(S) /\ f[1] \in S
      BY <2>1, <2>5
    <2>7. \A j \in S : f[1] <= j
      <3> TAKE j \in S
      <3>1. PICK k \in 1..Cardinality(S) : f[k] = j
        BY <2>5
      <3>2. k = 1 \/ 1 < k
        BY <2>5
      <3>3. f[1] \in Nat /\ j \in Nat
        BY <2>1, <2>6
      <3> QED  BY <2>5, <2>6, <3>1, <3>2, <3>3
    <2>8. \A j \in 1..f[1]-1 : known[j].chunk[1] # known[f[1]].chunk[1]
      <3> SUFFICES ASSUME NEW j \in 1..f[1]-1 PROVE j \in 1..Len(known) /\ j \notin S
        BY <2>2, <2>3, <2>6
      <3>1. f[1] \in 1..Len(known) /\ j \in Nat /\ j < f[1] /\ j >= 1
        BY <1>5, <2>1, <2>6
      <3> QED  BY <1>5, <2>7, <3>1
    <2>9. f[1] \in F
      BY <2>2, <2>6, <2>8
    <2> QED  BY <2>2, <2>6, <2>9
  <1> HIDE DEF F
  <1>13. /\ Cardinality(F) \in Nat
         /\ firsts \in [1..Cardinality(F) -> F]
         /\ \A i \in F : \E k \in 1..Cardinality(F) : firsts[k] = i
         /\ \A j, k \in 1..Cardinality(F) : j < k => firsts[j] < firsts[k]
    BY <1>10, Ascending
  <1> HIDE DEF firsts
  <1> DEFINE n == Cardinality(F)
  <1> HIDE DEF n
  <1>14. /\ items \in [1..n -> Match]
         /\ \A k \in 1..n : firsts[k] \in F /\ items[k] = ResultOf(known[firsts[k]].chunk[1])
    BY <1>9, <1>12, <1>13 DEF n
  <1> HIDE DEF items
  <1>15. items \in Seq(Match) /\ DOMAIN items = 1..n
    BY <1>13, <1>14 DEF n
  <1>16. \A j, k \in DOMAIN items : items[j].id = items[k].id => j = k
    <2> SUFFICES ASSUME NEW j \in 1..n, NEW k \in 1..n, j # k
                 PROVE  items[j].id # items[k].id
      BY <1>15
    <2>1. firsts[j] < firsts[k] \/ firsts[k] < firsts[j]
      BY <1>13 DEF n
    <2>2. firsts[j] \in F /\ firsts[k] \in F /\ firsts[j] # firsts[k]
      <3>1. firsts[j] \in F /\ firsts[k] \in F
        BY <1>14
      <3>2. firsts[j] \in Nat /\ firsts[k] \in Nat
        BY <1>10, <3>1
      <3> QED  BY <2>1, <3>1, <3>2
    <2>3. known[firsts[j]].chunk[1] # known[firsts[k]].chunk[1]
      BY <1>11, <2>2
    <2> QED  BY <1>9, <1>12, <1>14, <2>2, <2>3
  <1>17. \A k \in DOMAIN items : \E i \in DOMAIN notes :
           notes[i].id = items[k].id /\ notes[i].text = items[k].content
    BY <1>9, <1>12, <1>14, <1>15
  <1>18. \A k \in DOMAIN items :
           /\ \E i \in DOMAIN hits : /\ hits[i].chunk[1] = items[k].id
                                    /\ hits[i].score = items[k].score
                                    /\ hits[i].text = items[k].snippet
           /\ \A i \in DOMAIN hits :
                hits[i].chunk[1] = items[k].id => hits[i].score <= items[k].score
    <2> TAKE k \in DOMAIN items
    <2> DEFINE x == firsts[k]
    <2>1. x \in DOMAIN known /\ items[k] = ResultOf(known[x].chunk[1])
      BY <1>12, <1>14, <1>15
    <2> HIDE DEF x
    <2>2. /\ items[k].id = known[x].chunk[1] /\ items[k].score = Best(known[x].chunk[1]).score
          /\ items[k].snippet = Best(known[x].chunk[1]).text
      BY <1>9, <2>1
    <2>3. PICK y \in DOMAIN known : /\ known[y].chunk[1] = known[x].chunk[1]
                                   /\ Best(known[x].chunk[1]) = known[y]
      BY <1>8, <2>1
    <2>4. PICK i \in DOMAIN hits : known[y] = hits[i]
      BY <1>6
    <2>5. ASSUME NEW m \in DOMAIN hits, hits[m].chunk[1] = items[k].id
          PROVE  hits[m].score <= items[k].score
      <3>1. \E z \in DOMAIN notes : notes[z].id = hits[m].chunk[1]
        BY <1>17, <2>5
      <3>2. PICK z \in DOMAIN known : known[z] = hits[m]
        BY <1>6, <3>1
      <3>3. known[z].chunk[1] = known[x].chunk[1]
        BY <2>2, <2>5, <3>2
      <3>4. known[z].score <= Best(known[x].chunk[1]).score
        BY <1>8, <2>1, <3>3
      <3> QED  BY <2>2, <3>2, <3>4
    <2> QED  BY <2>2, <2>3, <2>4, <2>5
  <1>19. ASSUME NEW i \in DOMAIN hits, \E k \in DOMAIN notes : notes[k].id = hits[i].chunk[1]
         PROVE  \E k \in DOMAIN items : items[k].id = hits[i].chunk[1]
    <2>1. PICK x \in DOMAIN known : known[x] = hits[i]
      BY <1>6, <1>19
    <2>2. PICK j \in F : known[j].chunk[1] = known[x].chunk[1]
      BY <1>12a
    <2>3. PICK k \in 1..n : firsts[k] = j
      BY <1>13 DEF n
    <2>4. k \in DOMAIN items /\ items[k] = ResultOf(known[j].chunk[1])
      BY <1>14, <1>15, <2>3
    <2> QED  BY <1>9, <1>12, <2>1, <2>2, <2>4
  <1>20. Rolled(items, notes, hits)
    BY <1>15, <1>16, <1>17, <1>18, <1>19 DEF Rolled
  <1>21. RollUp(notes, hits) = Top(Ranked(items), Limit)
    BY <1>2 DEF items
  <1> QED  BY <1>20, <1>21

LEMMA RollUpWellFormed ==
  ASSUME NEW notes, NotesOK(notes), NEW hits \in Seq(Chunk)
  PROVE  WellFormed(RollUp(notes, hits), notes)
  <1>1. PICK items : Rolled(items, notes, hits) /\ RollUp(notes, hits) = Top(Ranked(items), Limit)
    BY RollUpItems
  <1> QED  BY <1>1, TopWellFormed DEF Rolled

\* What a hybrid search keeps of what the words found.
KeepsKeywords(found, keyword) ==
  \A i \in DOMAIN keyword :
    \/ \E k \in DOMAIN found : found[k] = keyword[i]
    \/ Len(found) = Limit /\ \A k \in DOMAIN found : found[k].score >= keyword[i].score

LEMMA MergedWellFormed ==
  ASSUME NEW notes, NEW keyword, NEW semantic,
         WellFormed(keyword, notes), WellFormed(semantic, notes)
  PROVE  /\ WellFormed(Merged(keyword, semantic), notes)
         /\ KeepsKeywords(Merged(keyword, semantic), keyword)
  <1> DEFINE I == {i \in DOMAIN semantic :
                     \A k \in DOMAIN keyword : keyword[k].id # semantic[i].id}
             new == Select(semantic, I)
             items == keyword \o new
             t == Top(Ranked(items), Limit)
             K == Len(keyword)
             N == Len(new)
  <1>1. /\ keyword \in Seq(Match) /\ DOMAIN keyword = 1..K /\ K \in Nat
        /\ semantic \in Seq(Match)
    BY DEF WellFormed
  <1>2. Merged(keyword, semantic) = t
    BY DEF Merged
  <1>3. I \in SUBSET DOMAIN semantic
    OBVIOUS
  <1> HIDE DEF I
  <1>4. new \in Seq(Match)
    BY <1>1, <1>3, SelectKeeps
  <1>5. PICK p \in [1..N -> I] :
          /\ \A k \in 1..N : new[k] = semantic[p[k]]
          /\ \A j, k \in 1..N : j < k => p[j] < p[k]
    BY <1>1, <1>3, SelectKeeps
  <1> HIDE DEF new
  <1>6. /\ items \in Seq(Match) /\ DOMAIN items = 1..K+N /\ Len(items) = K + N /\ N \in Nat
        /\ \A i \in 1..K : items[i] = keyword[i]
        /\ \A i \in 1..N : items[K + i] = new[i]
    BY <1>1, <1>4
  <1> HIDE DEF items, K, N
  <1>7. \A i \in 1..N : p[i] \in DOMAIN semantic /\ new[i] = semantic[p[i]]
                       /\ \A k \in 1..K : keyword[k].id # new[i].id
    BY <1>1, <1>5 DEF I
  <1>8. \A i \in DOMAIN items : i \in 1..K \/ (i - K \in 1..N /\ items[i] = new[i - K])
    <2> TAKE i \in DOMAIN items
    <2>1. i \in 1..K \/ (i - K \in 1..N /\ i = K + (i - K))
      BY <1>1, <1>6
    <2> QED  BY <1>6, <2>1
  <1>9. \A j, k \in 1..N : new[j].id = new[k].id => j = k
    <2> SUFFICES ASSUME NEW j \in 1..N, NEW k \in 1..N, j < k
                 PROVE  new[j].id # new[k].id
      BY <1>6
    <2>1. p[j] < p[k] /\ p[j] \in DOMAIN semantic /\ p[k] \in DOMAIN semantic
      BY <1>5, <1>7
    <2>2. p[j] \in Nat /\ p[k] \in Nat /\ p[j] # p[k]
      BY <1>1, <2>1
    <2> QED  BY <1>7, <2>1, <2>2 DEF WellFormed
  <1>10. \A j, k \in DOMAIN items : items[j].id = items[k].id => j = k
    <2> SUFFICES ASSUME NEW j \in DOMAIN items, NEW k \in DOMAIN items,
                        items[j].id = items[k].id
                 PROVE  j = k
      OBVIOUS
    <2>1. CASE j \in 1..K /\ k \in 1..K
      BY <1>1, <1>6, <2>1 DEF WellFormed
    <2>2. CASE j \notin 1..K /\ k \notin 1..K
      <3>1. j - K = k - K
        BY <1>8, <1>9, <2>2
      <3> QED  BY <1>1, <1>6, <3>1
    <2>3. CASE j \in 1..K /\ k \notin 1..K
      BY <1>6, <1>7, <1>8, <2>3
    <2>4. CASE j \notin 1..K /\ k \in 1..K
      BY <1>6, <1>7, <1>8, <2>4
    <2> QED  BY <2>1, <2>2, <2>3, <2>4
  <1>11. \A k \in DOMAIN items : \E i \in DOMAIN notes :
           notes[i].id = items[k].id /\ notes[i].text = items[k].content
    <2> TAKE k \in DOMAIN items
    <2>1. CASE k \in 1..K
      BY <1>1, <1>6, <2>1 DEF WellFormed
    <2>2. CASE k \notin 1..K
      BY <1>7, <1>8, <2>2 DEF WellFormed
    <2> QED  BY <2>1, <2>2
  <1>12. WellFormed(t, notes)
    BY <1>6, <1>10, <1>11, TopWellFormed
  <1>13. /\ BestOf(t, items, Limit) /\ DOMAIN t = 1..Len(t)
    <2>1. Limit \in Nat /\ \A x \in Match : x.score \in Int
      BY LimitAssumption DEF Match
    <2>2. t \in Seq(Match)
      BY <1>12 DEF WellFormed
    <2>3. BestOf(t, items, Limit)
      BY <1>6, <2>1, TopRanked
    <2> HIDE DEF t
    <2> QED  BY <2>2, <2>3
  <1> HIDE DEF t
  <1>14. KeepsKeywords(t, keyword)
    <2> SUFFICES ASSUME NEW i \in DOMAIN keyword
                 PROVE  \/ \E k \in DOMAIN t : t[k] = keyword[i]
                        \/ Len(t) = Limit /\ \A k \in DOMAIN t : t[k].score >= keyword[i].score
      BY DEF KeepsKeywords
    <2>1. i \in 1..Len(items) /\ items[i] = keyword[i]
      BY <1>1, <1>6
    <2>2. PICK q : /\ \A k \in 1..Len(t) : t[k] = items[q[k]]
                   /\ \A x \in 1..Len(items) :
                        \/ \E k \in 1..Len(t) : q[k] = x
                        \/ /\ Len(t) = Limit
                           /\ \A k \in 1..Limit : t[k].score >= items[x].score
      BY <1>13 DEF BestOf
    <2> QED  BY <1>13, <2>1, <2>2
  <1> QED  BY <1>2, <1>12, <1>14

\* Whatever a search finds is a well formed answer; a hybrid one keeps what the
\* words find, and chat finds something when the words do.
LEMMA FoundWellFormed ==
  ASSUME NEW kind, NEW notes, NotesOK(notes), NEW hits \in Seq(Chunk)
  PROVE  /\ WellFormed(KeywordSearch(notes), notes)
         /\ WellFormed(Found(kind, notes, hits), notes)
         /\ kind = "hybrid" => KeepsKeywords(Found(kind, notes, hits), KeywordSearch(notes))
         /\ kind = "chat" /\ Found(kind, notes, hits) = <<>> => KeywordSearch(notes) = <<>>
  <1> DEFINE keyword == KeywordSearch(notes)
             semantic == RollUp(notes, hits)
  <1>1. WellFormed(keyword, notes) /\ WellFormed(semantic, notes)
    BY KeywordWellFormed, RollUpWellFormed
  <1>2. /\ WellFormed(Merged(keyword, semantic), notes)
        /\ KeepsKeywords(Merged(keyword, semantic), keyword)
    <2> HIDE DEF keyword, semantic
    <2> QED  BY <1>1, MergedWellFormed
  <1>3. Found(kind, notes, hits) =
          CASE kind = "keyword" -> keyword
            [] kind = "semantic" -> semantic
            [] kind = "hybrid" -> Merged(keyword, semantic)
            [] OTHER -> IF semantic = <<>> THEN keyword ELSE semantic
    BY DEF Found
  <1> HIDE DEF keyword, semantic
  <1>4. WellFormed(Found(kind, notes, hits), notes)
    BY <1>1, <1>2, <1>3
  <1>5. kind = "hybrid" => Found(kind, notes, hits) = Merged(keyword, semantic)
    BY <1>3
  <1>6. kind = "chat" /\ Found(kind, notes, hits) = <<>> => keyword = <<>>
    BY <1>3
  <1> QED  BY <1>1, <1>2, <1>4, <1>5, <1>6 DEF keyword

-----------------------------------------------------------------------------
(* What is made of a vault. *)

VaultOK(v) == v \in [DOMAIN v -> Text] /\ DOMAIN v \subseteq Ids /\ IsFiniteSet(DOMAIN v)

\* The links of the notes of a vault.
Links(v) == {l \in Ids \X Ids : l[1] \in DOMAIN v /\ l[2] \in ToSet(v[l[1]].links)}

\* The list of the notes has each of them once.
LEMMA NotesOfVault ==
  ASSUME NEW v, VaultOK(v)
  PROVE  /\ NotesOK(NotesOf(v))
         /\ \A k \in DOMAIN NotesOf(v) : /\ NotesOf(v)[k].id \in DOMAIN v
                                         /\ NotesOf(v)[k].text = v[NotesOf(v)[k].id]
         /\ \A id \in DOMAIN v : \E k \in DOMAIN NotesOf(v) : NotesOf(v)[k].id = id
  <1> DEFINE ids == InOrder(DOMAIN v, <)
             n == Cardinality(DOMAIN v)
             notes == NotesOf(v)
  <1>1. /\ DOMAIN v \in SUBSET Nat /\ IsFiniteSet(DOMAIN v)
        /\ \A id \in DOMAIN v : id \in Ids /\ v[id] \in Text
    BY LimitAssumption DEF VaultOK
  <1>2. /\ n \in Nat /\ ids \in [1..n -> DOMAIN v]
        /\ \A i \in DOMAIN v : \E k \in 1..n : ids[k] = i
        /\ \A j, k \in 1..n : j < k => ids[j] < ids[k]
    BY <1>1, Ascending
  <1>3. notes = [k \in DOMAIN ids |-> [id |-> ids[k], text |-> v[ids[k]]]]
    BY DEF NotesOf
  <1> HIDE DEF ids, n, notes
  <1>4. /\ notes \in [1..n -> Note] /\ DOMAIN notes = 1..n
        /\ \A k \in 1..n : notes[k].id = ids[k] /\ notes[k].text = v[ids[k]] /\ ids[k] \in DOMAIN v
    BY <1>1, <1>2, <1>3 DEF Note
  <1>5. notes \in Seq(Note)
    BY <1>2, <1>4
  <1>6. \A j, k \in 1..n : notes[j].id = notes[k].id => j = k
    <2> SUFFICES ASSUME NEW j \in 1..n, NEW k \in 1..n, j # k PROVE notes[j].id # notes[k].id
      OBVIOUS
    <2>1. j < k \/ k < j
      BY <1>2
    <2>2. ids[j] \in Nat /\ ids[k] \in Nat /\ ids[j] # ids[k]
      BY <1>1, <1>2, <1>4, <2>1
    <2> QED  BY <1>4, <2>2
  <1> QED  BY <1>2, <1>4, <1>5, <1>6 DEF NotesOK, notes

\* What the notes of a list are, when one reads the list as a set.
LEMMA IdsOfVault ==
  ASSUME NEW v, VaultOK(v)
  PROVE  {n.id : n \in ToSet(NotesOf(v))} = DOMAIN v
  BY NotesOfVault DEF ToSet

\* A list of notes loses none of this when some are left out.
LEMMA SelectedNotes ==
  ASSUME NEW notes, NotesOK(notes), NEW I \in SUBSET DOMAIN notes
  PROVE  NotesOK(Select(notes, I))
  <1> DEFINE s == Select(notes, I)
  <1>1. notes \in Seq(Note)
    BY DEF NotesOK
  <1>2. s \in Seq(Note)
    BY <1>1, SelectKeeps
  <1>3. PICK p \in [1..Len(s) -> I] :
          /\ \A k \in 1..Len(s) : s[k] = notes[p[k]]
          /\ \A j, k \in 1..Len(s) : j < k => p[j] < p[k]
    BY <1>1, SelectKeeps
  <1> HIDE DEF s
  <1>4. DOMAIN s = 1..Len(s) /\ Len(s) \in Nat /\ DOMAIN notes = 1..Len(notes)
    BY <1>1, <1>2
  <1>5. ASSUME NEW j \in DOMAIN s, NEW k \in DOMAIN s, j # k PROVE s[j].id # s[k].id
    <2>1. j < k \/ k < j
      BY <1>4, <1>5
    <2>2. p[j] \in DOMAIN notes /\ p[k] \in DOMAIN notes /\ p[j] # p[k]
      <3>1. p[j] \in DOMAIN notes /\ p[k] \in DOMAIN notes
        BY <1>3, <1>4
      <3>2. p[j] \in Int /\ p[k] \in Int /\ (p[j] < p[k] \/ p[k] < p[j])
        BY <1>3, <1>4, <2>1, <3>1
      <3> QED  BY <3>1, <3>2
    <2> QED  BY <1>3, <1>4, <2>2 DEF NotesOK
  <1> QED  BY <1>2, <1>5 DEF NotesOK, s

\* The set of a flattened list of lists.
LEMMA FlatSet ==
  ASSUME NEW T, NEW ss \in Seq(Seq(T))
  PROVE  /\ FlattenSeq(ss) \in Seq(T)
         /\ \A x : x \in ToSet(FlattenSeq(ss)) <=>
                     \E i \in DOMAIN ss : \E j \in DOMAIN ss[i] : x = ss[i][j]
  <1> DEFINE flat == FlattenSeq(ss)
             n == Len(ss)
  <1>1. flat \in Seq(T) /\ Located(flat, ss, n)
    BY Flattened
  <1>2. PICK at : Places(at, flat, ss, n)
    BY <1>1 DEF Located
  <1>3. DOMAIN ss = 1..n
    OBVIOUS
  <1> HIDE DEF flat, n
  <1>4. \A k \in DOMAIN flat : /\ at[k][1] \in DOMAIN ss /\ at[k][2] \in DOMAIN ss[at[k][1]]
                               /\ flat[k] = ss[at[k][1]][at[k][2]]
    BY <1>2, <1>3 DEF Places
  <1>5. \A i \in DOMAIN ss : \A j \in DOMAIN ss[i] : \E k \in DOMAIN flat : flat[k] = ss[i][j]
    <2> TAKE i \in DOMAIN ss
    <2> TAKE j \in DOMAIN ss[i]
    <2>1. PICK k \in DOMAIN flat : at[k] = <<i, j>>
      BY <1>2, <1>3 DEF Places
    <2> QED  BY <1>4, <2>1
  <1>6. \A x : x \in ToSet(flat) <=> \E i \in DOMAIN ss : \E j \in DOMAIN ss[i] : x = ss[i][j]
    BY <1>4, <1>5 DEF ToSet
  <1> QED  BY <1>1, <1>6 DEF flat

LEMMA LinksOfVault ==
  ASSUME NEW v, VaultOK(v)
  PROVE  /\ LinksOf(NotesOf(v)) \in Seq(Ids \X Ids)
         /\ ToSet(LinksOf(NotesOf(v))) = Links(v)
  <1> DEFINE notes == NotesOf(v)
             Of(k) == [l \in DOMAIN notes[k].text.links |-> <<notes[k].id, notes[k].text.links[l]>>]
             ss == [k \in DOMAIN notes |-> Of(k)]
  <1>1. /\ NotesOK(notes)
        /\ \A k \in DOMAIN notes : notes[k].id \in DOMAIN v /\ notes[k].text = v[notes[k].id]
        /\ \A id \in DOMAIN v : \E k \in DOMAIN notes : notes[k].id = id
    BY NotesOfVault
  <1>2. LinksOf(notes) = FlattenSeq(ss)
    BY DEF LinksOf
  <1> HIDE DEF notes
  <1>3. /\ DOMAIN notes = 1..Len(notes) /\ Len(notes) \in Nat
        /\ \A k \in DOMAIN notes : notes[k].id \in Ids /\ notes[k].text \in Text
    BY <1>1, NoteList
  <1>4. \A k \in DOMAIN notes : notes[k].text.links \in Seq(Ids)
    BY <1>3 DEF Text
  <1>5. \A k \in DOMAIN notes : Of(k) \in Seq(Ids \X Ids)
    <2> TAKE k \in DOMAIN notes
    <2> DEFINE links == notes[k].text.links
               m == Len(links)
    <2>1. links \in Seq(Ids)
      BY <1>4
    <2>2. DOMAIN links = 1..m /\ m \in Nat /\ \A l \in 1..m : links[l] \in Ids
      <3> HIDE DEF links
      <3> QED  BY <2>1
    <2>3. Of(k) = [l \in 1..m |-> <<notes[k].id, links[l]>>]
      BY <2>2
    <2> HIDE DEF links, m
    <2>4. \A l \in 1..m : <<notes[k].id, links[l]>> \in Ids \X Ids
      BY <1>3, <2>2
    <2> HIDE DEF Of
    <2>5. Of(k) \in [1..m -> Ids \X Ids]
      BY <2>3, <2>4
    <2> QED  BY <2>2, <2>5
  <1>6. \A k \in DOMAIN notes : \A l \in DOMAIN notes[k].text.links :
          Of(k)[l] = <<notes[k].id, notes[k].text.links[l]>>
    OBVIOUS
  <1>7. \A k \in DOMAIN notes : DOMAIN Of(k) = DOMAIN notes[k].text.links
    OBVIOUS
  <1> HIDE DEF Of
  <1>8. ss \in Seq(Seq(Ids \X Ids)) /\ DOMAIN ss = DOMAIN notes
        /\ \A k \in DOMAIN notes : ss[k] = Of(k)
    BY <1>3, <1>5
  <1> HIDE DEF ss
  <1>9. /\ FlattenSeq(ss) \in Seq(Ids \X Ids)
        /\ \A x : x \in ToSet(FlattenSeq(ss)) <=>
                    \E i \in DOMAIN ss : \E j \in DOMAIN ss[i] : x = ss[i][j]
    BY <1>8, FlatSet
  <1>10. \A x : x \in ToSet(FlattenSeq(ss)) <=>
           \E k \in DOMAIN notes : \E l \in DOMAIN notes[k].text.links :
             x = <<notes[k].id, notes[k].text.links[l]>>
    <2>1. \A k \in DOMAIN ss : /\ DOMAIN ss[k] = DOMAIN notes[k].text.links
                               /\ \A l \in DOMAIN ss[k] :
                                    ss[k][l] = <<notes[k].id, notes[k].text.links[l]>>
      BY <1>6, <1>7, <1>8
    <2>2. DOMAIN ss = DOMAIN notes
      BY <1>8
    <2> TAKE x
    <2>3. ASSUME x \in ToSet(FlattenSeq(ss))
          PROVE  \E k \in DOMAIN notes : \E l \in DOMAIN notes[k].text.links :
                   x = <<notes[k].id, notes[k].text.links[l]>>
      <3>1. PICK k \in DOMAIN ss : \E l \in DOMAIN ss[k] : x = ss[k][l]
        BY <1>9, <2>3
      <3>2. PICK l \in DOMAIN ss[k] : x = ss[k][l]
        BY <3>1
      <3> QED  BY <2>1, <2>2, <3>2
    <2>4. ASSUME NEW k \in DOMAIN notes, NEW l \in DOMAIN notes[k].text.links,
                 x = <<notes[k].id, notes[k].text.links[l]>>
          PROVE  x \in ToSet(FlattenSeq(ss))
      <3>1. k \in DOMAIN ss /\ l \in DOMAIN ss[k] /\ x = ss[k][l]
        BY <2>1, <2>2, <2>4
      <3> QED  BY <1>9, <3>1
    <2> QED  BY <2>3, <2>4
  <1>11. ASSUME NEW x \in ToSet(FlattenSeq(ss)) PROVE x \in Links(v)
    <2>1. PICK k \in DOMAIN notes : \E l \in DOMAIN notes[k].text.links :
                 x = <<notes[k].id, notes[k].text.links[l]>>
      BY <1>10
    <2>2. PICK l \in DOMAIN notes[k].text.links : x = <<notes[k].id, notes[k].text.links[l]>>
      BY <2>1
    <2>3. notes[k].text.links[l] \in Ids /\ notes[k].id \in Ids
      BY <1>3, <1>4
    <2>4. x \in Ids \X Ids /\ x[1] = notes[k].id /\ x[2] = notes[k].text.links[l]
      BY <2>2, <2>3
    <2> QED  BY <1>1, <2>4 DEF Links, ToSet
  <1>12. ASSUME NEW x \in Links(v) PROVE x \in ToSet(FlattenSeq(ss))
    <2>1. x \in Ids \X Ids /\ x[1] \in DOMAIN v /\ x[2] \in ToSet(v[x[1]].links)
      BY DEF Links
    <2>2. PICK k \in DOMAIN notes : notes[k].id = x[1]
      BY <1>1, <2>1
    <2>3. PICK l \in DOMAIN v[x[1]].links : x[2] = v[x[1]].links[l]
      BY <2>1 DEF ToSet
    <2>4. l \in DOMAIN notes[k].text.links /\ x[2] = notes[k].text.links[l]
      BY <1>1, <2>2, <2>3
    <2>5. x = <<notes[k].id, notes[k].text.links[l]>>
      BY <2>1, <2>2, <2>4
    <2> QED  BY <1>10, <2>4, <2>5
  <1> QED  BY <1>2, <1>9, <1>11, <1>12 DEF notes

LEMMA ChunksType ==
  ASSUME NEW n \in Note
  PROVE  /\ ChunksOf(n) \in Seq(Chunk) /\ ChunksOf(n) # <<>>
         /\ \A k \in DOMAIN ChunksOf(n) : ChunksOf(n)[k].chunk = <<n.id, k>>
                                          /\ ChunksOf(n)[k].text = n.text
  <1> DEFINE scores == IF n.text.chunks = <<>> THEN <<0>> ELSE n.text.chunks
             m == Len(scores)
             c == ChunksOf(n)
  <1>1. n.text.chunks \in Seq(Int) /\ n.id \in Ids /\ n.text \in Text
    BY DEF Note, Text
  <1>2. scores \in Seq(Int) /\ scores # <<>>
    BY <1>1
  <1>3. c = [k \in DOMAIN scores |-> [chunk |-> <<n.id, k>>, score |-> scores[k], text |-> n.text]]
    BY DEF ChunksOf
  <1> HIDE DEF scores, c
  <1>4. DOMAIN scores = 1..m /\ m \in Nat /\ m # 0 /\ \A k \in 1..m : scores[k] \in Int
    BY <1>2
  <1> HIDE DEF m
  <1>5. \A k \in 1..m : /\ c[k] = [chunk |-> <<n.id, k>>, score |-> scores[k], text |-> n.text]
                        /\ k \in Nat
    BY <1>3, <1>4
  <1>6. \A k \in 1..m : c[k] \in Chunk /\ c[k].chunk = <<n.id, k>> /\ c[k].text = n.text
    <2> TAKE k \in 1..m
    <2>1. <<n.id, k>> \in Ids \X Nat /\ scores[k] \in Int /\ n.text \in Text
      BY <1>1, <1>4, <1>5
    <2>2. \A x, y, z : x \in Ids \X Nat /\ y \in Int /\ z \in Text =>
                        [chunk |-> x, score |-> y, text |-> z] \in Chunk
      BY DEF Chunk
    <2>3. c[k] \in Chunk
      BY <1>5, <2>1, <2>2
    <2>4. c[k].chunk = <<n.id, k>> /\ c[k].text = n.text
      <3>1. c[k] = [chunk |-> <<n.id, k>>, score |-> scores[k], text |-> n.text]
        BY <1>5
      <3> QED  BY ONLY <3>1
    <2> QED  BY <2>3, <2>4
  <1>7. c \in [1..m -> Chunk] /\ DOMAIN c = 1..m
    BY <1>3, <1>4, <1>6
  <1>8. c \in Seq(Chunk) /\ c # <<>>
    <2>1. c \in Seq(Chunk)
      BY <1>4, <1>7
    <2>2. 1 \in DOMAIN c
      BY <1>4, <1>7
    <2> QED  BY <2>1, <2>2
  <1> QED  BY <1>6, <1>7, <1>8 DEF c

LEMMA AllChunksType ==
  ASSUME NEW notes, NotesOK(notes)
  PROVE  AllChunks(notes) \in Seq(Chunk)
  <1> DEFINE ss == [k \in DOMAIN notes |-> ChunksOf(notes[k])]
  <1>1. /\ DOMAIN notes = 1..Len(notes) /\ Len(notes) \in Nat
        /\ \A k \in DOMAIN notes : notes[k] \in Note
    BY NoteList
  <1>2. ss \in Seq(Seq(Chunk))
    BY <1>1, ChunksType
  <1>3. AllChunks(notes) = FlattenSeq(ss)
    BY DEF AllChunks
  <1> HIDE DEF ss
  <1> QED  BY <1>2, <1>3, FlatSet

\* The chunks of a list of notes are told apart by their keys.
LEMMA AllChunksDistinct ==
  ASSUME NEW notes, NotesOK(notes)
  PROVE  /\ AllChunks(notes) \in Seq(Chunk)
         /\ \A j, k \in DOMAIN AllChunks(notes) :
              AllChunks(notes)[j].chunk = AllChunks(notes)[k].chunk => j = k
         /\ \A x : x \in ToSet(AllChunks(notes)) <=>
                     \E i \in DOMAIN notes : \E j \in DOMAIN ChunksOf(notes[i]) :
                       x = ChunksOf(notes[i])[j]
  <1> DEFINE ss == [k \in DOMAIN notes |-> ChunksOf(notes[k])]
             all == AllChunks(notes)
             n == Len(ss)
  <1>1. /\ DOMAIN notes = 1..Len(notes) /\ Len(notes) \in Nat
        /\ \A k \in DOMAIN notes : notes[k] \in Note /\ notes[k].id \in Ids
    BY NoteList
  <1>2. /\ ss \in Seq(Seq(Chunk)) /\ DOMAIN ss = DOMAIN notes
        /\ \A i \in DOMAIN notes : ss[i] = ChunksOf(notes[i])
    BY <1>1, ChunksType
  <1>3. all = FlattenSeq(ss)
    BY DEF AllChunks
  <1> HIDE DEF ss, all
  <1>4. all \in Seq(Chunk) /\ Located(all, ss, n)
    BY <1>2, <1>3, Flattened
  <1>5. PICK at : Places(at, all, ss, n)
    BY <1>4 DEF Located
  <1>6. DOMAIN ss = 1..n
    BY <1>2
  <1> HIDE DEF n
  <1>7. ASSUME NEW k \in DOMAIN all
        PROVE  /\ at[k] = <<at[k][1], at[k][2]>>
               /\ at[k][1] \in DOMAIN notes
               /\ all[k].chunk = <<notes[at[k][1]].id, at[k][2]>>
    <2>1. at[k] \in (1..n) \X Nat /\ at[k][2] \in DOMAIN ss[at[k][1]]
          /\ all[k] = ss[at[k][1]][at[k][2]]
      BY <1>5 DEF Places
    <2>2. at[k][1] \in DOMAIN notes /\ ss[at[k][1]] = ChunksOf(notes[at[k][1]])
      BY <1>2, <1>6, <2>1
    <2>3. all[k].chunk = <<notes[at[k][1]].id, at[k][2]>>
      BY <1>1, <2>1, <2>2, ChunksType
    <2> QED  BY <2>1, <2>2, <2>3
  <1>8. ASSUME NEW j \in DOMAIN all, NEW k \in DOMAIN all, all[j].chunk = all[k].chunk
        PROVE  j = k
    <2>1. notes[at[j][1]].id = notes[at[k][1]].id /\ at[j][2] = at[k][2]
      BY <1>7, <1>8
    <2>2. at[j][1] = at[k][1]
      BY <1>7, <2>1 DEF NotesOK
    <2>3. at[j] = at[k]
      BY <1>7, <2>1, <2>2
    <2> QED  BY <1>5, <2>3 DEF Places
  <1>9. \A x : x \in ToSet(all) <=> \E i \in DOMAIN ss : \E j \in DOMAIN ss[i] : x = ss[i][j]
    BY <1>2, <1>3, FlatSet
  <1>10. \A x : x \in ToSet(all) <=>
           \E i \in DOMAIN notes : \E j \in DOMAIN ChunksOf(notes[i]) : x = ChunksOf(notes[i])[j]
    BY <1>2, <1>9
  <1> QED  BY <1>4, <1>8, <1>10 DEF all

LEMMA HeadTail ==
  ASSUME NEW T, NEW s \in Seq(T), s # <<>>
  PROVE  /\ Head(s) \in T /\ Tail(s) \in Seq(T)
         /\ ToSet(s) = {Head(s)} \cup ToSet(Tail(s))
         /\ \A r \in Seq(T) : Append(r, Head(s)) \o Tail(s) = r \o s
  <1> DEFINE n == Len(s)
             h == Head(s)
             t == Tail(s)
  <1>1. n \in Nat /\ n # 0 /\ DOMAIN s = 1..n /\ \A i \in 1..n : s[i] \in T
    OBVIOUS
  <1>2. /\ h = s[1] /\ h \in T /\ t \in Seq(T) /\ Len(t) = n - 1 /\ DOMAIN t = 1..n-1
        /\ \A i \in 1..n-1 : t[i] = s[i + 1]
    BY <1>1
  <1> HIDE DEF n, h, t
  <1>3. \A i \in 1..n : i = 1 \/ (i - 1 \in 1..n-1 /\ (i - 1) + 1 = i)
    BY <1>1
  <1>4. \A i \in 1..n : s[i] = h \/ \E j \in 1..n-1 : s[i] = t[j]
    BY <1>2, <1>3
  <1>5. \A j \in 1..n-1 : j + 1 \in 1..n
    BY <1>1
  <1>6. ToSet(s) = {h} \cup ToSet(t)
    <2>1. ToSet(s) = {s[i] : i \in 1..n} /\ ToSet(t) = {t[i] : i \in 1..n-1}
      BY <1>1, <1>2 DEF ToSet
    <2>2. 1 \in 1..n
      BY <1>1
    <2> QED  BY <1>2, <1>4, <1>5, <2>1, <2>2
  <1>7. ASSUME NEW r \in Seq(T) PROVE Append(r, h) \o t = r \o s
    <2> DEFINE m == Len(r)
               a == Append(r, h)
    <2>1. m \in Nat /\ a \in Seq(T) /\ Len(a) = m + 1 /\ a[m + 1] = h /\ \A i \in 1..m : a[i] = r[i]
      BY <1>2
    <2> HIDE DEF a
    <2>2. a \o t \in Seq(T) /\ Len(a \o t) = m + n /\ r \o s \in Seq(T) /\ Len(r \o s) = m + n
      <3>1. a \o t \in Seq(T) /\ r \o s \in Seq(T)
        BY <1>2, <2>1
      <3>2. Len(a \o t) = Len(a) + Len(t) /\ Len(r \o s) = m + n
        <4>1. Len(a \o t) = Len(a) + Len(t)
          BY <1>2, <2>1, ConcatProperties
        <4>2. Len(r \o s) = m + n
          BY ConcatProperties DEF n
        <4> QED  BY <4>1, <4>2
      <3>3. (m + 1) + (n - 1) = m + n
        BY <1>1, <2>1
      <3> QED  BY <1>2, <2>1, <3>1, <3>2, <3>3
    <2>3. ASSUME NEW i \in 1..m+n PROVE (a \o t)[i] = (r \o s)[i]
      <3>1. CASE i <= m
        BY <1>1, <1>2, <2>1, <3>1
      <3>2. CASE i = m + 1
        <4>1. (r \o s)[i] = s[1]
          BY <1>1, <2>1, <3>2 DEF n
        <4>2. (a \o t)[i] = a[m + 1]
          BY <1>1, <1>2, <2>1, <3>2
        <4> QED  BY <1>2, <2>1, <4>1, <4>2
      <3>3. CASE i > m + 1
        <4> DEFINE j == i - m
        <4>1. j \in 1..n /\ j - 1 \in 1..n-1 /\ i = m + j /\ i - (m + 1) = j - 1
          BY <1>1, <2>1, <3>3
        <4>2. (r \o s)[i] = s[j]
          BY <1>1, <2>1, <3>3, <4>1 DEF n
        <4>3. (a \o t)[i] = t[j - 1]
          BY <1>1, <1>2, <2>1, <3>3, <4>1
        <4> QED  BY <1>2, <1>3, <4>1, <4>2, <4>3
      <3>4. i <= m \/ i = m + 1 \/ i > m + 1
        BY <1>1, <2>1
      <3> QED  BY <3>1, <3>2, <3>3, <3>4
    <2> HIDE DEF m
    <2>4. DOMAIN (a \o t) = 1..m+n /\ DOMAIN (r \o s) = 1..m+n
      BY <2>2
    <2>5. a \o t = r \o s
      BY <2>2, <2>3, <2>4
    <2> QED  BY <2>5 DEF a
  <1> QED  BY <1>2, <1>6, <1>7 DEF h, t

\* The last of a list that is not empty, replaced or followed by another one.
LEMMA LastDict ==
  ASSUME NEW T, NEW g \in Seq(T), g # <<>>, NEW x \in T
  PROVE  /\ Len(g) \in Nat /\ Len(g) # 0 /\ g[Len(g)] \in T
         /\ [g EXCEPT ![Len(g)] = x] \in Seq(T) /\ [g EXCEPT ![Len(g)] = x] # <<>>
         /\ [g EXCEPT ![Len(g)] = x][Len([g EXCEPT ![Len(g)] = x])] = x
         /\ Append(g, x) \in Seq(T) /\ Append(g, x) # <<>>
         /\ Append(g, x)[Len(Append(g, x))] = x
  <1>1. Len(g) \in Nat /\ Len(g) # 0 /\ g[Len(g)] \in T /\ DOMAIN g = 1..Len(g) /\ Len(g) \in 1..Len(g)
    OBVIOUS
  <1> DEFINE h == [g EXCEPT ![Len(g)] = x]
             a == Append(g, x)
  <1>2. h \in Seq(T) /\ Len(h) = Len(g) /\ h[Len(g)] = x
    BY <1>1
  <1>3. a \in Seq(T) /\ Len(a) = Len(g) + 1 /\ a[Len(g) + 1] = x
    BY <1>1
  <1>4. h # <<>> /\ a # <<>>
    <2> HIDE DEF h, a
    <2>1. Len(<<>>) = 0 /\ Len(g) + 1 # 0
      BY <1>1
    <2> QED  BY <1>1, <1>2, <1>3, <2>1
  <1> QED  BY <1>1, <1>2, <1>3, <1>4

-----------------------------------------------------------------------------
(* The invariant of the index and its runs. *)

Node == [id : Ids, dests : SUBSET Ids]
Link == Ids \X Ids

DanglingOf(v) == {l \in Links(v) : l[2] \notin DOMAIN v}

\* A dict with the notes of v and their links.
GraphIs(g, v) ==
  /\ IdsOf(g) = DOMAIN v
  /\ \A k \in DOMAIN g : g[k].dests = ToSet(v[g[k].id].links)

Indexed == /\ GraphIs(adj, store) /\ dangling = DanglingOf(store)
           /\ vectors = AllChunks(NotesOf(store))

IndexTypes ==
  /\ DOMAIN run = Runners /\ settled \in BOOLEAN
  /\ VaultOK(store) /\ vectors \in Seq(Chunk)
  /\ graphs \in Seq(Seq(Node)) /\ graphs # <<>>

\* What is so of every run, alone or not.
Typed(w) ==
  /\ DOMAIN run[w] = DOMAIN NoRun
  /\ run[w].step \in {"idle", "replace", "clear", "add", "register", "link", "dangling"}
  /\ run[w].alone \in BOOLEAN
  /\ run[w].step # "idle" => VaultOK(run[w].vault)
  /\ run[w].step \notin {"idle", "replace"} => ~settled
  /\ run[w].step = "add" => run[w].todo \in Seq(Chunk)
  /\ run[w].step = "register" => run[w].todo \in Seq(Note)
  /\ run[w].step \in {"link", "dangling"} => run[w].todo \in Seq(Link)
  /\ run[w].step = "dangling" => run[w].todo # <<>>

\* The dict has the notes that are not to be registered yet, without links.
Registering(w) ==
  /\ IdsOf(adj) \cup IdsOf(run[w].todo) = DOMAIN store
  /\ \A k \in DOMAIN adj : adj[k].dests = {}
  /\ dangling = {}

\* What links, and dangling links, are still to come.
Linking(w) ==
  /\ IdsOf(adj) = DOMAIN store
  /\ \A k \in DOMAIN adj :
       adj[k].dests \cup {d \in Ids : <<adj[k].id, d>> \in ToSet(run[w].todo)}
         = ToSet(store[adj[k].id].links)
  /\ dangling \cup {l \in ToSet(run[w].todo) : l[2] \notin DOMAIN store} = DanglingOf(store)

Half(w) ==
  /\ Head(run[w].todo)[2] \notin DOMAIN store
  /\ \A k \in DOMAIN adj :
       adj[k].id = Head(run[w].todo)[1] => Head(run[w].todo)[2] \in adj[k].dests

\* How far a run that is alone has come, whatever was there before it.
Built(w) ==
  /\ run[w].step \notin {"idle", "replace"} => store = run[w].vault
  /\ run[w].step = "add" => vectors \o run[w].todo = AllChunks(NotesOf(store))
  /\ run[w].step \in {"register", "link", "dangling"} => vectors = AllChunks(NotesOf(store))
  /\ run[w].step = "register" => Registering(w)
  /\ run[w].step \in {"link", "dangling"} => Linking(w)
  /\ run[w].step = "dangling" => Half(w)

OthersIdle(w) == \A u \in Runners \ {w} : run[u].step = "idle"

IndexInv ==
  /\ IndexTypes
  /\ \A w \in Runners : Typed(w) /\ (run[w].alone => OthersIdle(w) /\ Built(w))
  /\ settled => Indexed

-----------------------------------------------------------------------------
(* The invariant of the request. *)

Edge == [link : Link, dangling : BOOLEAN]
Degrees == [id : Ids, out : {Cardinality(d) : d \in SUBSET Ids},
            in : {Cardinality(e) : e \in SUBSET Edge}]

\* The chunks of some notes, each of them once, in any order.
Listed(seen, notes) ==
  /\ ToSet(seen) = ToSet(AllChunks(notes))
  /\ \A j, k \in DOMAIN seen : seen[j].chunk = seen[k].chunk => j = k

ReadTypes ==
  /\ DOMAIN read = DOMAIN NoRead
  /\ read.step \in {"idle", "query", "scan", "answer", "backlinks", "edges", "dests", "nodes", "done"}
  /\ read.met \in BOOLEAN /\ read.settled \in BOOLEAN /\ pgvector \in BOOLEAN
  /\ Reading => ~read.raised
  /\ Reading /\ ~read.met => Quiet /\ read.settled = settled

Searching ==
  /\ read.kind \in Kinds /\ NotesOK(read.notes)
  /\ read.step # "answer" => read.kind # "keyword" /\ ~read.tagged
  /\ read.step # "answer" /\ ~read.met => read.notes = NotesOf(store)

SearchInv ==
  /\ read.step \in {"query", "scan", "answer"} => Searching
  /\ read.step = "query" => read.seen = <<>> /\ read.pos = 0
  /\ read.step = "scan" =>
       /\ ~pgvector
       /\ read.seen \in Seq(Chunk) /\ read.size \in Nat /\ read.pos \in 0..read.size
       /\ ~read.met => read.size = Len(vectors) /\ read.seen = SubSeq(vectors, 1, read.pos)
  /\ read.step = "answer" =>
       /\ read.seen \in Seq(Chunk)
       /\ read.kind = "semantic" /\ read.settled /\ ~read.met => Listed(read.seen, read.notes)

\* The part of the dict before a position.
SourcesTo(pos) == {adj[k].id : k \in {i \in 1..pos : read.id \in adj[i].dests}}
LinksTo(pos) == {l \in Link : \E k \in 1..pos : l[1] = adj[k].id /\ l[2] \in adj[k].dests}
EdgesOf(links) == {[link |-> l, dangling |-> l \in dangling] : l \in links}

Iterating ==
  /\ read.notes = NotesOf(store)
  /\ read.dict # 0 => read.dict = Len(graphs) /\ read.size = Len(adj) /\ read.pos \in 0..read.size
  /\ read.step = "backlinks" =>
       /\ read.found \in Seq(Ids)
       /\ read.dict = 0 => read.pos = 0
       /\ ToSet(read.found) = SourcesTo(read.pos)
  /\ read.step \in {"edges", "dests"} =>
       /\ read.dict = 0 => read.pos = 0
       /\ read.edges = EdgesOf(LinksTo(read.pos))
       /\ read.found = <<>>
  /\ read.step = "dests" =>
       /\ read.dict # 0 /\ read.pos < read.size
       /\ read.seen = <<Cardinality(Item.dests)>>
  /\ read.step = "nodes" =>
       /\ read.edges = EdgesOf(LinksTo(Len(adj)))
       /\ read.found \in Seq(Degrees)
       /\ read.dict = 0 => read.found = <<>>
       /\ read.dict # 0 => IdsOf(read.found) = {adj[k].id : k \in 1..read.pos}

WalkInv ==
  /\ read.step = "backlinks" => read.kind = "note"
  /\ read.step \in {"edges", "dests", "nodes"} => read.kind = "graph"
  /\ read.step \in {"backlinks", "edges", "dests", "nodes"} => ~read.tagged /\ read.mode = ""
  /\ read.step \in {"backlinks", "edges", "dests", "nodes"} /\ ~read.met => Iterating

\* What a request answered, which nothing changes any more.
AnswerInv ==
  /\ WellFormedAnswer /\ HybridKeepsKeywords /\ NoFalseRefusal
  /\ GraphOfTheNotes /\ RaisedByRunsOnly /\ SemanticIsRanking

RequestInv == ReadTypes /\ SearchInv /\ WalkInv /\ AnswerInv

Inv == IndexInv /\ RequestInv

-----------------------------------------------------------------------------
(* The runs keep the invariant of the index. *)

LEMMA InitIndex ==
  ASSUME Init PROVE IndexInv
  <1>1. VaultOK(store) /\ run = [w \in Runners |-> NoRun] /\ settled = TRUE
    BY VaultsAssumption DEF Init, VaultOK
  <1>2. /\ vectors = AllChunks(NotesOf(store)) /\ graphs = <<GraphOf(store)>>
        /\ dangling = {l \in ToSet(LinksOf(NotesOf(store))) : l[2] \notin DOMAIN store}
    BY DEF Init
  <1> DEFINE notes == NotesOf(store)
             g == GraphOf(store)
  <1>3. /\ NotesOK(notes)
        /\ \A k \in DOMAIN notes : notes[k].id \in DOMAIN store
                                   /\ notes[k].text = store[notes[k].id]
        /\ \A id \in DOMAIN store : \E k \in DOMAIN notes : notes[k].id = id
    BY <1>1, NotesOfVault
  <1>4. g = [k \in DOMAIN notes |-> [id |-> notes[k].id, dests |-> ToSet(notes[k].text.links)]]
    BY DEF GraphOf
  <1>5. vectors \in Seq(Chunk)
    BY <1>2, <1>3, AllChunksType
  <1> HIDE DEF notes, g
  <1>6. /\ DOMAIN notes = 1..Len(notes) /\ Len(notes) \in Nat
        /\ \A k \in DOMAIN notes : notes[k].id \in Ids /\ notes[k].text \in Text
    BY <1>3, NoteList
  <1>7. \A k \in DOMAIN notes : ToSet(notes[k].text.links) \in SUBSET Ids
    BY <1>6 DEF Text, ToSet
  <1>8. g \in [1..Len(notes) -> Node] /\ DOMAIN g = DOMAIN notes
    BY <1>4, <1>6, <1>7 DEF Node
  <1>9. g \in Seq(Node)
    BY <1>6, <1>8
  <1>10. GraphIs(g, store)
    BY <1>3, <1>4 DEF GraphIs, IdsOf
  <1>11. graphs = <<g>>
    BY <1>2 DEF g
  <1>12. graphs \in Seq(Seq(Node)) /\ graphs # <<>> /\ adj = g
    BY <1>9, <1>11 DEF adj
  <1>13. dangling = DanglingOf(store)
    BY <1>1, <1>2, LinksOfVault DEF DanglingOf
  <1>14. IndexTypes
    BY <1>1, <1>5, <1>12 DEF IndexTypes
  <1>15. \A w \in Runners : Typed(w) /\ ~run[w].alone
    BY <1>1 DEF Typed, NoRun
  <1>16. Indexed
    BY <1>2, <1>10, <1>12, <1>13 DEF Indexed
  <1> QED  BY <1>14, <1>15, <1>16 DEF IndexInv

LEMMA IdsOfSet ==
  ASSUME NEW s PROVE IdsOf(s) = {x.id : x \in ToSet(s)}
  BY DEF IdsOf, ToSet

LEMMA IndexTypesFacts ==
  ASSUME IndexInv
  PROVE  /\ DOMAIN run = Runners /\ settled \in BOOLEAN
         /\ VaultOK(store) /\ vectors \in Seq(Chunk)
         /\ graphs \in Seq(Seq(Node)) /\ graphs # <<>> /\ adj \in Seq(Node)
  <1>1. graphs \in Seq(Seq(Node)) /\ graphs # <<>>
    BY DEF IndexInv, IndexTypes
  <1>2. adj \in Seq(Node)
    BY <1>1 DEF adj
  <1> QED  BY <1>1, <1>2 DEF IndexInv, IndexTypes

LEMMA RanTo ==
  ASSUME IndexInv, NEW w \in Runners, NEW s, NEW todo, Ran(w, s, todo)
  PROVE  /\ DOMAIN run' = Runners /\ DOMAIN run'[w] = DOMAIN NoRun
         /\ run'[w].step = s /\ run'[w].todo = todo
         /\ run'[w].vault = run[w].vault /\ run'[w].alone = run[w].alone
         /\ \A u \in Runners \ {w} : run'[u] = run[u]
  <1>1. DOMAIN run = Runners /\ DOMAIN run[w] = DOMAIN NoRun
    BY DEF IndexInv, IndexTypes, Typed
  <1>2. DOMAIN run[w] = {"step", "vault", "todo", "alone"}
    BY <1>1 DEF NoRun
  <1> QED  BY <1>1, <1>2 DEF Ran

LEMMA WentIdle ==
  ASSUME IndexInv, NEW w \in Runners, run' = [run EXCEPT ![w] = NoRun]
  PROVE  /\ DOMAIN run' = Runners /\ run'[w] = NoRun
         /\ DOMAIN run'[w] = DOMAIN NoRun /\ run'[w].step = "idle" /\ run'[w].alone = FALSE
         /\ \A u \in Runners \ {w} : run'[u] = run[u]
  <1>1. DOMAIN run = Runners
    BY DEF IndexInv, IndexTypes
  <1>2. /\ DOMAIN run' = Runners /\ run'[w] = NoRun
        /\ \A u \in Runners \ {w} : run'[u] = run[u]
    BY <1>1
  <1> QED  BY <1>2 DEF NoRun

\* A step of one runner: the others are where they were, and none of them is
\* alone; it is enough to look at the one that steps.
LEMMA OneRunner ==
  ASSUME IndexInv, NEW w \in Runners, run[w].step # "idle",
         \A u \in Runners \ {w} : run'[u] = run[u],
         run'[w].alone => run[w].alone, settled' => settled \/ run[w].alone,
         IndexTypes', Typed(w)', run'[w].alone => Built(w)', settled' => Indexed'
  PROVE  IndexInv'
  <1>1. \A u \in Runners : Typed(u) /\ (run[u].alone => OthersIdle(u) /\ Built(u))
    BY DEF IndexInv
  <1>2. run'[w].alone => OthersIdle(w)'
    BY <1>1 DEF OthersIdle
  <1>3. ASSUME NEW u \in Runners, u # w PROVE Typed(u)' /\ ~run'[u].alone
    <2>1. run'[u] = run[u] /\ Typed(u)
      BY <1>1, <1>3
    <2>2. ~run[u].alone
      BY <1>1, <1>3 DEF OthersIdle
    <2>3. run[u].step \notin {"idle", "replace"} => ~settled'
      BY <1>1, <1>3, <2>1 DEF OthersIdle, Typed
    <2> QED  BY <2>1, <2>2, <2>3 DEF Typed
  <1>4. \A u \in Runners : (Typed(u) /\ (run[u].alone => OthersIdle(u) /\ Built(u)))'
    BY <1>2, <1>3
  <1> QED  BY <1>4 DEF IndexInv

\* What is indexed, of an index that does not change.
LEMMA IndexedStays ==
  ASSUME UNCHANGED <<store, vectors, graphs, dangling>> PROVE Indexed' = Indexed
  <1> DEFINE all == AllChunks(NotesOf(store))
  <1>1. all' = all
    OBVIOUS
  <1> HIDE DEF all
  <1>2. (vectors = all)' = (vectors = all)
    BY <1>1
  <1>3. (GraphIs(adj, store) /\ dangling = DanglingOf(store))'
          = (GraphIs(adj, store) /\ dangling = DanglingOf(store))
    BY DEF GraphIs, IdsOf, DanglingOf, Links, ToSet, adj
  <1> QED  BY <1>2, <1>3 DEF Indexed, all

LEMMA BeginRunKeeps ==
  ASSUME IndexInv, NEW w \in Runners, NEW v \in Vaults, BeginRun(w, v)
  PROVE  IndexInv'
  <1>1. VaultOK(v)
    BY VaultsAssumption DEF VaultOK
  <1>2. /\ run' = [u \in Runners |->
                    IF u = w THEN [step |-> "replace", vault |-> v, todo |-> <<>>, alone |-> Quiet]
                    ELSE [run[u] EXCEPT !.alone = FALSE]]
        /\ UNCHANGED <<store, vectors, graphs, dangling, settled>>
    BY DEF BeginRun, index
  <1>3. IndexTypes'
    BY <1>2 DEF IndexInv, IndexTypes
  <1>4. ASSUME NEW u \in Runners, u # w PROVE Typed(u)' /\ ~run'[u].alone /\ run'[u].step = run[u].step
    <2>1. run'[u] = [run[u] EXCEPT !.alone = FALSE] /\ Typed(u)
      BY <1>2, <1>4 DEF IndexInv
    <2>2. DOMAIN run[u] = {"step", "vault", "todo", "alone"}
      BY <2>1 DEF Typed, NoRun
    <2>3. /\ DOMAIN run'[u] = DOMAIN run[u] /\ run'[u].step = run[u].step
          /\ run'[u].vault = run[u].vault /\ run'[u].todo = run[u].todo /\ run'[u].alone = FALSE
      BY <2>1, <2>2
    <2> QED  BY <1>2, <2>1, <2>3 DEF Typed
  <1>5. run'[w] = [step |-> "replace", vault |-> v, todo |-> <<>>, alone |-> Quiet]
    BY <1>2
  <1>6. /\ DOMAIN run'[w] = DOMAIN NoRun /\ run'[w].step = "replace" /\ run'[w].vault = v
        /\ run'[w].alone = Quiet
    BY <1>5 DEF NoRun
  <1>7. Quiet \in BOOLEAN
    BY DEF Quiet
  <1>8. Typed(w)'
    BY <1>1, <1>6, <1>7 DEF Typed
  <1>9. run'[w].alone => OthersIdle(w)'
    BY <1>4, <1>6 DEF OthersIdle, Quiet
  <1>10. Built(w)'
    BY <1>6 DEF Built
  <1>11. \A u \in Runners : (Typed(u) /\ (run[u].alone => OthersIdle(u) /\ Built(u)))'
    BY <1>4, <1>8, <1>9, <1>10
  <1>12. Indexed' = Indexed
    BY <1>2, IndexedStays
  <1> QED  BY <1>2, <1>3, <1>11, <1>12 DEF IndexInv

LEMMA ReplaceKeeps ==
  ASSUME IndexInv, NEW w \in Runners, Replace(w)
  PROVE  IndexInv'
  <1>1. /\ run[w].step = "replace" /\ store' = run[w].vault /\ settled' = FALSE
        /\ Ran(w, "clear", <<>>)
        /\ UNCHANGED <<vectors, graphs, dangling>>
    BY DEF Replace
  <1>2. /\ DOMAIN run' = Runners /\ DOMAIN run'[w] = DOMAIN NoRun /\ run'[w].step = "clear"
        /\ run'[w].vault = run[w].vault /\ run'[w].alone = run[w].alone
        /\ \A u \in Runners \ {w} : run'[u] = run[u]
    BY <1>1, RanTo
  <1>3. VaultOK(run[w].vault) /\ run[w].alone \in BOOLEAN
    BY <1>1 DEF IndexInv, Typed
  <1>4. IndexTypes'
    BY <1>1, <1>2, <1>3 DEF IndexInv, IndexTypes
  <1>5. Typed(w)' /\ Built(w)'
    BY <1>1, <1>2, <1>3 DEF Typed, Built
  <1> QED  BY <1>1, <1>2, <1>4, <1>5, OneRunner

LEMMA ClearVectorsKeeps ==
  ASSUME IndexInv, NEW w \in Runners, ClearVectors(w)
  PROVE  IndexInv'
  <1> DEFINE all == AllChunks(NotesOf(run[w].vault))
  <1>1. /\ run[w].step = "clear" /\ vectors' = <<>> /\ Ran(w, "add", all)
        /\ UNCHANGED <<store, graphs, dangling, settled>>
    BY DEF ClearVectors, Building
  <1>2. VaultOK(run[w].vault) /\ run[w].alone \in BOOLEAN /\ ~settled
    BY <1>1 DEF IndexInv, Typed
  <1>3. all \in Seq(Chunk)
    BY <1>2, NotesOfVault, AllChunksType
  <1> HIDE DEF all
  <1>4. /\ DOMAIN run' = Runners /\ DOMAIN run'[w] = DOMAIN NoRun /\ run'[w].step = "add"
        /\ run'[w].vault = run[w].vault /\ run'[w].todo = all /\ run'[w].alone = run[w].alone
        /\ \A u \in Runners \ {w} : run'[u] = run[u]
    BY <1>1, RanTo
  <1>5. <<>> \o all = all
    BY <1>3
  <1>6. IndexTypes'
    BY <1>1, <1>4 DEF IndexInv, IndexTypes
  <1>7. Typed(w)'
    BY <1>1, <1>2, <1>3, <1>4 DEF Typed
  <1>8. run'[w].alone => Built(w)'
    <2> SUFFICES ASSUME run[w].alone PROVE Built(w)'
      BY <1>4
    <2>1. store = run[w].vault
      BY <1>1 DEF IndexInv, Built
    <2>2. AllChunks(NotesOf(store))' = all
      BY <1>1, <2>1 DEF all
    <2> QED  BY <1>1, <1>4, <1>5, <2>1, <2>2 DEF Built
  <1> QED  BY <1>1, <1>2, <1>4, <1>6, <1>7, <1>8, OneRunner

\* A chunk that is new goes to the end.
LEMMA AddedTo ==
  ASSUME NEW s \in Seq(Chunk), NEW c \in Chunk
  PROVE  /\ Added(s, c) \in Seq(Chunk)
         /\ (\A k \in DOMAIN s : s[k].chunk # c.chunk) => Added(s, c) = Append(s, c)
  <1>1. DOMAIN s = 1..Len(s) /\ Len(s) \in Nat /\ \A k \in DOMAIN s : s[k] \in Chunk
    OBVIOUS
  <1> DEFINE r == [k \in DOMAIN s |-> IF s[k].chunk = c.chunk THEN c ELSE s[k]]
  <1>2. r \in Seq(Chunk)
    BY <1>1
  <1>3. Append(s, c) \in Seq(Chunk)
    OBVIOUS
  <1> QED  BY <1>2, <1>3 DEF Added

LEMMA AddVectorKeeps ==
  ASSUME IndexInv, NEW w \in Runners, AddVector(w)
  PROVE  IndexInv'
  <1> DEFINE all == AllChunks(NotesOf(store))
             todo == run[w].todo
             h == Head(todo)
             t == Tail(todo)
  <1>1. /\ run[w].step = "add" /\ todo # <<>>
        /\ vectors' = Added(vectors, h)
        /\ Ran(w, "add", t)
        /\ UNCHANGED <<store, graphs, dangling, settled>>
    BY DEF AddVector, Building
  <1>2. /\ VaultOK(run[w].vault) /\ run[w].alone \in BOOLEAN /\ ~settled /\ todo \in Seq(Chunk)
        /\ VaultOK(store) /\ vectors \in Seq(Chunk)
    BY <1>1 DEF IndexInv, IndexTypes, Typed
  <1> HIDE DEF todo
  <1>3. /\ h \in Chunk /\ t \in Seq(Chunk)
        /\ Append(vectors, h) \o t = vectors \o todo
    BY <1>1, <1>2, HeadTail
  <1> HIDE DEF h, t, all
  <1>4. vectors' \in Seq(Chunk)
    BY <1>1, <1>2, <1>3, AddedTo
  <1>5. /\ DOMAIN run' = Runners /\ DOMAIN run'[w] = DOMAIN NoRun /\ run'[w].step = "add"
        /\ run'[w].vault = run[w].vault /\ run'[w].todo = t /\ run'[w].alone = run[w].alone
        /\ \A u \in Runners \ {w} : run'[u] = run[u]
    BY <1>1, RanTo
  <1>6. IndexTypes'
    BY <1>1, <1>4, <1>5 DEF IndexInv, IndexTypes
  <1>7. Typed(w)'
    BY <1>1, <1>2, <1>3, <1>5 DEF Typed
  <1>8. run'[w].alone => Built(w)'
    <2> SUFFICES ASSUME run[w].alone PROVE Built(w)'
      BY <1>5
    <2>1. store = run[w].vault /\ vectors \o todo = all
      BY <1>1 DEF IndexInv, Built, all, todo
    <2>2. \A j, k \in DOMAIN all : all[j].chunk = all[k].chunk => j = k
      BY <1>2, NotesOfVault, AllChunksDistinct DEF all
    <2>3. ASSUME NEW k \in DOMAIN vectors PROVE vectors[k].chunk # h.chunk
      <3> DEFINE n == Len(vectors)
                 a == Append(vectors, h)
      <3>1. /\ n \in Nat /\ k \in 1..n /\ a \in Seq(Chunk) /\ Len(a) = n + 1
            /\ a[k] = vectors[k] /\ a[n + 1] = h
        BY <1>2, <1>3, <2>3
      <3> HIDE DEF a, n
      <3>2. /\ k \in DOMAIN (a \o t) /\ (a \o t)[k] = a[k]
            /\ n + 1 \in DOMAIN (a \o t) /\ (a \o t)[n + 1] = a[n + 1]
        BY <1>3, <3>1
      <3>3. k # n + 1
        BY <3>1
      <3>4. a \o t = all
        BY <1>3, <2>1 DEF a
      <3> QED  BY <2>2, <3>1, <3>2, <3>3, <3>4
    <2>4. vectors' \o t = all
      BY <1>1, <1>2, <1>3, <2>1, <2>3, AddedTo
    <2>5. AllChunks(NotesOf(store))' = all
      BY <1>1 DEF all
    <2> QED  BY <1>1, <1>5, <2>1, <2>4, <2>5 DEF Built
  <1> QED  BY <1>1, <1>2, <1>5, <1>6, <1>7, <1>8, OneRunner

LEMMA ResetGraphKeeps ==
  ASSUME IndexInv, NEW w \in Runners, ResetGraph(w)
  PROVE  IndexInv'
  <1> DEFINE notes == NotesOf(run[w].vault)
  <1>1. /\ run[w].step = "add" /\ run[w].todo = <<>>
        /\ graphs' = Append(graphs, <<>>) /\ dangling' = {}
        /\ Ran(w, "register", notes)
        /\ UNCHANGED <<store, vectors, settled>>
    BY DEF ResetGraph, Building
  <1>2. /\ VaultOK(run[w].vault) /\ run[w].alone \in BOOLEAN /\ ~settled
        /\ vectors \in Seq(Chunk) /\ graphs \in Seq(Seq(Node)) /\ graphs # <<>>
    BY <1>1 DEF IndexInv, IndexTypes, Typed
  <1>3. /\ NotesOK(notes)
        /\ \A k \in DOMAIN notes : notes[k].id \in DOMAIN run[w].vault
        /\ \A id \in DOMAIN run[w].vault : \E k \in DOMAIN notes : notes[k].id = id
    BY <1>2, NotesOfVault
  <1> HIDE DEF notes
  <1>4. notes \in Seq(Note) /\ IdsOf(notes) = DOMAIN run[w].vault
    <2>1. notes \in Seq(Note)
      BY <1>3 DEF NotesOK
    <2> QED  BY <1>3, <2>1 DEF IdsOf
  <1>5. /\ DOMAIN run' = Runners /\ DOMAIN run'[w] = DOMAIN NoRun /\ run'[w].step = "register"
        /\ run'[w].vault = run[w].vault /\ run'[w].todo = notes /\ run'[w].alone = run[w].alone
        /\ \A u \in Runners \ {w} : run'[u] = run[u]
    BY <1>1, RanTo
  <1>6. <<>> \in Seq(Node)
    OBVIOUS
  <1>7. graphs' \in Seq(Seq(Node)) /\ graphs' # <<>> /\ adj' = <<>>
    BY <1>1, <1>2, <1>6, LastDict DEF adj
  <1>8. IdsOf(adj') = {} /\ DOMAIN adj' = {}
    BY <1>7 DEF IdsOf
  <1>9. IndexTypes'
    BY <1>1, <1>5, <1>7 DEF IndexInv, IndexTypes
  <1>10. Typed(w)'
    BY <1>1, <1>2, <1>4, <1>5 DEF Typed
  <1>11. run'[w].alone => Built(w)'
    <2> SUFFICES ASSUME run[w].alone PROVE Built(w)'
      BY <1>5
    <2> DEFINE all == AllChunks(NotesOf(store))
    <2>1. store = run[w].vault /\ vectors \o <<>> = all
      BY <1>1 DEF IndexInv, Built
    <2> HIDE DEF all
    <2>2. vectors = all
      BY <1>2, <2>1
    <2>3. Registering(w)'
      BY <1>1, <1>4, <1>5, <1>8, <2>1 DEF Registering, IdsOf
    <2>4. AllChunks(NotesOf(store))' = all
      BY <1>1 DEF all
    <2> QED  BY <1>1, <1>5, <2>1, <2>2, <2>3, <2>4 DEF Built
  <1> QED  BY <1>1, <1>2, <1>5, <1>9, <1>10, <1>11, OneRunner

\* A step of a lone run within the graph part leaves the vectors what they are.
LEMMA VectorsStay ==
  ASSUME IndexInv, NEW w \in Runners, run[w].alone,
         run[w].step \in {"register", "link", "dangling"}, UNCHANGED <<store, vectors>>
  PROVE  store = run[w].vault /\ (vectors = AllChunks(NotesOf(store)))'
  <1> DEFINE all == AllChunks(NotesOf(store))
  <1>1. store = run[w].vault /\ vectors = all
    BY DEF IndexInv, Built
  <1>2. all' = all
    OBVIOUS
  <1> HIDE DEF all
  <1>3. vectors' = all'
    BY <1>1, <1>2
  <1> QED  BY <1>1, <1>3 DEF all

\* A key that is not there is added, without links.
LEMMA RegisteredDict ==
  ASSUME NEW g \in Seq(Node), NEW id \in Ids
  PROVE  /\ Registered(g, id) \in Seq(Node)
         /\ IdsOf(Registered(g, id)) = IdsOf(g) \cup {id}
         /\ (\A k \in DOMAIN g : g[k].dests = {}) =>
              \A k \in DOMAIN Registered(g, id) : Registered(g, id)[k].dests = {}
  <1> DEFINE n == [id |-> id, dests |-> {}]
             new == Append(g, n)
  <1>1. n \in Node
    BY DEF Node
  <1>2. n.id = id /\ n.dests = {}
    OBVIOUS
  <1> HIDE DEF n
  <1>3. /\ new \in Seq(Node) /\ DOMAIN new = 1..Len(g)+1 /\ DOMAIN g = 1..Len(g)
        /\ Len(g) \in Nat /\ new[Len(g) + 1] = n
        /\ \A k \in DOMAIN g : new[k] = g[k]
    BY <1>1
  <1> HIDE DEF new
  <1>4. \A k \in DOMAIN new : k \in DOMAIN g \/ k = Len(g) + 1
    BY <1>3
  <1>5. Len(g) + 1 \in DOMAIN new /\ \A k \in DOMAIN g : k \in DOMAIN new
    BY <1>3
  <1>6. IdsOf(new) = IdsOf(g) \cup {id}
    BY <1>2, <1>3, <1>4, <1>5 DEF IdsOf
  <1>7. (\A k \in DOMAIN g : g[k].dests = {}) => \A k \in DOMAIN new : new[k].dests = {}
    BY <1>2, <1>3, <1>4
  <1> QED  BY <1>3, <1>6, <1>7 DEF Registered, new, n

LEMMA RegisterKeeps ==
  ASSUME IndexInv, NEW w \in Runners, Register(w)
  PROVE  IndexInv'
  <1> DEFINE todo == run[w].todo
             h == Head(todo)
             t == Tail(todo)
             new == Registered(adj, h.id)
  <1>1. /\ run[w].step = "register" /\ todo # <<>>
        /\ graphs' = [graphs EXCEPT ![Len(graphs)] = new]
        /\ Ran(w, "register", t)
        /\ UNCHANGED <<store, vectors, dangling, settled>>
    BY DEF Register, Building, adj
  <1>2. /\ VaultOK(run[w].vault) /\ run[w].alone \in BOOLEAN /\ ~settled /\ todo \in Seq(Note)
        /\ graphs \in Seq(Seq(Node)) /\ graphs # <<>> /\ adj \in Seq(Node)
    BY <1>1, IndexTypesFacts DEF IndexInv, Typed
  <1> HIDE DEF todo
  <1>3. h \in Note /\ t \in Seq(Note) /\ ToSet(todo) = {h} \cup ToSet(t)
    BY <1>1, <1>2, HeadTail
  <1> HIDE DEF h, t
  <1>4. h.id \in Ids
    BY <1>3 DEF Note
  <1>5. /\ new \in Seq(Node) /\ IdsOf(new) = IdsOf(adj) \cup {h.id}
        /\ (\A k \in DOMAIN adj : adj[k].dests = {}) => \A k \in DOMAIN new : new[k].dests = {}
    BY <1>2, <1>4, RegisteredDict
  <1> HIDE DEF new
  <1>6. graphs' \in Seq(Seq(Node)) /\ graphs' # <<>> /\ adj' = new
    BY <1>1, <1>2, <1>5, LastDict DEF adj
  <1>7. /\ DOMAIN run' = Runners /\ DOMAIN run'[w] = DOMAIN NoRun /\ run'[w].step = "register"
        /\ run'[w].vault = run[w].vault /\ run'[w].todo = t /\ run'[w].alone = run[w].alone
        /\ \A u \in Runners \ {w} : run'[u] = run[u]
    BY <1>1, RanTo
  <1>8. IndexTypes'
    BY <1>1, <1>6, <1>7 DEF IndexInv, IndexTypes
  <1>9. Typed(w)'
    BY <1>1, <1>2, <1>3, <1>7 DEF Typed
  <1>10. run'[w].alone => Built(w)'
    <2> SUFFICES ASSUME run[w].alone PROVE Built(w)'
      BY <1>7
    <2>1. Registering(w)
      BY <1>1 DEF IndexInv, Built
    <2>2. IdsOf(todo) = {h.id} \cup IdsOf(t)
      BY <1>3, IdsOfSet
    <2>3. IdsOf(new) \cup IdsOf(t) = DOMAIN store
      BY <1>5, <2>1, <2>2 DEF Registering, todo
    <2>4. IdsOf(adj)' = IdsOf(new) /\ IdsOf(run[w].todo)' = IdsOf(t)
      BY <1>6, <1>7 DEF IdsOf
    <2>5. Registering(w)'
      BY <1>1, <1>5, <1>6, <2>1, <2>3, <2>4 DEF Registering
    <2>6. store = run[w].vault /\ (vectors = AllChunks(NotesOf(store)))'
      BY <1>1, VectorsStay
    <2> QED  BY <1>1, <1>7, <2>5, <2>6 DEF Built
  <1> QED  BY <1>1, <1>2, <1>7, <1>8, <1>9, <1>10, OneRunner

LEMMA EndPassKeeps ==
  ASSUME IndexInv, NEW w \in Runners, EndPass(w)
  PROVE  IndexInv'
  <1> DEFINE all == AllChunks(NotesOf(store))
             links == LinksOf(NotesOf(run[w].vault))
  <1>1. run[w].todo = <<>> /\ UNCHANGED <<store, vectors, graphs, dangling>>
    BY DEF EndPass, index
  <1>2. /\ ToSet(<<>>) = {} /\ IdsOf(<<>>) = {}
        /\ adj' = adj /\ IdsOf(adj)' = IdsOf(adj) /\ DanglingOf(store)' = DanglingOf(store)
        /\ GraphIs(adj, store)' = GraphIs(adj, store) /\ all' = all
    BY <1>1 DEF adj, GraphIs, IdsOf, DanglingOf, Links, ToSet
  <1> HIDE DEF all, links
  <1>3. CASE run[w].step = "register" /\ Ran(w, "link", links) /\ settled' = settled
    <2>1. VaultOK(run[w].vault) /\ run[w].alone \in BOOLEAN /\ ~settled
      BY <1>3 DEF IndexInv, Typed
    <2>2. links \in Seq(Link) /\ ToSet(links) = Links(run[w].vault)
      BY <2>1, LinksOfVault DEF Link, links
    <2>3. /\ DOMAIN run' = Runners /\ DOMAIN run'[w] = DOMAIN NoRun /\ run'[w].step = "link"
          /\ run'[w].vault = run[w].vault /\ run'[w].todo = links /\ run'[w].alone = run[w].alone
          /\ \A u \in Runners \ {w} : run'[u] = run[u]
      BY <1>3, RanTo
    <2>4. IndexTypes'
      BY <1>1, <1>3, <2>3 DEF IndexInv, IndexTypes
    <2>5. Typed(w)'
      BY <1>3, <2>1, <2>2, <2>3 DEF Typed
    <2>6. run'[w].alone => Built(w)'
      <3> SUFFICES ASSUME run[w].alone PROVE Built(w)'
        BY <2>3
      <3>1. store = run[w].vault /\ Registering(w)
        BY <1>3 DEF IndexInv, Built
      <3>2. IdsOf(adj) = DOMAIN store /\ (\A k \in DOMAIN adj : adj[k].dests = {}) /\ dangling = {}
        BY <1>1, <1>2, <3>1 DEF Registering
      <3>3. \A id \in DOMAIN store :
              {d \in Ids : <<id, d>> \in Links(store)} = ToSet(store[id].links)
        <4> TAKE id \in DOMAIN store
        <4>1. id \in Ids /\ store[id] \in Text
          BY <2>1, <3>1 DEF VaultOK
        <4>2. ToSet(store[id].links) \in SUBSET Ids
          BY <4>1 DEF Text, ToSet
        <4>3. \A d \in Ids : <<id, d>> \in Links(store) <=> d \in ToSet(store[id].links)
          BY <4>1 DEF Links
        <4> QED  BY <4>2, <4>3
      <3>4. \A k \in DOMAIN adj :
              adj[k].dests \cup {d \in Ids : <<adj[k].id, d>> \in ToSet(links)}
                = ToSet(store[adj[k].id].links)
        <4> TAKE k \in DOMAIN adj
        <4>1. adj[k].id \in DOMAIN store
          BY <3>2 DEF IdsOf
        <4> QED  BY <2>2, <3>1, <3>2, <3>3, <4>1
      <3>5. dangling \cup {l \in ToSet(links) : l[2] \notin DOMAIN store} = DanglingOf(store)
        BY <2>2, <3>1, <3>2 DEF DanglingOf
      <3>6. Linking(w)'
        BY <1>1, <1>2, <2>3, <3>2, <3>4, <3>5 DEF Linking, ToSet
      <3>7. store = run[w].vault /\ (vectors = AllChunks(NotesOf(store)))'
        BY <1>1, <1>3, VectorsStay
      <3> QED  BY <1>1, <2>3, <3>6, <3>7 DEF Built
    <2> QED  BY <1>3, <2>1, <2>3, <2>4, <2>5, <2>6, OneRunner
  <1>4. CASE run[w].step = "link" /\ run' = [run EXCEPT ![w] = NoRun] /\ settled' = run[w].alone
    <2>1. run[w].alone \in BOOLEAN
      BY DEF IndexInv, Typed
    <2>2. /\ DOMAIN run' = Runners /\ DOMAIN run'[w] = DOMAIN NoRun /\ run'[w].step = "idle"
          /\ run'[w].alone = FALSE /\ \A u \in Runners \ {w} : run'[u] = run[u]
      BY <1>4, WentIdle
    <2>3. IndexTypes'
      BY <1>1, <1>4, <2>1, <2>2 DEF IndexInv, IndexTypes
    <2>4. Typed(w)'
      BY <2>2 DEF Typed
    <2>5. ASSUME run[w].alone PROVE Indexed'
      <3>1. Linking(w)
        BY <1>4, <2>5 DEF IndexInv, Built
      <3>2. GraphIs(adj, store)
        BY <1>1, <1>2, <3>1 DEF Linking, GraphIs
      <3>3. dangling = DanglingOf(store)
        BY <1>1, <1>2, <3>1 DEF Linking
      <3>4. (vectors = AllChunks(NotesOf(store)))'
        BY <1>1, <1>4, <2>5, VectorsStay
      <3> QED  BY <1>1, <1>2, <3>2, <3>3, <3>4 DEF Indexed
    <2> QED  BY <1>4, <2>2, <2>3, <2>4, <2>5, OneRunner
  <1> QED  BY <1>3, <1>4 DEF EndPass, links

LEMMA LinkedDict ==
  ASSUME NEW g \in Seq(Node), NEW l \in Link
  PROVE  /\ WithLink(g, l) \in Seq(Node) /\ DOMAIN WithLink(g, l) = DOMAIN g
         /\ \A k \in DOMAIN g :
              /\ WithLink(g, l)[k].id = g[k].id
              /\ WithLink(g, l)[k].dests = g[k].dests \cup {d \in Ids : <<g[k].id, d>> = l}
  <1>1. DOMAIN g = 1..Len(g) /\ Len(g) \in Nat
        /\ \A k \in DOMAIN g : /\ g[k].id \in Ids /\ g[k].dests \in SUBSET Ids
                               /\ g[k] = [id |-> g[k].id, dests |-> g[k].dests]
    <2>1. DOMAIN g = 1..Len(g) /\ Len(g) \in Nat /\ \A k \in DOMAIN g : g[k] \in Node
      OBVIOUS
    <2>2. \A n \in Node : /\ n.id \in Ids /\ n.dests \in SUBSET Ids
                          /\ n = [id |-> n.id, dests |-> n.dests]
      BY DEF Node
    <2> QED  BY <2>1, <2>2
  <1>2. l[1] \in Ids /\ l[2] \in Ids /\ l = <<l[1], l[2]>>
    BY DEF Link
  <1> DEFINE w == WithLink(g, l)
  <1>3. DOMAIN w = DOMAIN g
    BY DEF WithLink
  <1>4. ASSUME NEW k \in DOMAIN g
        PROVE  /\ w[k] \in Node /\ w[k].id = g[k].id
               /\ w[k].dests = g[k].dests \cup {d \in Ids : <<g[k].id, d>> = l}
    <2>1. CASE g[k].id = l[1]
      <3>1. w[k] = [g[k] EXCEPT !.dests = @ \cup {l[2]}]
        BY <2>1 DEF WithLink
      <3>2. w[k] = [id |-> g[k].id, dests |-> g[k].dests \cup {l[2]}]
        <4> DEFINE n == g[k]
        <4>1. n = [id |-> n.id, dests |-> n.dests]
          BY <1>1
        <4>2. w[k] = [n EXCEPT !.dests = n.dests \cup {l[2]}]
          BY <3>1
        <4> HIDE DEF n, w
        <4>3. w[k] = [id |-> n.id, dests |-> n.dests \cup {l[2]}]
          BY <4>1, <4>2
        <4> QED  BY <4>3 DEF n
      <3>3. {d \in Ids : <<g[k].id, d>> = l} = {l[2]}
        BY <1>2, <2>1
      <3> HIDE DEF w
      <3> QED  BY <1>1, <1>2, <3>2, <3>3 DEF Node
    <2>2. CASE g[k].id # l[1]
      <3>1. w[k] = g[k]
        BY <2>2 DEF WithLink
      <3>2. {d \in Ids : <<g[k].id, d>> = l} = {}
        BY <1>2, <2>2
      <3> HIDE DEF w
      <3> QED  BY <1>1, <3>1, <3>2 DEF Node
    <2> QED  BY <2>1, <2>2
  <1> HIDE DEF w
  <1>5. w \in Seq(Node)
    <2>1. w = [k \in DOMAIN w |-> w[k]]
      BY DEF w, WithLink
    <2> QED  BY <1>1, <1>3, <1>4, <2>1
  <1> QED  BY <1>3, <1>4, <1>5 DEF w

LEMMA AddLinkKeeps ==
  ASSUME IndexInv, NEW w \in Runners, AddLink(w)
  PROVE  IndexInv'
  <1> DEFINE todo == run[w].todo
             h == Head(todo)
             t == Tail(todo)
             new == WithLink(adj, h)
             next == IF h[2] \in DOMAIN run[w].vault THEN "link" ELSE "dangling"
             rest == IF h[2] \in DOMAIN run[w].vault THEN t ELSE todo
  <1>1. /\ run[w].step = "link" /\ todo # <<>>
        /\ graphs' = [graphs EXCEPT ![Len(graphs)] = new]
        /\ Ran(w, next, rest)
        /\ UNCHANGED <<store, vectors, dangling, settled>>
    BY DEF AddLink, Building, adj
  <1>2. /\ VaultOK(run[w].vault) /\ run[w].alone \in BOOLEAN /\ ~settled /\ todo \in Seq(Link)
        /\ graphs \in Seq(Seq(Node)) /\ graphs # <<>> /\ adj \in Seq(Node)
    BY <1>1, IndexTypesFacts DEF IndexInv, Typed
  <1> HIDE DEF todo
  <1>3. h \in Link /\ t \in Seq(Link) /\ ToSet(todo) = {h} \cup ToSet(t)
    BY <1>1, <1>2, HeadTail
  <1>4. next \in {"link", "dangling"} /\ rest \in Seq(Link) /\ (next = "dangling" => rest = todo)
    BY <1>2, <1>3
  <1>5. /\ next = "link" => h[2] \in DOMAIN run[w].vault /\ rest = t
        /\ next = "dangling" => h[2] \notin DOMAIN run[w].vault
    OBVIOUS
  <1> HIDE DEF h, t, next, rest
  <1>6. /\ new \in Seq(Node) /\ DOMAIN new = DOMAIN adj
        /\ \A k \in DOMAIN adj :
             /\ new[k].id = adj[k].id
             /\ new[k].dests = adj[k].dests \cup {d \in Ids : <<adj[k].id, d>> = h}
    BY <1>2, <1>3, LinkedDict
  <1> HIDE DEF new
  <1>7. graphs' \in Seq(Seq(Node)) /\ graphs' # <<>> /\ adj' = new
    BY <1>1, <1>2, <1>6, LastDict DEF adj
  <1>8. /\ DOMAIN run' = Runners /\ DOMAIN run'[w] = DOMAIN NoRun /\ run'[w].step = next
        /\ run'[w].vault = run[w].vault /\ run'[w].todo = rest /\ run'[w].alone = run[w].alone
        /\ \A u \in Runners \ {w} : run'[u] = run[u]
    BY <1>1, RanTo
  <1>9. IndexTypes'
    BY <1>1, <1>7, <1>8 DEF IndexInv, IndexTypes
  <1>10. Typed(w)'
    BY <1>1, <1>2, <1>4, <1>8 DEF Typed
  <1>11. run'[w].alone => Built(w)'
    <2> SUFFICES ASSUME run[w].alone PROVE Built(w)'
      BY <1>8
    <2>1. /\ Linking(w) /\ store = run[w].vault
          /\ (vectors = AllChunks(NotesOf(store)))'
      BY <1>1, VectorsStay DEF IndexInv, Built
    <2>2. IdsOf(adj)' = DOMAIN store
      <3>1. IdsOf(new) = IdsOf(adj)
        BY <1>6 DEF IdsOf
      <3>2. IdsOf(adj)' = IdsOf(new)
        BY <1>7 DEF IdsOf
      <3> QED  BY <2>1, <3>1, <3>2 DEF Linking
    <2>3. /\ DanglingOf(store)' = DanglingOf(store)
          /\ ToSet(run[w].todo)' = ToSet(rest)
      BY <1>1, <1>8 DEF DanglingOf, Links, ToSet
    <2>4. ASSUME NEW k \in DOMAIN new
          PROVE  new[k].dests \cup {d \in Ids : <<new[k].id, d>> \in ToSet(rest)}
                   = ToSet(store[new[k].id].links)
      <3>1. adj[k].dests \cup {d \in Ids : <<adj[k].id, d>> \in ToSet(todo)}
              = ToSet(store[adj[k].id].links)
        BY <1>6, <2>1, <2>4 DEF Linking, todo
      <3>2. {d \in Ids : <<adj[k].id, d>> \in ToSet(todo)} \cup {d \in Ids : <<adj[k].id, d>> = h} =
              {d \in Ids : <<adj[k].id, d>> = h} \cup {d \in Ids : <<adj[k].id, d>> \in ToSet(rest)}
        BY <1>3, <1>4, <1>5
      <3>3. {d \in Ids : <<adj[k].id, d>> = h} \subseteq {d \in Ids : <<adj[k].id, d>> \in ToSet(todo)}
        BY <1>3
      <3> QED  BY <1>6, <2>4, <3>1, <3>2, <3>3
    <2>5. (\A k \in DOMAIN adj :
             adj[k].dests \cup {d \in Ids : <<adj[k].id, d>> \in ToSet(run[w].todo)}
               = ToSet(store[adj[k].id].links))'
      BY <1>1, <1>7, <1>8, <2>4
    <2>6. dangling \cup {l \in ToSet(rest) : l[2] \notin DOMAIN store} = DanglingOf(store)
      <3>1. {l \in ToSet(rest) : l[2] \notin DOMAIN store}
              = {l \in ToSet(todo) : l[2] \notin DOMAIN store}
        BY <1>3, <1>4, <1>5, <2>1
      <3> QED  BY <2>1, <3>1 DEF Linking, todo
    <2>7. Linking(w)'
      BY <1>1, <2>2, <2>3, <2>5, <2>6 DEF Linking
    <2>8. \A k \in DOMAIN new : new[k].id = h[1] => h[2] \in new[k].dests
      <3>1. h = <<h[1], h[2]>> /\ h[2] \in Ids
        BY <1>3 DEF Link
      <3> QED  BY <1>6, <3>1
    <2>9. run'[w].step = "dangling" => Half(w)'
      <3> SUFFICES ASSUME next = "dangling" PROVE Half(w)'
        BY <1>8
      <3>1. Head(run'[w].todo) = h /\ h[2] \notin DOMAIN store
        BY <1>4, <1>5, <1>8, <2>1 DEF h
      <3> QED  BY <1>1, <1>7, <2>8, <3>1 DEF Half
    <2> QED  BY <1>1, <1>4, <1>8, <2>1, <2>7, <2>9 DEF Built
  <1> QED  BY <1>1, <1>2, <1>8, <1>9, <1>10, <1>11, OneRunner

LEMMA AddDanglingKeeps ==
  ASSUME IndexInv, NEW w \in Runners, AddDangling(w)
  PROVE  IndexInv'
  <1> DEFINE todo == run[w].todo
             h == Head(todo)
             t == Tail(todo)
  <1>1. /\ run[w].step = "dangling" /\ dangling' = dangling \cup {h}
        /\ Ran(w, "link", t)
        /\ UNCHANGED <<store, vectors, graphs, settled>>
    BY DEF AddDangling, Building
  <1>2. /\ VaultOK(run[w].vault) /\ run[w].alone \in BOOLEAN /\ ~settled
        /\ todo \in Seq(Link) /\ todo # <<>> /\ adj \in Seq(Node)
    BY <1>1, IndexTypesFacts DEF IndexInv, Typed
  <1> HIDE DEF todo
  <1>3. h \in Link /\ t \in Seq(Link) /\ ToSet(todo) = {h} \cup ToSet(t)
    BY <1>2, HeadTail
  <1>4. /\ DOMAIN run' = Runners /\ DOMAIN run'[w] = DOMAIN NoRun /\ run'[w].step = "link"
        /\ run'[w].vault = run[w].vault /\ run'[w].todo = t /\ run'[w].alone = run[w].alone
        /\ \A u \in Runners \ {w} : run'[u] = run[u]
    BY <1>1, RanTo
  <1>5. IndexTypes'
    BY <1>1, <1>4 DEF IndexInv, IndexTypes
  <1>6. Typed(w)'
    BY <1>1, <1>2, <1>3, <1>4 DEF Typed
  <1>7. run'[w].alone => Built(w)'
    <2> SUFFICES ASSUME run[w].alone PROVE Built(w)'
      BY <1>4
    <2>1. /\ Linking(w) /\ Half(w) /\ store = run[w].vault
          /\ (vectors = AllChunks(NotesOf(store)))'
      BY <1>1, VectorsStay DEF IndexInv, Built
    <2>2. h[2] \notin DOMAIN store /\ \A k \in DOMAIN adj : adj[k].id = h[1] => h[2] \in adj[k].dests
      BY <2>1 DEF Half, h, todo
    <2> HIDE DEF h, t
    <2>3. /\ adj' = adj /\ IdsOf(adj)' = IdsOf(adj) /\ ToSet(run[w].todo)' = ToSet(t)
          /\ DanglingOf(store)' = DanglingOf(store)
      BY <1>1, <1>4 DEF adj, IdsOf, DanglingOf, Links, ToSet
    <2>4. \A k \in DOMAIN adj :
            adj[k].dests \cup {d \in Ids : <<adj[k].id, d>> \in ToSet(t)}
              = ToSet(store[adj[k].id].links)
      <3> TAKE k \in DOMAIN adj
      <3>1. adj[k].dests \cup {d \in Ids : <<adj[k].id, d>> \in ToSet(todo)}
              = ToSet(store[adj[k].id].links)
        BY <2>1 DEF Linking, todo
      <3>2. ASSUME NEW d \in Ids, <<adj[k].id, d>> = h PROVE d \in adj[k].dests
        <4>1. adj[k].id = h[1] /\ d = h[2]
          BY <3>2
        <4> QED  BY <2>2, <4>1
      <3> QED  BY <1>3, <3>1, <3>2
    <2>5. (dangling \cup {h}) \cup {l \in ToSet(t) : l[2] \notin DOMAIN store} = DanglingOf(store)
      BY <1>3, <2>1, <2>2 DEF Linking, todo
    <2>6. (\A k \in DOMAIN adj :
             adj[k].dests \cup {d \in Ids : <<adj[k].id, d>> \in ToSet(run[w].todo)}
               = ToSet(store[adj[k].id].links))'
      BY <1>1, <1>4, <2>3, <2>4
    <2>7. IdsOf(adj) = DOMAIN store
      BY <2>1 DEF Linking
    <2>8. Linking(w)'
      BY <1>1, <1>4, <2>3, <2>5, <2>6, <2>7 DEF Linking
    <2> QED  BY <1>1, <1>4, <2>1, <2>8 DEF Built
  <1> QED  BY <1>1, <1>2, <1>4, <1>5, <1>6, <1>7, OneRunner

\* A run that raises leaves the index as it is: settled only if it had not
\* stored its notes.
LEMMA RunRaisesKeeps ==
  ASSUME IndexInv, NEW w \in Runners, RunRaises(w)
  PROVE  IndexInv'
  <1>1. /\ run[w].step # "idle" /\ run' = [run EXCEPT ![w] = NoRun]
        /\ UNCHANGED <<store, vectors, graphs, dangling, settled>>
    BY DEF RunRaises, Building, index
  <1>2. /\ DOMAIN run' = Runners /\ DOMAIN run'[w] = DOMAIN NoRun /\ run'[w].step = "idle"
        /\ run'[w].alone = FALSE /\ \A u \in Runners \ {w} : run'[u] = run[u]
    BY <1>1, WentIdle
  <1>3. IndexTypes'
    BY <1>1, <1>2 DEF IndexInv, IndexTypes
  <1>4. Typed(w)'
    BY <1>2 DEF Typed
  <1>5. Indexed' = Indexed
    BY <1>1, IndexedStays
  <1>6. settled => Indexed
    BY DEF IndexInv
  <1> QED  BY <1>1, <1>2, <1>3, <1>4, <1>5, <1>6, OneRunner

\* A step of a run leaves the request alone, but for the mark a new run makes.
RunOnly == ~Quiet /\ read' = read
Begun == \E w \in Runners, v \in Vaults : BeginRun(w, v)

LEMMA RunKeeps ==
  ASSUME IndexInv, Run
  PROVE  IndexInv' /\ pgvector' = pgvector /\ (RunOnly \/ Begun)
  <1>1. PICK w \in Runners :
          \/ \E v \in Vaults : BeginRun(w, v)
          \/ Replace(w) \/ ClearVectors(w) \/ AddVector(w)
          \/ ResetGraph(w) \/ Register(w) \/ AddLink(w) \/ AddDangling(w)
          \/ EndPass(w) \/ RunRaises(w)
    BY DEF Run
  <1>2. CASE \E v \in Vaults : BeginRun(w, v)
    BY <1>2, BeginRunKeeps DEF BeginRun, Begun
  <1>3. CASE Replace(w)
    BY <1>3, ReplaceKeeps DEF Replace, Working, RunOnly, Quiet
  <1>4. CASE ClearVectors(w)
    BY <1>4, ClearVectorsKeeps DEF ClearVectors, Building, Working, RunOnly, Quiet
  <1>5. CASE AddVector(w)
    BY <1>5, AddVectorKeeps DEF AddVector, Building, Working, RunOnly, Quiet
  <1>6. CASE ResetGraph(w)
    BY <1>6, ResetGraphKeeps DEF ResetGraph, Building, Working, RunOnly, Quiet
  <1>7. CASE Register(w)
    BY <1>7, RegisterKeeps DEF Register, Building, Working, RunOnly, Quiet
  <1>8. CASE AddLink(w)
    BY <1>8, AddLinkKeeps DEF AddLink, Building, Working, RunOnly, Quiet
  <1>9. CASE AddDangling(w)
    BY <1>9, AddDanglingKeeps DEF AddDangling, Building, Working, RunOnly, Quiet
  <1>10. CASE EndPass(w)
    BY <1>10, EndPassKeeps DEF EndPass, Working, RunOnly, Quiet
  <1>11. CASE RunRaises(w)
    BY <1>11, RunRaisesKeeps DEF RunRaises, Building, Working, RunOnly, Quiet
  <1> QED  BY <1>1, <1>2, <1>3, <1>4, <1>5, <1>6, <1>7, <1>8, <1>9, <1>10, <1>11

-----------------------------------------------------------------------------
(* The request, while runs go on and while it goes on itself. *)

Fields == {"step", "kind", "tagged", "notes", "met", "settled", "seen", "pos", "size", "dict",
           "raised", "mode", "id", "found", "edges", "dangling"}

LEMMA FieldsOfRead == DOMAIN NoRead = Fields
  BY DEF NoRead, Fields

\* Until it is done a request has answered nothing.
LEMMA NoAnswerYet ==
  ASSUME read.step # "done", ~read.raised
  PROVE  AnswerInv
  BY DEF AnswerInv, WellFormedAnswer, HybridKeepsKeywords, NoFalseRefusal, GraphOfTheNotes,
         RaisedByRunsOnly, SemanticIsRanking, Answers

LEMMA RunLeavesRequest ==
  ASSUME RequestInv, RunOnly, pgvector' = pgvector
  PROVE  RequestInv'
  <1>1. read' = read /\ ~Quiet
    BY DEF RunOnly
  <1>2. Reading => read.met
    BY <1>1 DEF RequestInv, ReadTypes
  <1>3. ReadTypes'
    BY <1>1, <1>2 DEF RequestInv, ReadTypes, Reading
  <1>4. SearchInv'
    <2>1. read.step \in {"query", "scan", "answer"} => Reading
      BY DEF Reading
    <2> QED  BY <1>1, <1>2, <2>1 DEF RequestInv, SearchInv, Searching
  <1>5. WalkInv'
    <2>1. read.step \in {"backlinks", "edges", "dests", "nodes"} => Reading
      BY DEF Reading
    <2> QED  BY <1>1, <1>2, <2>1 DEF RequestInv, WalkInv
  <1>6. AnswerInv'
    BY <1>1 DEF RequestInv, AnswerInv, WellFormedAnswer, HybridKeepsKeywords, NoFalseRefusal,
                GraphOfTheNotes, RaisedByRunsOnly, SemanticIsRanking, Answers, Search, Undisturbed
  <1> QED  BY <1>3, <1>4, <1>5, <1>6 DEF RequestInv

LEMMA RunMeetsRequest ==
  ASSUME RequestInv, Begun
  PROVE  RequestInv'
  <1>1. /\ read' = IF Reading THEN [read EXCEPT !.met = TRUE] ELSE read
        /\ pgvector' = pgvector
        /\ DOMAIN read = Fields
    BY FieldsOfRead DEF Begun, BeginRun, RequestInv, ReadTypes
  <1>2. CASE ~Reading
    <2>1. read' = read /\ read.step \in {"idle", "done"}
      BY <1>1, <1>2 DEF Reading
    <2>2. ReadTypes'
      BY <1>1, <2>1 DEF RequestInv, ReadTypes, Reading
    <2>3. SearchInv' /\ WalkInv'
      BY <2>1 DEF SearchInv, WalkInv
    <2>4. AnswerInv'
      BY <1>1, <2>1 DEF RequestInv, AnswerInv, WellFormedAnswer, HybridKeepsKeywords,
           NoFalseRefusal, GraphOfTheNotes, RaisedByRunsOnly, SemanticIsRanking,
           Answers, Search, Undisturbed
    <2> QED  BY <2>2, <2>3, <2>4 DEF RequestInv
  <1>3. CASE Reading
    <2>1. read' = [read EXCEPT !.met = TRUE]
      BY <1>1, <1>3
    <2>2. /\ DOMAIN read' = Fields /\ read'.met = TRUE /\ read'.step = read.step
          /\ read'.settled = read.settled
          /\ read'.raised = read.raised /\ read'.kind = read.kind /\ read'.notes = read.notes
          /\ read'.tagged = read.tagged /\ read'.seen = read.seen /\ read'.pos = read.pos
          /\ read'.size = read.size /\ read'.mode = read.mode
      BY <1>1, <2>1 DEF Fields
    <2>3. ~read'.raised /\ read'.step # "done"
      BY <1>3, <2>2 DEF RequestInv, ReadTypes, Reading
    <2>4. ReadTypes'
      BY <1>1, <2>2, <2>3, FieldsOfRead DEF RequestInv, ReadTypes, Reading
    <2>5. SearchInv'
      BY <1>1, <2>2 DEF RequestInv, SearchInv, Searching
    <2>6. WalkInv'
      BY <2>2 DEF RequestInv, WalkInv
    <2>7. AnswerInv'
      BY <2>3 DEF AnswerInv, WellFormedAnswer, HybridKeepsKeywords, NoFalseRefusal,
                  GraphOfTheNotes, RaisedByRunsOnly, SemanticIsRanking, Answers
    <2> QED  BY <2>4, <2>5, <2>6, <2>7 DEF RequestInv
  <1> QED  BY <1>2, <1>3

LEMMA IndexUnmoved ==
  ASSUME IndexInv, UNCHANGED <<store, vectors, graphs, dangling, run, settled>>
  PROVE  IndexInv' /\ Quiet' = Quiet /\ adj' = adj
  <1>1. Quiet' = Quiet /\ adj' = adj
    BY DEF Quiet, adj
  <1>2. IndexTypes'
    BY DEF IndexInv, IndexTypes
  <1>3. Indexed' = Indexed
    BY IndexedStays
  <1>4. ASSUME NEW w \in Runners
        PROVE  (Typed(w) /\ (run[w].alone => OthersIdle(w) /\ Built(w)))'
    <2> DEFINE all == AllChunks(NotesOf(store))
    <2>1. all' = all
      OBVIOUS
    <2>2. Typed(w) /\ (run[w].alone => OthersIdle(w) /\ Built(w))
      BY DEF IndexInv
    <2> HIDE DEF all
    <2>3. Built(w) = Built(w)'
      BY <1>1, <2>1 DEF Built, Registering, Linking, Half, all
    <2> QED  BY <2>2, <2>3 DEF Typed, OthersIdle
  <1> QED  BY <1>1, <1>2, <1>3, <1>4 DEF IndexInv

\* A request changes nothing but itself.
LEMMA AsideKeeps ==
  ASSUME IndexInv, Aside
  PROVE  /\ IndexInv' /\ UNCHANGED <<pgvector, store, vectors, graphs, dangling, run, settled>>
         /\ Quiet' = Quiet /\ adj' = adj
  <1>1. UNCHANGED <<pgvector, store, vectors, graphs, dangling, run, settled>>
    BY DEF Aside, index
  <1> QED  BY <1>1, IndexUnmoved

\* A request that goes on.
LEMMA GoesOn ==
  ASSUME ReadTypes', SearchInv', WalkInv', (read.step # "done")', (~read.raised)'
  PROVE  RequestInv'
  <1>1. AnswerInv'
    BY DEF AnswerInv, WellFormedAnswer, HybridKeepsKeywords, NoFalseRefusal,
                  GraphOfTheNotes, RaisedByRunsOnly, SemanticIsRanking, Answers
  <1> QED  BY <1>1 DEF RequestInv

\* A request that ends.
LEMMA Ends ==
  ASSUME pgvector \in BOOLEAN, pgvector' = pgvector, NEW r, DOMAIN r = Fields, r.met \in BOOLEAN,
         r.settled \in BOOLEAN,
         Done(r), AnswerInv'
  PROVE  RequestInv'
  <1>1. read' = [r EXCEPT !.step = "done", !.seen = <<>>, !.pos = 0, !.size = 0, !.dict = 0]
    BY DEF Done
  <1>2. DOMAIN read' = Fields /\ read'.step = "done" /\ read'.met = r.met
        /\ read'.settled = r.settled
    BY <1>1 DEF Fields
  <1>3. ReadTypes'
    BY <1>2, FieldsOfRead DEF ReadTypes, Reading
  <1>4. SearchInv' /\ WalkInv'
    BY <1>2 DEF SearchInv, WalkInv
  <1> QED  BY <1>3, <1>4 DEF RequestInv

\* A request that fails.
LEMMA Fails ==
  ASSUME ReadTypes, Aside, Raise,
         read.met, ~read.tagged, read.kind # "keyword",
         read.kind \in {"note", "graph"} \/ ~pgvector
  PROVE  RequestInv'
  <1> DEFINE r == [read EXCEPT !.raised = TRUE, !.found = <<>>, !.edges = {}]
  <1>1. /\ DOMAIN read = Fields /\ pgvector \in BOOLEAN /\ pgvector' = pgvector
        /\ read.met \in BOOLEAN /\ read.settled \in BOOLEAN
    BY FieldsOfRead DEF ReadTypes, Aside
  <1>2. /\ DOMAIN r = Fields /\ r.met = read.met /\ r.raised = TRUE /\ r.tagged = read.tagged
        /\ r.settled = read.settled
        /\ r.kind = read.kind
    BY <1>1 DEF Fields
  <1>3. Done(r)
    BY DEF Raise
  <1> HIDE DEF r
  <1>4. read' = [r EXCEPT !.step = "done", !.seen = <<>>, !.pos = 0, !.size = 0, !.dict = 0]
    BY <1>3 DEF Done
  <1>5. /\ read'.raised = TRUE /\ read'.met /\ ~read'.tagged /\ read'.kind = read.kind
    BY <1>2, <1>4 DEF Fields
  <1>6. AnswerInv'
    BY <1>1, <1>5 DEF AnswerInv, WellFormedAnswer, HybridKeepsKeywords, NoFalseRefusal,
                  GraphOfTheNotes, RaisedByRunsOnly, SemanticIsRanking, Answers
  <1> QED  BY <1>1, <1>2, <1>3, <1>6, Ends

-----------------------------------------------------------------------------
(* The answer to a semantic query of all chunks of its notes. *)

\* A note's similarity is the greatest of its chunks'.
LEMMA SimilarityBest ==
  ASSUME NEW n \in Note
  PROVE  /\ Similarity(n) \in Int
         /\ \E j \in DOMAIN ChunksOf(n) : ChunksOf(n)[j].score = Similarity(n)
         /\ \A j \in DOMAIN ChunksOf(n) : ChunksOf(n)[j].score <= Similarity(n)
  <1> DEFINE c == ChunksOf(n)
             S == {x.score : x \in ToSet(c)}
  <1>1. c \in Seq(Chunk) /\ c # <<>>
    BY ChunksType
  <1> HIDE DEF c
  <1>2. DOMAIN c # {} /\ \A j \in DOMAIN c : c[j] \in Chunk /\ c[j].score \in Int
    <2>1. DOMAIN c # {} /\ \A j \in DOMAIN c : c[j] \in Chunk
      <3>1. Len(c) \in Nat /\ Len(c) # 0 /\ DOMAIN c = 1..Len(c)
        BY <1>1
      <3>2. 1 \in DOMAIN c
        BY <3>1
      <3>3. \A j \in DOMAIN c : c[j] \in Chunk
        BY <1>1
      <3> QED  BY <3>2, <3>3
    <2>2. \A x \in Chunk : x.score \in Int
      BY DEF Chunk
    <2> QED  BY <2>1, <2>2
  <1>3. \A x \in Chunk : x.score \in Int
    BY DEF Chunk
  <1>4. DOMAIN c \in SUBSET DOMAIN c
    OBVIOUS
  <1>5. PICK i \in DOMAIN c : \A j \in DOMAIN c : \/ c[j].score < c[i].score
                                                  \/ c[j].score = c[i].score /\ i <= j
    BY <1>1, <1>2, <1>3, <1>4, BestExists
  <1>6. \A j \in DOMAIN c : c[j].score <= c[i].score
    BY <1>2, <1>5
  <1>7. (\A j \in DOMAIN c : c[j].score \in S) /\ \A x \in S : \E j \in DOMAIN c : x = c[j].score
    BY DEF ToSet
  <1> HIDE DEF S
  <1>8. \E x \in S : \A y \in S : x >= y
    BY <1>2, <1>6, <1>7
  <1>9. Max(S) \in S /\ \A y \in S : Max(S) >= y
    BY <1>8 DEF Max
  <1>10. Similarity(n) = Max(S)
    BY DEF Similarity, S, c
  <1>11. \E j \in DOMAIN c : c[j].score = Similarity(n)
    BY <1>7, <1>9, <1>10
  <1>12. \A j \in DOMAIN c : c[j].score <= Similarity(n)
    BY <1>2, <1>7, <1>9, <1>10, <1>11
  <1> QED  BY <1>2, <1>11, <1>12 DEF c

\* A finite set of notes, as a list.
LEMMA AsList ==
  ASSUME NEW S, IsFiniteSet(S), S \subseteq Note, \A m, n \in S : m.id = n.id => m = n
  PROVE  NotesOK(SetToSeq(S)) /\ ToSet(SetToSeq(S)) = S
  <1> DEFINE N == Cardinality(S)
             s == SetToSeq(S)
  <1>1. N \in Nat /\ IsFiniteSet(1..N) /\ Cardinality(1..N) = N
    BY FS_CardinalityType, FS_Interval
  <1>2. ExistsBijection(1..N, S)
    BY <1>1, FS_SameCardinalityBij
  <1>3. \E f \in [1..N -> S] : IsInjective(f)
    BY <1>2 DEF ExistsBijection, Bijection, Injection
  <1>4. s \in [1..N -> S] /\ IsInjective(s)
    BY <1>3 DEF SetToSeq
  <1>5. s \in Injection(1..N, S)
    BY <1>4 DEF Injection
  <1>6. s \in Surjection(1..N, S)
    BY <1>1, <1>5, FS_Injection
  <1> HIDE DEF s, N
  <1>7. s \in Seq(Note) /\ DOMAIN s = 1..N
    BY <1>1, <1>4
  <1>8. ToSet(s) = S
    BY <1>4, <1>6, <1>7 DEF ToSet, Surjection
  <1>9. \A j, k \in DOMAIN s : s[j].id = s[k].id => j = k
    BY <1>4, <1>7 DEF IsInjective
  <1> QED  BY <1>7, <1>8, <1>9 DEF NotesOK, s

Ranks(found, notes) ==
  LET left == {n \in ToSet(notes) : n.id \notin IdsOf(found)}
      shown == ToSet(notes) \ left
  IN
  /\ \A r \in ToSet(found) : \E n \in shown :
       n.id = r.id /\ r.score = Similarity(n) /\ r.snippet = n.text
  /\ \A n \in left : \A r \in ToSet(found) : Similarity(n) <= r.score
  /\ left # {} /\ Len(found) < Limit =>
       Len(AllChunks(SetToSeq(shown))) >= 4 * Limit

LEMMA SemanticRanking ==
  ASSUME NEW notes, NotesOK(notes), NEW seen \in Seq(Chunk), Listed(seen, notes)
  PROVE  Ranks(RollUp(notes, Fetched(seen)), notes)
  <1> DEFINE h == Fetched(seen)
             found == RollUp(notes, h)
             F == 4 * Limit
             left == {n \in ToSet(notes) : n.id \notin IdsOf(found)}
             shown == ToSet(notes) \ left
  <1>1. /\ DOMAIN notes = 1..Len(notes) /\ Len(notes) \in Nat
        /\ \A k \in DOMAIN notes : notes[k] \in Note
        /\ \A j, k \in DOMAIN notes : notes[j].id = notes[k].id => j = k
    BY NoteList DEF NotesOK
  <1>2. /\ F \in Nat /\ Limit \in Nat
        /\ (\A x \in Chunk : x.score \in Int) /\ (\A x \in Match : x.score \in Int)
    BY LimitAssumption DEF Chunk, Match
  <1>3. h = Top(Ranked(seen), F)
    BY DEF Fetched
  <1> HIDE DEF h, F
  <1>4. /\ h \in Seq(Chunk) /\ Len(h) \in Nat /\ DOMAIN h = 1..Len(h)
        /\ \A k \in DOMAIN h : h[k].score \in Int
    <2>1. h \in Seq(Chunk) /\ Len(h) \in Nat
      BY <1>2, <1>3, TopRanked
    <2> QED  BY <1>2, <2>1
  <1>5. BestOf(h, seen, F)
    BY <1>2, <1>3, TopRanked
  <1>6. PICK p : /\ Takes(p, Len(h), seen)
                 /\ \A k \in 1..Len(h) : h[k] = seen[p[k]]
                 /\ \A i \in 1..Len(seen) :
                      \/ \E k \in 1..Len(h) : p[k] = i
                      \/ Len(h) = F /\ \A k \in 1..F : h[k].score >= seen[i].score
    BY <1>5 DEF BestOf
  <1>7. PICK items : Rolled(items, notes, h) /\ found = Top(Ranked(items), Limit)
    BY <1>4, RollUpItems
  <1> HIDE DEF found
  <1>8. /\ items \in Seq(Match) /\ DOMAIN items = 1..Len(items) /\ Len(items) \in Nat
        /\ \A k \in DOMAIN items : items[k].score \in Int
    BY <1>2, <1>7 DEF Rolled
  <1>9. /\ found \in Seq(Match) /\ Len(found) \in Nat /\ DOMAIN found = 1..Len(found)
        /\ \A k \in DOMAIN found : found[k].score \in Int
    <2>1. found \in Seq(Match) /\ Len(found) \in Nat
      BY <1>2, <1>7, <1>8, TopRanked
    <2> QED  BY <1>2, <2>1
  <1>10. PICK q : /\ Takes(q, Len(found), items)
                  /\ \A k \in 1..Len(found) : found[k] = items[q[k]]
                  /\ \A i \in 1..Len(items) :
                       \/ \E k \in 1..Len(found) : q[k] = i
                       \/ /\ Len(found) = Limit
                          /\ \A k \in 1..Limit : found[k].score >= items[i].score
    <2>1. BestOf(found, items, Limit)
      BY <1>2, <1>7, <1>8, TopRanked
    <2> QED  BY <2>1 DEF BestOf
  <1>11. /\ DOMAIN seen = 1..Len(seen)
         /\ \A j, k \in DOMAIN seen : seen[j].chunk = seen[k].chunk => j = k
         /\ \A x : (\E i \in DOMAIN notes : \E j \in DOMAIN ChunksOf(notes[i]) :
                      x = ChunksOf(notes[i])[j])
                   <=> \E k \in DOMAIN seen : x = seen[k]
    <2>1. ToSet(seen) = ToSet(AllChunks(notes))
      BY DEF Listed
    <2>2. \A x : x \in ToSet(AllChunks(notes)) <=>
                   \E i \in DOMAIN notes : \E j \in DOMAIN ChunksOf(notes[i]) :
                     x = ChunksOf(notes[i])[j]
      BY AllChunksDistinct
    <2>3. \A x : x \in ToSet(seen) <=> \E k \in DOMAIN seen : x = seen[k]
      BY DEF ToSet
    <2>4. DOMAIN seen = 1..Len(seen)
      OBVIOUS
    <2> QED  BY <2>1, <2>2, <2>3, <2>4 DEF Listed
  \* A hit is a chunk of a note.
  <1>12. ASSUME NEW k \in DOMAIN h
         PROVE  \E i \in DOMAIN notes : \E j \in DOMAIN ChunksOf(notes[i]) :
                  /\ h[k] = ChunksOf(notes[i])[j] /\ h[k].chunk = <<notes[i].id, j>>
                  /\ h[k].text = notes[i].text /\ h[k].score <= Similarity(notes[i])
    <2>1. h[k] = seen[p[k]] /\ p[k] \in DOMAIN seen
      BY <1>4, <1>6, <1>11 DEF Takes
    <2>2. PICK i \in DOMAIN notes : \E j \in DOMAIN ChunksOf(notes[i]) :
                                      h[k] = ChunksOf(notes[i])[j]
      BY <1>11, <2>1
    <2>3. PICK j \in DOMAIN ChunksOf(notes[i]) : h[k] = ChunksOf(notes[i])[j]
      BY <2>2
    <2> QED  BY <1>1, <2>3, ChunksType, SimilarityBest
  \* The best chunk of a note is a hit, or all hits are as good.
  <1>13. ASSUME NEW i \in DOMAIN notes
         PROVE  \/ \E k \in DOMAIN h : /\ h[k].chunk[1] = notes[i].id
                                       /\ h[k].score = Similarity(notes[i])
                \/ /\ Len(h) = F
                   /\ \A k \in DOMAIN h : h[k].score >= Similarity(notes[i])
    <2>1. PICK j \in DOMAIN ChunksOf(notes[i]) : ChunksOf(notes[i])[j].score = Similarity(notes[i])
      BY <1>1, SimilarityBest
    <2>2. ChunksOf(notes[i])[j].chunk = <<notes[i].id, j>>
      BY <1>1, ChunksType
    <2>3. PICK x \in DOMAIN seen : ChunksOf(notes[i])[j] = seen[x]
      BY <1>11
    <2>4. CASE \E k \in 1..Len(h) : p[k] = x
      <3>1. PICK k \in 1..Len(h) : p[k] = x
        BY <2>4
      <3>2. k \in DOMAIN h /\ h[k] = ChunksOf(notes[i])[j]
        BY <1>4, <1>6, <2>3, <3>1
      <3>3. h[k].chunk[1] = notes[i].id /\ h[k].score = Similarity(notes[i])
        BY <2>1, <2>2, <3>2
      <3> QED  BY <3>2, <3>3
    <2>5. CASE Len(h) = F /\ \A k \in 1..F : h[k].score >= seen[x].score
      BY <1>4, <2>1, <2>3, <2>5
    <2> QED  BY <1>6, <1>11, <2>4, <2>5
  \* A result is a result of a note that is shown.
  <1>14. ASSUME NEW y \in DOMAIN found
         PROVE  /\ q[y] \in DOMAIN items /\ found[y] = items[q[y]]
                /\ \E m \in DOMAIN h : h[m].chunk[1] = found[y].id /\ h[m].score = found[y].score
                                       /\ h[m].text = found[y].snippet
                /\ \A m \in DOMAIN h : h[m].chunk[1] = found[y].id => h[m].score <= found[y].score
                /\ \E i \in DOMAIN notes : notes[i].id = found[y].id
    <2>1. q[y] \in DOMAIN items /\ found[y] = items[q[y]]
      BY <1>8, <1>9, <1>10 DEF Takes
    <2> QED  BY <1>7, <2>1 DEF Rolled
  <1>15. ASSUME NEW y \in DOMAIN found
         PROVE  \E i \in DOMAIN notes :
                  /\ notes[i].id = found[y].id /\ found[y].score = Similarity(notes[i])
                  /\ found[y].snippet = notes[i].text
    <2>1. PICK m \in DOMAIN h : h[m].chunk[1] = found[y].id /\ h[m].score = found[y].score
                                /\ h[m].text = found[y].snippet
      BY <1>14
    <2>2. PICK i \in DOMAIN notes : \E j \in DOMAIN ChunksOf(notes[i]) :
            /\ h[m] = ChunksOf(notes[i])[j] /\ h[m].chunk = <<notes[i].id, j>>
            /\ h[m].text = notes[i].text /\ h[m].score <= Similarity(notes[i])
      BY <1>12
    <2>3. notes[i].id = found[y].id /\ found[y].snippet = notes[i].text
          /\ found[y].score <= Similarity(notes[i])
      BY <2>1, <2>2
    <2>4. Similarity(notes[i]) <= found[y].score
      <3>1. CASE \E k \in DOMAIN h : /\ h[k].chunk[1] = notes[i].id
                                     /\ h[k].score = Similarity(notes[i])
        BY <1>14, <2>3, <3>1
      <3>2. CASE \A k \in DOMAIN h : h[k].score >= Similarity(notes[i])
        <4>1. h[m].score >= Similarity(notes[i]) /\ h[m].score \in Int
          BY <1>4, <3>2
        <4> QED  BY <1>1, <2>1, <4>1, SimilarityBest
      <3> QED  BY <1>13, <3>1, <3>2
    <2>5. Similarity(notes[i]) \in Int /\ found[y].score \in Int
      BY <1>1, <1>9, SimilarityBest
    <2> QED  BY <2>3, <2>4, <2>5
  \* What a note that is left out has in its favour.
  <1>16. ASSUME NEW i \in DOMAIN notes, notes[i].id \notin IdsOf(found)
         PROVE  /\ \A y \in DOMAIN found : Similarity(notes[i]) <= found[y].score
                /\ Len(found) < Limit => Len(h) = F
    <2>0. Similarity(notes[i]) \in Int
      BY <1>1, SimilarityBest
    <2>1. CASE \E k \in DOMAIN h : /\ h[k].chunk[1] = notes[i].id
                                   /\ h[k].score = Similarity(notes[i])
      <3>1. PICK k \in DOMAIN h : /\ h[k].chunk[1] = notes[i].id
                                  /\ h[k].score = Similarity(notes[i])
        BY <2>1
      <3>2. PICK x \in DOMAIN items : items[x].id = notes[i].id
        BY <1>7, <3>1 DEF Rolled
      <3>3. Similarity(notes[i]) <= items[x].score
        BY <1>7, <3>1, <3>2 DEF Rolled
      <3>4. \A y \in 1..Len(found) : q[y] # x
        <4> SUFFICES ASSUME NEW y \in DOMAIN found, q[y] = x PROVE FALSE
          BY <1>9
        <4>1. found[y].id = notes[i].id
          BY <1>14, <3>2
        <4> QED  BY <1>16, <4>1 DEF IdsOf
      <3>5. Len(found) = Limit /\ \A y \in 1..Limit : found[y].score >= items[x].score
        BY <1>8, <1>10, <3>4
      <3>6. items[x].score \in Int
        BY <1>8
      <3> QED  BY <1>2, <1>9, <2>0, <3>3, <3>5, <3>6
    <2>2. CASE Len(h) = F /\ \A k \in DOMAIN h : h[k].score >= Similarity(notes[i])
      <3>1. ASSUME NEW y \in DOMAIN found PROVE Similarity(notes[i]) <= found[y].score
        <4>1. PICK m \in DOMAIN h : h[m].score = found[y].score
          BY <1>14
        <4> QED  BY <1>4, <2>0, <2>2, <4>1
      <3> QED  BY <2>2, <3>1
    <2> QED  BY <1>13, <2>1, <2>2
  \* When there are fewer results than the limit, every hit is of a note shown.
  <1>17. ASSUME Len(found) < Limit, NEW k \in DOMAIN h
         PROVE  \E n \in shown : \E j \in DOMAIN ChunksOf(n) : h[k] = ChunksOf(n)[j]
    <2>1. PICK i \in DOMAIN notes : \E j \in DOMAIN ChunksOf(notes[i]) :
            h[k] = ChunksOf(notes[i])[j] /\ h[k].chunk = <<notes[i].id, j>>
      BY <1>12
    <2>2. h[k].chunk[1] = notes[i].id
      BY <2>1
    <2>3. PICK x \in DOMAIN items : items[x].id = notes[i].id
      BY <1>7, <2>2 DEF Rolled
    <2>4. PICK y \in 1..Len(found) : q[y] = x
      BY <1>2, <1>8, <1>9, <1>10, <1>17
    <2>5. notes[i].id \in IdsOf(found)
      BY <1>9, <1>14, <2>3, <2>4 DEF IdsOf
    <2>6. notes[i] \in shown
      BY <2>5 DEF ToSet
    <2> QED  BY <2>1, <2>6
  <1>18. /\ IsFiniteSet(shown) /\ shown \subseteq Note
         /\ \A m, n \in shown : m.id = n.id => m = n
    <2>1. \A n \in shown : \E k \in DOMAIN notes : n = notes[k]
      BY DEF ToSet
    <2> HIDE DEF shown
    <2>2. shown \subseteq Note /\ \A m, n \in shown : m.id = n.id => m = n
      BY <1>1, <2>1
    <2> DEFINE f == [k \in DOMAIN notes |-> notes[k]]
               R == {notes[k] : k \in DOMAIN notes}
    <2>3. f \in Surjection(DOMAIN notes, R)
      BY DEF Surjection
    <2>4. IsFiniteSet(DOMAIN notes)
      BY <1>1, FS_Interval
    <2>5. IsFiniteSet(R)
      <3> HIDE DEF f, R
      <3> QED  BY <2>3, <2>4, FS_Surjection
    <2>6. shown \in SUBSET R
      BY <2>1
    <2> HIDE DEF R
    <2>7. IsFiniteSet(shown)
      BY <2>5, <2>6, FS_Subset
    <2> QED  BY <2>2, <2>7
  <1> DEFINE S == SetToSeq(shown)
             all == AllChunks(S)
  <1>19. ASSUME Len(found) < Limit, Len(h) = F PROVE Len(all) >= F
    <2> HIDE DEF shown
    <2>1. NotesOK(S) /\ ToSet(S) = shown
      BY <1>18, AsList
    <2>2. /\ all \in Seq(Chunk)
          /\ \A x : x \in ToSet(all) <=>
                      \E i \in DOMAIN S : \E j \in DOMAIN ChunksOf(S[i]) : x = ChunksOf(S[i])[j]
      BY <2>1, AllChunksDistinct
    <2>3. \A n \in shown : \E i \in DOMAIN S : n = S[i]
      BY <2>1 DEF ToSet
    <2> HIDE DEF all, S
    <2>4. \A k \in 1..F : h[k] \in ToSet(all)
      BY <1>4, <1>17, <1>19, <2>2, <2>3
    <2>5. \A k \in 1..F : \E m \in 1..Len(all) : all[m] = h[k]
      BY <2>2, <2>4 DEF ToSet
    <2> DEFINE z == [k \in 1..F |-> CHOOSE m \in 1..Len(all) : all[m] = h[k]]
    <2>6. z \in [1..F -> 1..Len(all)] /\ \A k \in 1..F : all[z[k]] = h[k]
      BY <2>5
    <2> HIDE DEF z
    <2>7. \A j, k \in 1..F : h[j] = h[k] => j = k
      <3> SUFFICES ASSUME NEW j \in 1..F, NEW k \in 1..F, h[j] = h[k] PROVE j = k
        OBVIOUS
      <3>1. /\ p[j] \in DOMAIN seen /\ p[k] \in DOMAIN seen
            /\ h[j] = seen[p[j]] /\ h[k] = seen[p[k]]
        BY <1>6, <1>11, <1>19 DEF Takes
      <3>2. p[j] = p[k]
        BY <1>11, <3>1
      <3> QED  BY <1>6, <1>19, <3>2 DEF Takes
    <2>8. z \in Injection(1..F, 1..Len(all))
      BY <2>6, <2>7 DEF Injection, IsInjective
    <2>9. Len(all) \in Nat
      BY <2>2
    <2>10. /\ IsFiniteSet(1..F) /\ Cardinality(1..F) = F
           /\ IsFiniteSet(1..Len(all)) /\ Cardinality(1..Len(all)) = Len(all)
      <3>1. \A n \in Nat : IsFiniteSet(1..n) /\ Cardinality(1..n) = n
        BY FS_Interval
      <3> QED  BY <1>2, <2>9, <3>1
    <2> QED  BY <1>2, <2>8, <2>9, <2>10, FS_Injection
  <1>20. \A r \in ToSet(found) : \E n \in shown :
           n.id = r.id /\ r.score = Similarity(n) /\ r.snippet = n.text
    <2> TAKE r \in ToSet(found)
    <2>1. PICK y \in DOMAIN found : r = found[y]
      BY DEF ToSet
    <2>2. PICK i \in DOMAIN notes :
            /\ notes[i].id = found[y].id /\ found[y].score = Similarity(notes[i])
            /\ found[y].snippet = notes[i].text
      BY <1>15
    <2>3. notes[i] \in shown
      BY <2>2 DEF ToSet, IdsOf
    <2> QED  BY <2>1, <2>2, <2>3
  <1>21. \A n \in left : \A r \in ToSet(found) : Similarity(n) <= r.score
    BY <1>16 DEF ToSet
  <1>22. left # {} /\ Len(found) < Limit => Len(all) >= F
    <2> SUFFICES ASSUME left # {}, Len(found) < Limit PROVE Len(all) >= F
      OBVIOUS
    <2>1. PICK i \in DOMAIN notes : notes[i].id \notin IdsOf(found)
      BY DEF ToSet
    <2>2. Len(h) = F
      BY <1>16, <2>1
    <2> QED  BY <1>19, <2>2
  <1>23. Ranks(found, notes)
    BY <1>20, <1>21, <1>22 DEF Ranks, F
  <1> QED  BY <1>23 DEF found, h

-----------------------------------------------------------------------------
(* Each step of a search keeps the invariant. *)

LEMMA EmptyList ==
  /\ NotesOK(<<>>) /\ ToSet(<<>>) = {} /\ <<>> \in Seq(Chunk)
  /\ ToSet(AllChunks(<<>>)) = {}
  <1>1. NotesOK(<<>>)
    BY DEF NotesOK
  <1>2. \A x : x \notin ToSet(AllChunks(<<>>))
    BY <1>1, AllChunksDistinct
  <1>3. ToSet(<<>>) = {} /\ <<>> \in Seq(Chunk)
    BY DEF ToSet
  <1> QED  BY <1>1, <1>2, <1>3

LEMMA AllListed ==
  ASSUME NEW notes, NotesOK(notes)
  PROVE  Listed(AllChunks(notes), notes)
  BY AllChunksDistinct DEF Listed

LEMMA ReverseLists ==
  ASSUME NEW notes, NEW seen \in Seq(Chunk)
  PROVE  /\ Reverse(seen) \in Seq(Chunk)
         /\ Listed(seen, notes) => Listed(Reverse(seen), notes)
  <1> DEFINE n == Len(seen)
             r == Reverse(seen)
  <1>1. n \in Nat /\ DOMAIN seen = 1..n /\ \A k \in 1..n : seen[k] \in Chunk
    OBVIOUS
  <1>2. r = [i \in 1..n |-> seen[(n - i) + 1]]
    BY DEF Reverse
  <1> HIDE DEF n, r
  <1>3. \A i \in 1..n : (n - i) + 1 \in 1..n /\ (n - ((n - i) + 1)) + 1 = i
    BY <1>1
  <1>4. r \in [1..n -> Chunk] /\ DOMAIN r = 1..n /\ \A i \in 1..n : r[i] = seen[(n - i) + 1]
    BY <1>1, <1>2, <1>3
  <1>5. r \in Seq(Chunk)
    BY <1>1, <1>4
  <1>6. ToSet(r) = ToSet(seen)
    <2>1. \A x \in ToSet(r) : x \in ToSet(seen)
      BY <1>1, <1>3, <1>4 DEF ToSet
    <2>2. \A k \in 1..n : r[(n - k) + 1] = seen[k]
      BY <1>3, <1>4
    <2>3. \A x \in ToSet(seen) : x \in ToSet(r)
      BY <1>1, <1>3, <1>4, <2>2 DEF ToSet
    <2> QED  BY <2>1, <2>3
  <1>7. ASSUME Listed(seen, notes), NEW j \in 1..n, NEW k \in 1..n, r[j].chunk = r[k].chunk
        PROVE  j = k
    <2>1. (n - j) + 1 = (n - k) + 1
      BY <1>1, <1>3, <1>4, <1>7 DEF Listed
    <2> QED  BY <1>1, <2>1
  <1> QED  BY <1>4, <1>5, <1>6, <1>7 DEF Listed, r

LEMMA BeginSearchKeeps ==
  ASSUME IndexInv, RequestInv, NEW kind \in Kinds, NEW tagged \in BOOLEAN, BeginSearch(kind, tagged)
  PROVE  RequestInv'
  <1> DEFINE all == NotesOf(store)
             notes == IF tagged THEN Select(all, {k \in DOMAIN all : all[k].text.tagged}) ELSE all
             local == kind = "keyword" \/ notes = <<>> \/ tagged
             seen == IF tagged THEN AllChunks(notes) ELSE <<>>
  <1>1. /\ tagged => kind # "chat"
        /\ read' = [Begin(kind, notes) EXCEPT !.tagged = tagged,
                                              !.step = IF local THEN "answer" ELSE "query",
                                              !.seen = seen]
        /\ Aside
    BY DEF BeginSearch
  <1>2. VaultOK(store) /\ pgvector \in BOOLEAN /\ settled \in BOOLEAN
    BY IndexTypesFacts DEF RequestInv, ReadTypes
  <1>3. NotesOK(all)
    BY <1>2, NotesOfVault
  <1>4. NotesOK(notes)
    <2> HIDE DEF all
    <2>1. {k \in DOMAIN all : all[k].text.tagged} \in SUBSET DOMAIN all
      OBVIOUS
    <2> QED  BY <1>3, <2>1, SelectedNotes
  <1> HIDE DEF notes
  <1>5. seen \in Seq(Chunk)
    BY <1>4, AllChunksType, EmptyList
  <1> HIDE DEF seen, local
  <1>6. /\ DOMAIN read' = Fields /\ read'.kind = kind /\ read'.notes = notes
        /\ read'.met = ~Quiet /\ read'.tagged = tagged /\ read'.raised = FALSE
        /\ read'.settled = settled
        /\ read'.step = (IF local THEN "answer" ELSE "query") /\ read'.seen = seen
        /\ read'.pos = 0
    BY <1>1 DEF Begin, NoRead, Fields
  <1>7. /\ Quiet' = Quiet /\ settled' = settled /\ store' = store
        /\ pgvector' = pgvector /\ all' = all
    BY <1>1, AsideKeeps
  <1>8. ReadTypes'
    BY <1>2, <1>6, <1>7, FieldsOfRead DEF ReadTypes
  <1>9. Searching'
    <2>1. ~local => kind # "keyword" /\ ~tagged /\ notes = NotesOf(store)
      BY DEF local, notes
    <2> QED  BY <1>4, <1>6, <1>7, <2>1 DEF Searching
  <1>10. ~local => seen = <<>>
    BY DEF local, seen
  <1>11. local /\ kind = "semantic" => Listed(seen, notes)
    <2>1. CASE tagged
      BY <1>4, <2>1, AllListed DEF seen
    <2>2. CASE notes = <<>> /\ ~tagged
      BY <2>2, EmptyList DEF seen, Listed
    <2> QED  BY <2>1, <2>2 DEF local
  <1>12. SearchInv'
    BY <1>5, <1>6, <1>9, <1>10, <1>11 DEF SearchInv
  <1>13. WalkInv'
    BY <1>6 DEF WalkInv
  <1>14. (read.step # "done")' /\ (~read.raised)'
    BY <1>6
  <1> QED  BY <1>8, <1>12, <1>13, <1>14, GoesOn

LEMMA QueryTableKeeps ==
  ASSUME IndexInv, RequestInv, QueryTable
  PROVE  RequestInv'
  <1>1. /\ read.step = "query" /\ Aside
        /\ \E rows \in {vectors, Reverse(vectors)} :
             read' = [read EXCEPT !.step = "answer", !.seen = rows]
    BY DEF QueryTable
  <1>2. PICK rows \in {vectors, Reverse(vectors)} :
          read' = [read EXCEPT !.step = "answer", !.seen = rows]
    BY <1>1
  <1>3. vectors \in Seq(Chunk) /\ DOMAIN read = Fields /\ VaultOK(store)
    BY IndexTypesFacts, FieldsOfRead DEF RequestInv, ReadTypes
  <1>4. rows \in Seq(Chunk)
    BY <1>2, <1>3, ReverseLists
  <1>5. /\ DOMAIN read' = Fields /\ read'.kind = read.kind /\ read'.notes = read.notes
        /\ read'.met = read.met /\ read'.tagged = read.tagged /\ read'.raised = read.raised
        /\ read'.settled = read.settled
        /\ read'.step = "answer" /\ read'.seen = rows
    BY <1>2, <1>3 DEF Fields
  <1>6. Searching /\ read.step = "query" /\ Reading
    BY <1>1 DEF RequestInv, SearchInv, Reading
  <1>7. Quiet' = Quiet /\ settled' = settled /\ store' = store /\ pgvector' = pgvector
    BY <1>1, AsideKeeps
  <1>8. ReadTypes'
    BY <1>5, <1>6, <1>7, FieldsOfRead DEF RequestInv, ReadTypes, Reading
  <1>9. read.settled /\ ~read.met => Listed(rows, read.notes)
    <2> SUFFICES ASSUME read.settled, ~read.met PROVE Listed(rows, read.notes)
      OBVIOUS
    <2>1. settled /\ read.notes = NotesOf(store) /\ NotesOK(read.notes)
      BY <1>6 DEF RequestInv, ReadTypes, Searching
    <2>2. vectors = AllChunks(NotesOf(store))
      BY <2>1 DEF IndexInv, Indexed
    <2>3. Listed(vectors, read.notes)
      BY <2>1, <2>2, AllListed
    <2> QED  BY <1>2, <1>3, <2>3, ReverseLists
  <1>10. Searching'
    BY <1>5, <1>6 DEF Searching
  <1>11. SearchInv'
    BY <1>4, <1>5, <1>9, <1>10 DEF SearchInv
  <1>12. WalkInv'
    BY <1>5 DEF WalkInv
  <1>13. (read.step # "done")' /\ (~read.raised)'
    BY <1>5, <1>6 DEF RequestInv, ReadTypes
  <1> QED  BY <1>8, <1>11, <1>12, <1>13, GoesOn

LEMMA BeginScanKeeps ==
  ASSUME IndexInv, RequestInv, BeginScan
  PROVE  RequestInv'
  <1>1. /\ read.step = "query" /\ ~pgvector /\ Aside
        /\ read' = [read EXCEPT !.step = "scan", !.size = Len(vectors)]
    BY DEF BeginScan
  <1>2. vectors \in Seq(Chunk) /\ DOMAIN read = Fields
    BY IndexTypesFacts, FieldsOfRead DEF RequestInv, ReadTypes
  <1>3. /\ DOMAIN read' = Fields /\ read'.kind = read.kind /\ read'.notes = read.notes
        /\ read'.met = read.met /\ read'.tagged = read.tagged /\ read'.raised = read.raised
        /\ read'.settled = read.settled
        /\ read'.step = "scan" /\ read'.seen = read.seen /\ read'.pos = read.pos
        /\ read'.size = Len(vectors)
    BY <1>1, <1>2 DEF Fields
  <1>4. Searching /\ read.seen = <<>> /\ read.pos = 0 /\ Reading
    BY <1>1 DEF RequestInv, SearchInv, Reading
  <1>5. /\ Quiet' = Quiet /\ settled' = settled /\ store' = store
        /\ pgvector' = pgvector /\ vectors' = vectors
    BY <1>1, AsideKeeps
  <1>6. ReadTypes'
    BY <1>3, <1>4, <1>5, FieldsOfRead DEF RequestInv, ReadTypes, Reading
  <1>7. Searching'
    BY <1>1, <1>3, <1>4, <1>5 DEF Searching
  <1>8. SubSeq(vectors, 1, 0) = <<>> /\ Len(vectors) \in Nat /\ 0 \in 0..Len(vectors)
        /\ <<>> \in Seq(Chunk)
    BY <1>2
  <1>9. SearchInv'
    BY <1>1, <1>3, <1>4, <1>5, <1>7, <1>8 DEF SearchInv
  <1>10. WalkInv'
    BY <1>3 DEF WalkInv
  <1>11. (read.step # "done")' /\ (~read.raised)'
    BY <1>3, <1>4 DEF RequestInv, ReadTypes
  <1> QED  BY <1>6, <1>9, <1>10, <1>11, GoesOn

LEMMA ScanKeeps ==
  ASSUME IndexInv, RequestInv, Scan
  PROVE  RequestInv'
  <1>1. /\ read.step = "scan" /\ Aside
        /\ IF Len(vectors) # read.size THEN Raise
           ELSE IF read.pos = read.size THEN read' = [read EXCEPT !.step = "answer"]
           ELSE read' = [read EXCEPT !.pos = @ + 1, !.seen = Append(@, vectors[read.pos + 1])]
    BY DEF Scan
  <1>2. vectors \in Seq(Chunk) /\ DOMAIN read = Fields /\ VaultOK(store)
    BY IndexTypesFacts, FieldsOfRead DEF RequestInv, ReadTypes
  <1>3. /\ Searching /\ ~pgvector /\ Reading /\ read.kind # "keyword" /\ ~read.tagged
        /\ read.seen \in Seq(Chunk) /\ read.size \in Nat /\ read.pos \in 0..read.size
        /\ ~read.met => read.size = Len(vectors) /\ read.seen = SubSeq(vectors, 1, read.pos)
    BY <1>1 DEF RequestInv, SearchInv, Reading, Searching
  <1>4. /\ Quiet' = Quiet /\ settled' = settled /\ store' = store
        /\ pgvector' = pgvector /\ vectors' = vectors
    BY <1>1, AsideKeeps
  <1>5. /\ ~read.raised /\ ReadTypes /\ read.met \in BOOLEAN /\ read.settled \in BOOLEAN
        /\ ~read.met => /\ Quiet /\ read.settled = settled
                        /\ read.notes = NotesOf(store) /\ NotesOK(read.notes)
    BY <1>1, <1>3 DEF RequestInv, ReadTypes, Searching
  <1>6. CASE Len(vectors) # read.size
    <2>1. read.met /\ Raise
      BY <1>1, <1>3, <1>5, <1>6
    <2> QED  BY <1>1, <1>3, <1>5, <2>1, Fails
  <1>7. CASE Len(vectors) = read.size /\ read.pos = read.size
    <2>1. read' = [read EXCEPT !.step = "answer"]
      BY <1>1, <1>7
    <2>2. /\ DOMAIN read' = Fields /\ read'.kind = read.kind /\ read'.notes = read.notes
          /\ read'.met = read.met /\ read'.tagged = read.tagged /\ read'.raised = read.raised
          /\ read'.settled = read.settled
          /\ read'.step = "answer" /\ read'.seen = read.seen
      BY <1>2, <2>1 DEF Fields
    <2>3. ReadTypes'
      BY <1>3, <1>4, <1>5, <2>2, FieldsOfRead DEF ReadTypes, Reading
    <2>4. Searching'
      BY <1>3, <2>2 DEF Searching
    <2>5. read.settled /\ ~read.met => Listed(read.seen, read.notes)
      <3> SUFFICES ASSUME read.settled, ~read.met PROVE Listed(read.seen, read.notes)
        OBVIOUS
      <3>1. read.seen = SubSeq(vectors, 1, Len(vectors))
        BY <1>3, <1>7
      <3>2. read.seen = vectors
        BY <1>2, <3>1
      <3>3. vectors = AllChunks(NotesOf(store))
        BY <1>5 DEF IndexInv, Indexed
      <3> QED  BY <1>5, <3>2, <3>3, AllListed
    <2>6. SearchInv'
      BY <1>3, <2>2, <2>4, <2>5 DEF SearchInv
    <2>7. WalkInv'
      BY <2>2 DEF WalkInv
    <2>8. (read.step # "done")' /\ (~read.raised)'
      BY <1>5, <2>2
    <2> QED  BY <2>3, <2>6, <2>7, <2>8, GoesOn
  <1>8. CASE Len(vectors) = read.size /\ read.pos # read.size
    <2> DEFINE seen == Append(read.seen, vectors[read.pos + 1])
    <2>1. read' = [read EXCEPT !.pos = @ + 1, !.seen = seen]
      BY <1>1, <1>8
    <2>2. /\ DOMAIN read' = Fields /\ read'.kind = read.kind /\ read'.notes = read.notes
          /\ read'.met = read.met /\ read'.tagged = read.tagged /\ read'.raised = read.raised
          /\ read'.settled = read.settled
          /\ read'.step = read.step /\ read'.seen = seen /\ read'.pos = read.pos + 1
          /\ read'.size = read.size
      BY <1>2, <2>1 DEF Fields
    <2>3. read.pos + 1 \in 1..Len(vectors) /\ read.pos \in Nat /\ read.pos + 1 \in 0..read.size
      BY <1>3, <1>8
    <2>4. seen \in Seq(Chunk)
      BY <1>2, <1>3, <2>3
    <2>5. ~read.met => seen = SubSeq(vectors, 1, read.pos + 1)
      <3> SUFFICES ASSUME ~read.met PROVE seen = SubSeq(vectors, 1, read.pos + 1)
        OBVIOUS
      <3> DEFINE i == read.pos
      <3> HIDE DEF i
      <3>1. i + 1 \in 1..Len(vectors) /\ i \in Nat /\ read.seen = SubSeq(vectors, 1, i)
            /\ seen = Append(read.seen, vectors[i + 1])
        BY <1>3, <2>3 DEF i
      <3>2. Append(SubSeq(vectors, 1, i), vectors[i + 1]) = SubSeq(vectors, 1, i + 1)
        BY <1>2, <3>1
      <3> HIDE DEF seen
      <3> QED  BY <3>1, <3>2 DEF i
    <2> HIDE DEF seen
    <2>6. ReadTypes'
      BY <1>1, <1>3, <1>4, <1>5, <2>2, FieldsOfRead DEF ReadTypes, Reading
    <2>7. Searching'
      BY <1>1, <1>3, <1>4, <2>2 DEF Searching
    <2>8. SearchInv'
      BY <1>1, <1>3, <1>4, <2>2, <2>3, <2>4, <2>5, <2>7 DEF SearchInv
    <2>9. WalkInv'
      BY <1>1, <2>2 DEF WalkInv
    <2>10. (read.step # "done")' /\ (~read.raised)'
      BY <1>1, <1>5, <2>2
    <2> QED  BY <2>6, <2>8, <2>9, <2>10, GoesOn
  <1> QED  BY <1>6, <1>7, <1>8

\* A list whose members have different ids has as many ids as members.
LEMMA DistinctIds ==
  ASSUME NEW found, DOMAIN found = 1..Len(found), Len(found) \in Nat,
         \A j, k \in DOMAIN found : found[j].id = found[k].id => j = k
  PROVE  Cardinality(IdsOf(found)) = Len(found)
  <1> DEFINE n == Len(found)
             f == [k \in 1..n |-> found[k].id]
             S == IdsOf(found)
  <1>1. S = {found[k].id : k \in 1..n}
    BY DEF IdsOf
  <1> HIDE DEF S
  <1>2. f \in [1..n -> S] /\ (\A j, k \in 1..n : f[j] = f[k] => j = k) /\ \A x \in S : \E k \in 1..n : f[k] = x
    BY <1>1
  <1> HIDE DEF f
  <1>3. f \in Bijection(1..n, S)
    BY <1>2 DEF Bijection, Injection, Surjection, IsInjective
  <1>4. ExistsBijection(1..n, S)
    BY <1>3 DEF ExistsBijection
  <1>5. \A m \in Nat : IsFiniteSet(1..m) /\ Cardinality(1..m) = m
    BY FS_Interval
  <1>6. IsFiniteSet(1..n) /\ Cardinality(1..n) = n
    BY <1>5
  <1> QED  BY <1>4, <1>6, FS_Bijection DEF S

\* An answer that is well formed and, when a hybrid or an undisturbed semantic
\* search gives it, keeps the keywords or is the ranking.
LEMMA AnswerMeets ==
  ASSUME NEW found, NEW notes, read'.found = found, read'.notes = notes,
         read'.step = "done", ~read'.raised, read'.kind \in Kinds, NotesOK(notes),
         WellFormed(found, notes),
         read'.kind = "hybrid" => KeepsKeywords(found, KeywordSearch(notes)),
         read'.kind = "semantic" /\ read'.settled /\ ~read'.met => Ranks(found, notes),
         read'.mode = "refusal" => KeywordSearch(notes) = <<>>
  PROVE  AnswerInv'
  <1> DEFINE keyword == KeywordSearch(notes)
  <1>1. found \in Seq(Match) /\ DOMAIN found = 1..Len(found) /\ Len(found) \in Nat
    BY DEF WellFormed
  <1>2. Cardinality(IdsOf(found)) = Len(found)
    BY <1>1, DistinctIds DEF WellFormed
  <1>3. \A k \in DOMAIN found : \E n \in ToSet(notes) : n.id = found[k].id /\ n.text = found[k].content
    BY DEF WellFormed, ToSet
  <1>4. WellFormedAnswer'
    BY <1>2, <1>3 DEF WellFormedAnswer, WellFormed
  <1>5. HybridKeepsKeywords'
    <2> HIDE DEF keyword
    <2>1. KeepsKeywords(found, keyword) =>
            \A r \in ToSet(keyword) :
              \/ r \in ToSet(found)
              \/ Len(found) = Limit /\ \A k \in DOMAIN found : found[k].score >= r.score
      BY DEF KeepsKeywords, ToSet
    <2> QED  BY <2>1 DEF HybridKeepsKeywords, keyword
  <1>6. NoFalseRefusal'
    BY DEF NoFalseRefusal
  <1>7. GraphOfTheNotes'
    BY DEF GraphOfTheNotes, Kinds
  <1>8. RaisedByRunsOnly'
    BY DEF RaisedByRunsOnly
  <1>9. SemanticIsRanking'
    BY DEF SemanticIsRanking, Ranks, Undisturbed
  <1> QED  BY <1>4, <1>5, <1>6, <1>7, <1>8, <1>9 DEF AnswerInv

LEMMA AnswerKeeps ==
  ASSUME IndexInv, RequestInv, Answer
  PROVE  RequestInv'
  <1> DEFINE hits == Fetched(read.seen)
             results == Found(read.kind, read.notes, hits)
             modes == IF read.kind # "chat" THEN {""}
                      ELSE IF results = <<>> THEN {"refusal"}
                      ELSE {"simulated", "llm grounded", "llm not grounded"}
  <1>1. read.step = "answer" /\ Aside /\ \E mode \in modes : Done([read EXCEPT !.found = results, !.mode = mode])
    BY DEF Answer
  <1>2. /\ DOMAIN read = Fields /\ read.met \in BOOLEAN /\ read.settled \in BOOLEAN
        /\ ~read.raised /\ pgvector \in BOOLEAN
        /\ pgvector' = pgvector
    BY <1>1, FieldsOfRead DEF RequestInv, ReadTypes, Reading, Aside
  <1>3. /\ read.kind \in Kinds /\ NotesOK(read.notes) /\ read.seen \in Seq(Chunk)
        /\ read.kind = "semantic" /\ read.settled /\ ~read.met => Listed(read.seen, read.notes)
    BY <1>1 DEF RequestInv, SearchInv, Searching
  <1>4. hits \in Seq(Chunk)
    <2>1. 4 * Limit \in Nat /\ \A x \in Chunk : x.score \in Int
      BY LimitAssumption DEF Chunk
    <2> DEFINE n == 4 * Limit
    <2>2. hits = Top(Ranked(read.seen), n)
      BY DEF Fetched
    <2> HIDE DEF n, hits
    <2> QED  BY <1>3, <2>1, <2>2, TopRanked DEF n
  <1>5. read.kind = "semantic" /\ read.settled /\ ~read.met => Ranks(results, read.notes)
    <2>1. read.kind = "semantic" => results = RollUp(read.notes, hits)
      BY DEF Found
    <2> HIDE DEF results
    <2> QED  BY <1>3, <2>1, SemanticRanking
  <1> HIDE DEF hits
  <1>6. /\ WellFormed(results, read.notes)
        /\ read.kind = "hybrid" => KeepsKeywords(results, KeywordSearch(read.notes))
        /\ read.kind = "chat" /\ results = <<>> => KeywordSearch(read.notes) = <<>>
    BY <1>3, <1>4, FoundWellFormed
  <1> HIDE DEF results
  <1>7. PICK mode \in modes : Done([read EXCEPT !.found = results, !.mode = mode])
    BY <1>1
  <1>8. mode = "refusal" => KeywordSearch(read.notes) = <<>>
    BY <1>6, <1>7
  <1> DEFINE r == [read EXCEPT !.found = results, !.mode = mode]
  <1>9. /\ DOMAIN r = Fields /\ r.met = read.met /\ r.found = results /\ r.mode = mode
        /\ r.settled = read.settled
        /\ r.notes = read.notes /\ r.kind = read.kind /\ r.raised = read.raised /\ Done(r)
    BY <1>2, <1>7 DEF Fields
  <1> HIDE DEF r
  <1>10. read' = [r EXCEPT !.step = "done", !.seen = <<>>, !.pos = 0, !.size = 0, !.dict = 0]
    BY <1>9 DEF Done
  <1>11. /\ read'.step = "done" /\ read'.met = read.met /\ read'.found = results
         /\ read'.settled = read.settled
         /\ read'.mode = mode /\ read'.notes = read.notes /\ read'.kind = read.kind
         /\ read'.raised = read.raised
    BY <1>9, <1>10 DEF Fields
  <1>12. AnswerInv'
    BY <1>2, <1>3, <1>5, <1>6, <1>8, <1>11, AnswerMeets
  <1> QED  BY <1>2, <1>9, <1>12, Ends

-----------------------------------------------------------------------------
(* Each step of a request that walks the graph keeps the invariant. *)

\* The graph of a settled index, as the walks read it.
LEMMA SettledGraph ==
  ASSUME IndexInv, settled
  PROVE  /\ VaultOK(store) /\ adj \in Seq(Node)
         /\ IdsOf(adj) = DOMAIN store /\ dangling = DanglingOf(store)
         /\ LinksTo(Len(adj)) = Links(store)
         /\ SourcesTo(Len(adj)) = {l[1] : l \in {m \in Links(store) : m[2] = read.id}}
  <1>1. /\ VaultOK(store) /\ adj \in Seq(Node)
        /\ GraphIs(adj, store) /\ dangling = DanglingOf(store)
    BY IndexTypesFacts DEF IndexInv, Indexed
  <1>2. /\ DOMAIN adj = 1..Len(adj) /\ Len(adj) \in Nat
        /\ \A k \in 1..Len(adj) : adj[k] \in Node
    BY <1>1
  <1>3. \A n \in Node : n.id \in Ids /\ n.dests \in SUBSET Ids
    BY DEF Node
  <1>4. /\ \A k \in 1..Len(adj) : /\ adj[k].id \in DOMAIN store /\ adj[k].id \in Ids
                                  /\ adj[k].dests = ToSet(store[adj[k].id].links)
                                  /\ \A d \in adj[k].dests : d \in Ids
        /\ \A i \in DOMAIN store : \E k \in 1..Len(adj) : adj[k].id = i
    BY <1>1, <1>2, <1>3 DEF GraphIs, IdsOf
  <1> DEFINE n == Len(adj)
             g == adj
  <1> HIDE DEF n, g
  <1>5. LinksTo(n) = {l \in Link : \E k \in 1..n : l[1] = g[k].id /\ l[2] \in g[k].dests}
    BY DEF LinksTo, g
  <1>6. SourcesTo(n) = {g[k].id : k \in {i \in 1..n : read.id \in g[i].dests}}
    BY DEF SourcesTo, g
  <1>7. /\ \A k \in 1..n : /\ g[k].id \in DOMAIN store /\ g[k].id \in Ids
                           /\ g[k].dests = ToSet(store[g[k].id].links)
                           /\ \A d \in g[k].dests : d \in Ids
        /\ \A i \in DOMAIN store : \E k \in 1..n : g[k].id = i
    BY <1>4 DEF n, g
  <1>8. LinksTo(n) = Links(store)
    BY <1>5, <1>7 DEF Links, Link
  <1>9. SourcesTo(n) = {l[1] : l \in {m \in Links(store) : m[2] = read.id}}
    <2> DEFINE T == {l[1] : l \in {m \in Links(store) : m[2] = read.id}}
    <2>1. ASSUME NEW x \in SourcesTo(n) PROVE x \in T
      <3>1. PICK k \in 1..n : x = g[k].id /\ read.id \in g[k].dests
        BY <1>6, <2>1
      <3>2. <<x, read.id>> \in Links(store)
        BY <1>7, <3>1 DEF Links
      <3> QED  BY <3>2
    <2>2. ASSUME NEW x \in T PROVE x \in SourcesTo(n)
      <3>1. PICK l \in Links(store) : l[2] = read.id /\ x = l[1]
        BY <2>2
      <3>2. l[1] \in DOMAIN store /\ l[2] \in ToSet(store[l[1]].links)
        BY <3>1 DEF Links
      <3>3. PICK k \in 1..n : g[k].id = x
        BY <1>7, <3>1, <3>2
      <3> QED  BY <1>6, <1>7, <3>1, <3>2, <3>3
    <2> QED  BY <2>1, <2>2
  <1> QED  BY <1>1, <1>8, <1>9 DEF n, GraphIs

\* What the walks have read so far is what it was.
LEMMA Unmoved ==
  ASSUME IndexInv, Aside, read'.id = read.id, NEW p
  PROVE  SourcesTo(p)' = SourcesTo(p) /\ LinksTo(p)' = LinksTo(p)
  <1>1. adj' = adj
    BY AsideKeeps
  <1> QED  BY <1>1 DEF SourcesTo, LinksTo

\* An answer about the graph.
LEMMA GraphMeets ==
  ASSUME NEW v, NEW edges, NEW broken, NEW found,
         read'.step = "done", ~read'.raised, read'.kind \in {"note", "graph"}, read'.mode # "refusal",
         read'.edges = edges, read'.dangling = broken, read'.found = found,
         read'.settled /\ ~read'.met =>
           /\ VaultOK(v) /\ read'.notes = NotesOf(v)
           /\ read'.kind = "graph" =>
                /\ edges = {[link |-> l, dangling |-> l \in DanglingOf(v)] : l \in Links(v)}
                /\ broken = DanglingOf(v) /\ IdsOf(found) = DOMAIN v
           /\ read'.kind = "note" /\ read'.id \in DOMAIN v =>
                ToSet(found) = {l[1] : l \in {m \in Links(v) : m[2] = read'.id}}
  PROVE  AnswerInv'
  <1>1. GraphOfTheNotes'
    <2> SUFFICES ASSUME read'.settled, ~read'.met PROVE GraphOfTheNotes'
      BY DEF GraphOfTheNotes, Undisturbed
    <2> DEFINE ids == {n.id : n \in ToSet(NotesOf(v))}
               links == ToSet(LinksOf(NotesOf(v)))
    <2>1. ids = DOMAIN v /\ links = Links(v)
      BY IdsOfVault, LinksOfVault
    <2> HIDE DEF ids, links
    <2>2. read'.kind = "graph" => /\ edges = {[link |-> l, dangling |-> l[2] \notin ids] : l \in links}
                                  /\ broken = {l \in links : l[2] \notin ids} /\ IdsOf(found) = ids
      BY <2>1 DEF DanglingOf
    <2>3. read'.kind = "note" /\ read'.id \in ids =>
            ToSet(found) = {l[1] : l \in {m \in links : m[2] = read'.id}}
      BY <2>1
    <2> QED  BY <2>2, <2>3 DEF GraphOfTheNotes, ids, links
  <1> QED  BY <1>1 DEF AnswerInv, WellFormedAnswer, HybridKeepsKeywords, NoFalseRefusal,
                       RaisedByRunsOnly, SemanticIsRanking, Search, Kinds

\* Nothing has been read at the start of a dict.
LEMMA NothingRead ==
  SourcesTo(0)' = {} /\ LinksTo(0)' = {}
  <1>1. 1..0 = {}
    OBVIOUS
  <1> QED  BY <1>1 DEF SourcesTo, LinksTo

LEMMA BeginNoteKeeps ==
  ASSUME IndexInv, RequestInv, NEW id \in Ids, BeginNote(id)
  PROVE  RequestInv'
  <1> DEFINE notes == NotesOf(store)
             r == [Begin("note", notes) EXCEPT !.id = id]
  <1>1. /\ Aside
        /\ IF id \in DOMAIN store THEN read' = [r EXCEPT !.step = "backlinks"]
           ELSE Done([r EXCEPT !.mode = "not found"])
    BY DEF BeginNote
  <1>2. VaultOK(store) /\ pgvector \in BOOLEAN /\ settled \in BOOLEAN
    BY IndexTypesFacts DEF RequestInv, ReadTypes
  <1>3. /\ Quiet' = Quiet /\ settled' = settled /\ pgvector' = pgvector
        /\ store' = store /\ notes' = notes
    BY <1>1, AsideKeeps
  <1> HIDE DEF notes
  <1>4. /\ DOMAIN r = Fields /\ r.kind = "note" /\ r.notes = notes /\ r.id = id
        /\ r.met = ~Quiet /\ r.tagged = FALSE /\ r.raised = FALSE /\ r.mode = ""
        /\ r.settled = settled
        /\ r.pos = 0 /\ r.dict = 0 /\ r.found = <<>> /\ r.edges = {} /\ r.dangling = {}
    BY DEF Begin, NoRead, Fields
  <1> HIDE DEF r
  <1>5. CASE id \in DOMAIN store
    <2>1. read' = [r EXCEPT !.step = "backlinks"]
      BY <1>1, <1>5
    <2>2. /\ DOMAIN read' = Fields /\ read'.kind = "note" /\ read'.notes = notes
          /\ read'.step = "backlinks"
          /\ read'.met = ~Quiet /\ read'.tagged = FALSE /\ read'.raised = FALSE /\ read'.mode = ""
          /\ read'.settled = settled
          /\ read'.pos = 0 /\ read'.dict = 0 /\ read'.found = <<>>
      BY <1>4, <2>1 DEF Fields
    <2>3. ReadTypes'
      BY <1>2, <1>3, <2>2, FieldsOfRead DEF ReadTypes
    <2>4. SearchInv'
      BY <2>2 DEF SearchInv
    <2>5. <<>> \in Seq(Ids) /\ ToSet(<<>>) = {}
      BY DEF ToSet
    <2>6. read'.notes = NotesOf(store')
      BY <1>3, <2>2 DEF notes
    <2>7. ToSet(read'.found) = SourcesTo(read.pos)'
      BY <2>2, <2>5, NothingRead
    <2>8. Iterating'
      BY <2>2, <2>5, <2>6, <2>7 DEF Iterating
    <2>9. WalkInv'
      BY <2>2, <2>8 DEF WalkInv
    <2>10. (read.step # "done")' /\ (~read.raised)'
      BY <2>2
    <2> QED  BY <2>3, <2>4, <2>9, <2>10, GoesOn
  <1>6. CASE id \notin DOMAIN store
    <2> DEFINE q == [r EXCEPT !.mode = "not found"]
    <2>1. Done(q)
      BY <1>1, <1>6
    <2>2. /\ DOMAIN q = Fields /\ q.kind = "note" /\ q.notes = notes /\ q.id = id
          /\ q.met = ~Quiet /\ q.settled = settled /\ q.raised = FALSE /\ q.mode = "not found"
          /\ q.edges = {} /\ q.dangling = {} /\ q.found = <<>>
      BY <1>4 DEF Fields
    <2> HIDE DEF q
    <2>3. read' = [q EXCEPT !.step = "done", !.seen = <<>>, !.pos = 0, !.size = 0, !.dict = 0]
      BY <2>1 DEF Done
    <2>4. /\ read'.step = "done" /\ read'.kind = "note" /\ read'.notes = notes /\ read'.id = id
          /\ read'.raised = FALSE /\ read'.mode = "not found"
          /\ read'.edges = {} /\ read'.dangling = {} /\ read'.found = <<>>
      BY <2>2, <2>3 DEF Fields
    <2>5. AnswerInv'
      BY <1>2, <1>6, <2>4, GraphMeets DEF notes
    <2>6. q.met \in BOOLEAN /\ q.settled \in BOOLEAN
      BY <1>2, <2>2
    <2> QED  BY <1>2, <1>3, <2>1, <2>2, <2>5, <2>6, Ends
  <1> QED  BY <1>5, <1>6

LEMMA BeginGraphKeeps ==
  ASSUME IndexInv, RequestInv, BeginGraph
  PROVE  RequestInv'
  <1> DEFINE notes == NotesOf(store)
  <1>1. Aside /\ read' = [Begin("graph", notes) EXCEPT !.step = "edges"]
    BY DEF BeginGraph
  <1>2. VaultOK(store) /\ pgvector \in BOOLEAN /\ settled \in BOOLEAN
    BY IndexTypesFacts DEF RequestInv, ReadTypes
  <1>3. /\ Quiet' = Quiet /\ settled' = settled /\ pgvector' = pgvector
        /\ store' = store /\ notes' = notes
    BY <1>1, AsideKeeps
  <1> HIDE DEF notes
  <1>4. /\ DOMAIN read' = Fields /\ read'.kind = "graph" /\ read'.notes = notes
        /\ read'.step = "edges"
        /\ read'.met = ~Quiet /\ read'.tagged = FALSE /\ read'.raised = FALSE /\ read'.mode = ""
        /\ read'.settled = settled
        /\ read'.pos = 0 /\ read'.dict = 0 /\ read'.found = <<>> /\ read'.edges = {}
    BY <1>1 DEF Begin, NoRead, Fields
  <1>5. ReadTypes'
    BY <1>2, <1>3, <1>4, FieldsOfRead DEF ReadTypes
  <1>6. SearchInv'
    BY <1>4 DEF SearchInv
  <1>7. read'.notes = NotesOf(store')
    BY <1>3, <1>4 DEF notes
  <1>8. read'.edges = EdgesOf(LinksTo(read.pos))'
    BY <1>4, NothingRead DEF EdgesOf
  <1>9. Iterating'
    BY <1>4, <1>7, <1>8 DEF Iterating
  <1>10. WalkInv'
    BY <1>4, <1>9 DEF WalkInv
  <1>11. (read.step # "done")' /\ (~read.raised)'
    BY <1>4
  <1> QED  BY <1>5, <1>6, <1>10, <1>11, GoesOn

\* What is known of a request that walks.
LEMMA Walking ==
  ASSUME IndexInv, RequestInv, read.step \in {"backlinks", "edges", "dests", "nodes"}
  PROVE  /\ DOMAIN read = Fields /\ pgvector \in BOOLEAN /\ read.met \in BOOLEAN
         /\ read.settled \in BOOLEAN /\ ReadTypes
         /\ ~read.raised /\ ~read.tagged /\ read.mode = "" /\ Reading
         /\ read.kind = (IF read.step = "backlinks" THEN "note" ELSE "graph")
         /\ ~read.met => Quiet /\ Iterating
  BY FieldsOfRead DEF RequestInv, ReadTypes, Reading, WalkInv

LEMMA OpenKeeps ==
  ASSUME IndexInv, RequestInv, Open
  PROVE  RequestInv'
  <1>1. /\ read.step \in {"backlinks", "edges", "nodes"} /\ read.dict = 0
        /\ read' = Iterate(read) /\ Aside
    BY DEF Open
  <1>2. /\ DOMAIN read = Fields /\ ~read.raised /\ ~read.tagged /\ read.mode = "" /\ Reading
        /\ ReadTypes /\ read.kind = (IF read.step = "backlinks" THEN "note" ELSE "graph")
        /\ ~read.met => Quiet /\ Iterating
    BY <1>1, Walking
  <1>3. /\ UNCHANGED <<pgvector, store, graphs, dangling>> /\ Quiet' = Quiet
        /\ settled' = settled /\ adj' = adj
    BY <1>1, AsideKeeps
  <1>4. /\ DOMAIN read' = Fields /\ read'.kind = read.kind /\ read'.notes = read.notes
        /\ read'.step = read.step /\ read'.id = read.id /\ read'.met = read.met
        /\ read'.settled = read.settled
        /\ read'.tagged = read.tagged /\ read'.raised = read.raised /\ read'.mode = read.mode
        /\ read'.found = read.found /\ read'.edges = read.edges
        /\ read'.dict = Len(graphs) /\ read'.pos = 0 /\ read'.size = Len(adj)
    BY <1>1, <1>2 DEF Iterate, Fields
  <1>5. ReadTypes'
    BY <1>2, <1>3, <1>4, FieldsOfRead DEF ReadTypes, Reading
  <1>6. SearchInv'
    BY <1>1, <1>4 DEF SearchInv
  <1>7. ASSUME ~read.met PROVE Iterating'
    <2>1. Quiet /\ Iterating /\ adj \in Seq(Node) /\ Len(graphs) \in Nat \ {0}
      <3>1. graphs \in Seq(Seq(Node)) /\ graphs # <<>> /\ adj \in Seq(Node)
        BY IndexTypesFacts
      <3>2. Len(graphs) \in Nat \ {0}
        BY <3>1
      <3> QED  BY <1>2, <1>7, <3>1, <3>2
    <2>2. 0 \in 0..Len(adj)
      BY <2>1
    <2>3. read'.notes = NotesOf(store')
      BY <1>3, <1>4, <2>1 DEF Iterating
    <2>4. read'.dict = Len(graphs') /\ read'.size = Len(adj') /\ read'.pos \in 0..read'.size
      BY <1>3, <1>4, <2>2
    <2>5. read.step = "backlinks" => /\ read'.found \in Seq(Ids)
                                     /\ ToSet(read'.found) = SourcesTo(read.pos)'
      <3>1. read.step = "backlinks" => read.found \in Seq(Ids) /\ read.pos = 0
                                       /\ ToSet(read.found) = SourcesTo(0)
        BY <1>1, <2>1 DEF Iterating
      <3>2. SourcesTo(0)' = SourcesTo(0)
        BY <1>1, <1>4, Unmoved
      <3> QED  BY <1>4, <3>1, <3>2
    <2>6. read.step = "edges" => /\ read'.edges = EdgesOf(LinksTo(read.pos))'
                                 /\ read'.found = <<>>
      <3>1. read.step = "edges" => read.found = <<>> /\ read.edges = EdgesOf(LinksTo(0))
        BY <1>1, <2>1 DEF Iterating
      <3>2. LinksTo(0)' = LinksTo(0)
        BY <1>1, <1>4, Unmoved
      <3> QED  BY <1>3, <1>4, <3>1, <3>2 DEF EdgesOf
    <2>7. read.step = "nodes" => /\ read'.edges = EdgesOf(LinksTo(Len(adj)))'
                                 /\ read'.found \in Seq(Degrees)
                                 /\ IdsOf(read'.found) = {adj[k].id : k \in 1..0}
      <3>1. read.step = "nodes" => read.found = <<>> /\ read.edges = EdgesOf(LinksTo(Len(adj)))
        BY <1>1, <2>1 DEF Iterating
      <3>2. 1..0 = {}
        OBVIOUS
      <3>3. <<>> \in Seq(Degrees) /\ IdsOf(<<>>) = {}
        BY DEF IdsOf
      <3>4. EdgesOf(LinksTo(Len(adj)))' = EdgesOf(LinksTo(Len(adj)))
        BY <1>3 DEF EdgesOf, LinksTo
      <3> QED  BY <1>4, <3>1, <3>2, <3>3, <3>4
    <2>8. read'.dict # 0 /\ {adj[k].id : k \in 1..read.pos}' = {adj[k].id : k \in 1..0}
      BY <1>3, <1>4, <2>1
    <2>9. read.step = "nodes" => IdsOf(read'.found) = {adj[k].id : k \in 1..read.pos}'
      BY <2>7, <2>8
    <2>10. CASE read.step = "backlinks"
      BY <1>4, <2>3, <2>4, <2>5, <2>8, <2>10 DEF Iterating
    <2>11. CASE read.step = "edges"
      BY <1>4, <2>3, <2>4, <2>6, <2>8, <2>11 DEF Iterating
    <2>12. CASE read.step = "nodes"
      BY <1>4, <2>3, <2>4, <2>7, <2>8, <2>9, <2>12 DEF Iterating
    <2> QED  BY <1>1, <2>10, <2>11, <2>12
  <1>8. WalkInv'
    BY <1>1, <1>2, <1>4, <1>7 DEF WalkInv
  <1>9. (read.step # "done")' /\ (~read.raised)'
    BY <1>1, <1>2, <1>4
  <1> QED  BY <1>5, <1>6, <1>8, <1>9, GoesOn

LEMMA BreakKeeps ==
  ASSUME IndexInv, RequestInv, Break
  PROVE  RequestInv'
  <1>1. read.step \in {"backlinks", "edges", "nodes"} /\ Broken /\ Raise /\ Aside
    BY DEF Break
  <1>2. /\ ~read.tagged /\ ReadTypes /\ read.met \in BOOLEAN /\ read.settled \in BOOLEAN
        /\ read.kind \in {"note", "graph"}
        /\ ~read.met => Iterating
    BY <1>1, Walking
  <1>3. read.met
    <2>1. Iterating => read.dict = 0 \/ Len(graphs[read.dict]) = read.size
      BY DEF Iterating, adj
    <2> QED  BY <1>1, <1>2, <2>1 DEF Broken
  <1> QED  BY <1>1, <1>2, <1>3, Fails

\* What one more item of the dict adds to what has been read.
LEMMA OneMoreItem ==
  ASSUME adj \in Seq(Node), NEW p \in Nat, p < Len(adj)
  PROVE  /\ adj[p + 1].id \in Ids /\ adj[p + 1].dests \in SUBSET Ids
         /\ SourcesTo(p + 1) = SourcesTo(p) \cup (IF read.id \in adj[p + 1].dests THEN {adj[p + 1].id} ELSE {})
         /\ LinksTo(p + 1) = LinksTo(p) \cup {<<adj[p + 1].id, d>> : d \in adj[p + 1].dests}
         /\ {adj[k].id : k \in 1..p+1} = {adj[k].id : k \in 1..p} \cup {adj[p + 1].id}
  <1> DEFINE g == adj
             x == adj[p + 1]
  <1>1. x \in Node /\ x.id \in Ids /\ x.dests \in SUBSET Ids
    <2>1. x \in Node
      OBVIOUS
    <2> HIDE DEF x
    <2> QED  BY <2>1 DEF Node
  <1>2. 1..p+1 = (1..p) \cup {p + 1}
    OBVIOUS
  <1>3. /\ \A q : SourcesTo(q) = {g[k].id : k \in {i \in 1..q : read.id \in g[i].dests}}
        /\ \A q : LinksTo(q) = {l \in Link : \E k \in 1..q : l[1] = g[k].id /\ l[2] \in g[k].dests}
    BY DEF SourcesTo, LinksTo
  <1>4. x = g[p + 1]
    OBVIOUS
  <1> HIDE DEF g, x
  <1>5. SourcesTo(p + 1) = SourcesTo(p) \cup (IF read.id \in x.dests THEN {x.id} ELSE {})
    BY <1>2, <1>3, <1>4
  <1>6. LinksTo(p + 1) = LinksTo(p) \cup {<<x.id, d>> : d \in x.dests}
    <2> DEFINE T == {<<x.id, d>> : d \in x.dests}
    <2>1. \A l : l \in T <=> l \in Link /\ l[1] = x.id /\ l[2] \in x.dests
      BY <1>1 DEF Link
    <2> HIDE DEF T
    <2>2. \A l : l \in LinksTo(p + 1) <=> l \in LinksTo(p) \/ l \in T
      BY <1>2, <1>3, <1>4, <2>1
    <2> QED  BY <2>2 DEF T
  <1>7. {g[k].id : k \in 1..p+1} = {g[k].id : k \in 1..p} \cup {x.id}
    BY <1>2, <1>4
  <1> QED  BY <1>1, <1>5, <1>6, <1>7 DEF g, x

\* A list with one more member.
LEMMA OneMore ==
  ASSUME NEW T, NEW s \in Seq(T), NEW x \in T
  PROVE  /\ Append(s, x) \in Seq(T) /\ ToSet(Append(s, x)) = ToSet(s) \cup {x}
         /\ IdsOf(Append(s, x)) = IdsOf(s) \cup {x.id}
  <1> DEFINE a == Append(s, x)
             n == Len(s)
  <1>1. /\ a \in Seq(T) /\ n \in Nat /\ DOMAIN s = 1..n /\ DOMAIN a = 1..n+1
        /\ a[n + 1] = x /\ \A k \in 1..n : a[k] = s[k]
    OBVIOUS
  <1>2. 1..n+1 = (1..n) \cup {n + 1}
    BY <1>1
  <1> HIDE DEF a, n
  <1>3. ToSet(a) = ToSet(s) \cup {x}
    BY <1>1, <1>2 DEF ToSet
  <1>4. IdsOf(a) = IdsOf(s) \cup {x.id}
    BY <1>1, <1>2 DEF IdsOf
  <1> QED  BY <1>1, <1>3, <1>4 DEF a

\* Where a walk that no run disturbed stands in the dict.
LEMMA AtItem ==
  ASSUME IndexInv, Iterating, read.dict # 0
  PROVE  /\ adj \in Seq(Node) /\ read.dict = Len(graphs) /\ read.size = Len(adj)
         /\ read.pos \in 0..read.size /\ read.pos \in Nat /\ Item = adj[read.pos + 1]
         /\ read.pos < read.size => read.pos + 1 \in 0..read.size
  <1>1. /\ adj \in Seq(Node) /\ read.dict = Len(graphs) /\ read.size = Len(adj)
        /\ read.pos \in 0..read.size
    BY IndexTypesFacts DEF Iterating
  <1>2. Item = adj[read.pos + 1]
    BY <1>1 DEF Item, adj
  <1> QED  BY <1>1, <1>2

LEMMA BacklinksKeeps ==
  ASSUME IndexInv, RequestInv, Backlinks
  PROVE  RequestInv'
  <1>1. read.step = "backlinks" /\ Aside
    BY DEF Backlinks
  <1>2. /\ DOMAIN read = Fields /\ ~read.raised /\ ~read.tagged /\ read.mode = "" /\ Reading
        /\ ReadTypes /\ read.kind = "note" /\ pgvector \in BOOLEAN
        /\ read.met \in BOOLEAN /\ read.settled \in BOOLEAN
        /\ ~read.met => Quiet /\ Iterating
    BY <1>1, Walking
  <1>3. /\ UNCHANGED <<pgvector, store, graphs, dangling>> /\ Quiet' = Quiet
        /\ settled' = settled /\ adj' = adj
    BY <1>1, AsideKeeps
  <1>4. CASE More /\ read' = [read EXCEPT !.pos = @ + 1,
                      !.found = IF read.id \in Item.dests THEN Append(@, Item.id) ELSE @]
    <2> DEFINE found == IF read.id \in Item.dests THEN Append(read.found, Item.id) ELSE read.found
    <2>1. read' = [read EXCEPT !.pos = @ + 1, !.found = found]
      BY <1>4
    <2> HIDE DEF found
    <2>2. /\ DOMAIN read' = Fields /\ read'.kind = read.kind /\ read'.notes = read.notes
          /\ read'.step = "backlinks" /\ read'.id = read.id /\ read'.met = read.met
          /\ read'.settled = read.settled
          /\ read'.tagged = read.tagged /\ read'.raised = read.raised /\ read'.mode = read.mode
          /\ read'.found = found /\ read'.pos = read.pos + 1
          /\ read'.dict = read.dict /\ read'.size = read.size
      BY <1>1, <1>2, <2>1 DEF Fields
    <2>3. ReadTypes'
      BY <1>1, <1>2, <1>3, <2>2, FieldsOfRead DEF ReadTypes, Reading
    <2>4. SearchInv'
      BY <2>2 DEF SearchInv
    <2>5. ASSUME ~read.met PROVE Iterating'
      <3>1. read.dict # 0 /\ read.pos < read.size /\ Quiet /\ Iterating
        BY <1>2, <1>4, <2>5 DEF More
      <3>2. /\ adj \in Seq(Node) /\ read.dict = Len(graphs) /\ read.size = Len(adj)
            /\ read.pos \in Nat /\ Item = adj[read.pos + 1] /\ read.pos + 1 \in 0..read.size
        BY <3>1, AtItem
      <3>3. /\ read.notes = NotesOf(store) /\ read.found \in Seq(Ids)
            /\ ToSet(read.found) = SourcesTo(read.pos)
        BY <1>1, <3>1 DEF Iterating
      <3>4. /\ Item.id \in Ids
            /\ SourcesTo(read.pos + 1) = SourcesTo(read.pos) \cup (IF read.id \in Item.dests THEN {Item.id} ELSE {})
        BY <3>1, <3>2, OneMoreItem
      <3>5. found \in Seq(Ids) /\ ToSet(found) = SourcesTo(read.pos + 1)
        <4> DEFINE more == Append(read.found, Item.id)
        <4>1. more \in Seq(Ids) /\ ToSet(more) = ToSet(read.found) \cup {Item.id}
          BY <3>3, <3>4, OneMore
        <4>2. found = IF read.id \in Item.dests THEN more ELSE read.found
          BY DEF found
        <4> HIDE DEF more
        <4> QED  BY <3>3, <3>4, <4>1, <4>2
      <3>6. SourcesTo(read.pos)' = SourcesTo(read.pos + 1)
        BY <1>1, <1>3, <2>2, Unmoved DEF SourcesTo
      <3>7. ToSet(read'.found) = SourcesTo(read.pos)'
        BY <2>2, <3>5, <3>6
      <3>8. read'.notes = NotesOf(store')
        BY <1>3, <2>2, <3>3
      <3>9. /\ read'.dict = Len(graphs') /\ read'.size = Len(adj')
            /\ read'.pos \in 0..read'.size /\ read'.dict # 0
        BY <1>3, <2>2, <3>1, <3>2
      <3> QED  BY <2>2, <3>5, <3>7, <3>8, <3>9 DEF Iterating
    <2>6. WalkInv'
      BY <1>2, <2>2, <2>5 DEF WalkInv
    <2>7. (read.step # "done")' /\ (~read.raised)'
      BY <1>2, <2>2
    <2> QED  BY <2>3, <2>4, <2>6, <2>7, GoesOn
  <1>5. CASE Exhausted /\ Done(read)
    <2>1. read' = [read EXCEPT !.step = "done", !.seen = <<>>, !.pos = 0, !.size = 0, !.dict = 0]
      BY <1>5 DEF Done
    <2>2. /\ read'.step = "done" /\ ~read'.raised /\ read'.kind = "note" /\ read'.mode = ""
          /\ read'.met = read.met /\ read'.notes = read.notes /\ read'.id = read.id
          /\ read'.settled = read.settled
          /\ read'.found = read.found
      BY <1>2, <2>1 DEF Fields
    <2>3. ASSUME read.settled, ~read.met
          PROVE  /\ VaultOK(store) /\ read.notes = NotesOf(store)
                 /\ ToSet(read.found) = {l[1] : l \in {m \in Links(store) : m[2] = read.id}}
      <3>1. read.dict # 0 /\ read.pos = read.size /\ settled /\ Iterating
        BY <1>2, <1>5, <2>3 DEF Exhausted, ReadTypes
      <3>2. /\ read.size = Len(adj) /\ read.notes = NotesOf(store)
            /\ ToSet(read.found) = SourcesTo(read.pos)
        BY <1>1, <3>1 DEF Iterating
      <3> QED  BY <3>1, <3>2, SettledGraph
    <2> DEFINE found == read.found
               edges == read'.edges
               broken == read'.dangling
               v == store
    <2>4. /\ read'.found = found
          /\ read'.settled /\ ~read'.met =>
                           /\ VaultOK(v) /\ read'.notes = NotesOf(v)
                           /\ ToSet(found) = {l[1] : l \in {m \in Links(v) : m[2] = read'.id}}
      BY <2>2, <2>3
    <2>5. read'.edges = edges /\ read'.dangling = broken
      OBVIOUS
    <2> HIDE DEF found, edges, broken, v
    <2>6. AnswerInv'
      BY <2>2, <2>4, <2>5, GraphMeets
    <2> QED  BY <1>2, <1>3, <1>5, <2>6, Ends
  <1> QED  BY <1>4, <1>5 DEF Backlinks

LEMMA EdgesKeeps ==
  ASSUME IndexInv, RequestInv, Edges
  PROVE  RequestInv'
  <1>1. read.step = "edges" /\ Aside
    BY DEF Edges
  <1>2. /\ DOMAIN read = Fields /\ ~read.raised /\ ~read.tagged /\ read.mode = "" /\ Reading
        /\ ReadTypes /\ read.kind = "graph"
        /\ ~read.met => Quiet /\ Iterating
    BY <1>1, Walking
  <1>3. /\ UNCHANGED <<pgvector, store, graphs, dangling>> /\ Quiet' = Quiet
        /\ settled' = settled /\ adj' = adj
    BY <1>1, AsideKeeps
  <1>4. CASE More /\ read' = [read EXCEPT !.step = "dests", !.seen = <<Cardinality(Item.dests)>>]
    <2> DEFINE seen == <<Cardinality(Item.dests)>>
    <2>1. read' = [read EXCEPT !.step = "dests", !.seen = seen]
      BY <1>4
    <2> HIDE DEF seen
    <2>2. /\ DOMAIN read' = Fields /\ read'.kind = read.kind /\ read'.notes = read.notes
          /\ read'.step = "dests" /\ read'.id = read.id /\ read'.met = read.met
          /\ read'.settled = read.settled
          /\ read'.tagged = read.tagged /\ read'.raised = read.raised /\ read'.mode = read.mode
          /\ read'.found = read.found /\ read'.edges = read.edges /\ read'.seen = seen
          /\ read'.pos = read.pos /\ read'.dict = read.dict /\ read'.size = read.size
      BY <1>2, <2>1 DEF Fields
    <2>3. ReadTypes'
      BY <1>1, <1>2, <1>3, <2>2, FieldsOfRead DEF ReadTypes, Reading
    <2>4. SearchInv'
      BY <2>2 DEF SearchInv
    <2>5. ASSUME ~read.met PROVE Iterating'
      <3>1. read.dict # 0 /\ read.pos < read.size /\ Quiet /\ Iterating
        BY <1>2, <1>4, <2>5 DEF More
      <3>2. /\ read.notes = NotesOf(store) /\ read.found = <<>>
            /\ read.dict = Len(graphs) /\ read.size = Len(adj) /\ read.pos \in 0..read.size
            /\ read.edges = EdgesOf(LinksTo(read.pos))
        BY <1>1, <3>1 DEF Iterating
      <3>3. LinksTo(read.pos)' = LinksTo(read.pos)
        BY <1>1, <1>3, <2>2, Unmoved DEF LinksTo
      <3>4. read'.edges = EdgesOf(LinksTo(read.pos))'
        BY <1>3, <2>2, <3>2, <3>3 DEF EdgesOf
      <3>5. Item' = Item
        BY <1>3, <2>2 DEF Item
      <3>6. read'.seen = <<Cardinality(Item'.dests)>>
        BY <2>2, <3>5 DEF seen
      <3>7. read'.notes = NotesOf(store')
        BY <1>3, <2>2, <3>2
      <3> QED  BY <1>3, <2>2, <3>1, <3>2, <3>4, <3>6, <3>7 DEF Iterating
    <2>6. WalkInv'
      BY <1>2, <2>2, <2>5 DEF WalkInv
    <2>7. (read.step # "done")' /\ (~read.raised)'
      BY <1>2, <2>2
    <2> QED  BY <2>3, <2>4, <2>6, <2>7, GoesOn
  <1>5. CASE Exhausted /\ read' = [read EXCEPT !.step = "nodes", !.dict = 0]
    <2>1. /\ DOMAIN read' = Fields /\ read'.kind = read.kind /\ read'.notes = read.notes
          /\ read'.step = "nodes" /\ read'.met = read.met
          /\ read'.settled = read.settled
          /\ read'.tagged = read.tagged /\ read'.raised = read.raised /\ read'.mode = read.mode
          /\ read'.found = read.found /\ read'.edges = read.edges /\ read'.dict = 0
      BY <1>2, <1>5 DEF Fields
    <2>2. ReadTypes'
      BY <1>1, <1>2, <1>3, <2>1, FieldsOfRead DEF ReadTypes, Reading
    <2>3. SearchInv'
      BY <2>1 DEF SearchInv
    <2>4. ASSUME ~read.met PROVE Iterating'
      <3>1. read.dict # 0 /\ read.pos = read.size /\ Quiet /\ Iterating
        BY <1>2, <1>5, <2>4 DEF Exhausted
      <3>2. /\ read.notes = NotesOf(store) /\ read.found = <<>> /\ read.size = Len(adj)
            /\ read.edges = EdgesOf(LinksTo(read.pos))
        BY <1>1, <3>1 DEF Iterating
      <3>3. read'.edges = EdgesOf(LinksTo(Len(adj)))'
        BY <1>3, <2>1, <3>1, <3>2 DEF EdgesOf, LinksTo
      <3>4. <<>> \in Seq(Degrees)
        OBVIOUS
      <3>5. read'.notes = NotesOf(store')
        BY <1>3, <2>1, <3>2
      <3> QED  BY <2>1, <3>2, <3>3, <3>4, <3>5 DEF Iterating
    <2>5. WalkInv'
      BY <1>2, <2>1, <2>4 DEF WalkInv
    <2>6. (read.step # "done")' /\ (~read.raised)'
      BY <1>2, <2>1
    <2> QED  BY <2>2, <2>3, <2>5, <2>6, GoesOn
  <1> QED  BY <1>4, <1>5 DEF Edges

LEMMA DestsKeeps ==
  ASSUME IndexInv, RequestInv, Dests
  PROVE  RequestInv'
  <1> DEFINE more == {[link |-> <<Item.id, d>>, dangling |-> <<Item.id, d>> \in dangling] : d \in Item.dests}
             edges == read.edges \cup more
  <1>1. /\ read.step = "dests" /\ Aside
        /\ IF Cardinality(Item.dests) # read.seen[1] THEN Raise
           ELSE read' = [read EXCEPT !.step = "edges", !.pos = @ + 1, !.seen = <<>>, !.edges = edges]
    BY DEF Dests
  <1>2. /\ DOMAIN read = Fields /\ ~read.raised /\ ~read.tagged /\ read.mode = "" /\ Reading
        /\ ReadTypes /\ read.kind = "graph" /\ read.met \in BOOLEAN /\ read.settled \in BOOLEAN
        /\ ~read.met => Quiet /\ Iterating
    BY <1>1, Walking
  <1>3. /\ UNCHANGED <<pgvector, store, graphs, dangling>> /\ Quiet' = Quiet
        /\ settled' = settled /\ adj' = adj
    BY <1>1, AsideKeeps
  <1>4. CASE Cardinality(Item.dests) # read.seen[1]
    <2>1. Iterating => read.seen = <<Cardinality(Item.dests)>>
      BY <1>1 DEF Iterating
    <2> DEFINE c == Cardinality(Item.dests)
    <2> HIDE DEF c
    <2>1a. read.seen = <<c>> => read.seen[1] = c
      OBVIOUS
    <2>2. read.met
      BY <1>2, <1>4, <2>1, <2>1a DEF c
    <2> QED  BY <1>1, <1>2, <1>4, <2>2, Fails
  <1>5. CASE Cardinality(Item.dests) = read.seen[1]
    <2>1. read' = [read EXCEPT !.step = "edges", !.pos = @ + 1, !.seen = <<>>, !.edges = edges]
      BY <1>1, <1>5
    <2> HIDE DEF edges
    <2>2. /\ DOMAIN read' = Fields /\ read'.kind = read.kind /\ read'.notes = read.notes
          /\ read'.step = "edges" /\ read'.id = read.id /\ read'.met = read.met
          /\ read'.settled = read.settled
          /\ read'.tagged = read.tagged /\ read'.raised = read.raised /\ read'.mode = read.mode
          /\ read'.found = read.found /\ read'.edges = edges
          /\ read'.pos = read.pos + 1 /\ read'.dict = read.dict /\ read'.size = read.size
      BY <1>2, <2>1 DEF Fields
    <2>3. ReadTypes'
      BY <1>1, <1>2, <1>3, <2>2, FieldsOfRead DEF ReadTypes, Reading
    <2>4. SearchInv'
      BY <2>2 DEF SearchInv
    <2>5. ASSUME ~read.met PROVE Iterating'
      <3>1. /\ read.dict # 0 /\ read.pos < read.size /\ Quiet /\ Iterating
            /\ read.notes = NotesOf(store) /\ read.found = <<>>
            /\ read.edges = EdgesOf(LinksTo(read.pos))
        BY <1>1, <1>2, <2>5 DEF Iterating
      <3>2. /\ adj \in Seq(Node) /\ read.dict = Len(graphs) /\ read.size = Len(adj)
            /\ read.pos \in Nat /\ Item = adj[read.pos + 1] /\ read.pos + 1 \in 0..read.size
        BY <3>1, AtItem
      <3>3. LinksTo(read.pos + 1) = LinksTo(read.pos) \cup {<<Item.id, d>> : d \in Item.dests}
        BY <3>1, <3>2, OneMoreItem
      <3>4. LinksTo(read.pos)' = LinksTo(read.pos + 1)
        BY <1>1, <1>3, <2>2, Unmoved DEF LinksTo
      <3>5. more = EdgesOf({<<Item.id, d>> : d \in Item.dests})
        BY DEF EdgesOf
      <3>6. EdgesOf(LinksTo(read.pos + 1)) = EdgesOf(LinksTo(read.pos)) \cup EdgesOf({<<Item.id, d>> : d \in Item.dests})
        BY <3>3 DEF EdgesOf
      <3>7. edges = EdgesOf(LinksTo(read.pos + 1))
        BY <3>1, <3>5, <3>6 DEF edges
      <3>8. read'.edges = EdgesOf(LinksTo(read.pos))'
        BY <1>3, <2>2, <3>4, <3>7 DEF EdgesOf
      <3>9. read'.notes = NotesOf(store')
        BY <1>3, <2>2, <3>1
      <3> QED  BY <1>3, <2>2, <3>1, <3>2, <3>8, <3>9 DEF Iterating
    <2>6. WalkInv'
      BY <1>2, <2>2, <2>5 DEF WalkInv
    <2>7. (read.step # "done")' /\ (~read.raised)'
      BY <1>2, <2>2
    <2> QED  BY <2>3, <2>4, <2>6, <2>7, GoesOn
  <1> QED  BY <1>4, <1>5

LEMMA NodesKeeps ==
  ASSUME IndexInv, RequestInv, Nodes
  PROVE  RequestInv'
  <1>1. read.step = "nodes" /\ Aside
    BY DEF Nodes
  <1>2. /\ DOMAIN read = Fields /\ ~read.raised /\ ~read.tagged /\ read.mode = "" /\ Reading
        /\ ReadTypes /\ read.kind = "graph" /\ pgvector \in BOOLEAN
        /\ read.met \in BOOLEAN /\ read.settled \in BOOLEAN
        /\ ~read.met => Quiet /\ Iterating
    BY <1>1, Walking
  <1>3. /\ UNCHANGED <<pgvector, store, graphs, dangling>> /\ Quiet' = Quiet
        /\ settled' = settled /\ adj' = adj
    BY <1>1, AsideKeeps
  <1> DEFINE item == [id |-> Item.id, out |-> Cardinality(Item.dests),
                      in |-> Cardinality({e \in read.edges : e.link[2] = Item.id})]
             found == Append(read.found, item)
  <1>4. CASE More /\ read' = [read EXCEPT !.pos = @ + 1, !.found = found]
    <2> HIDE DEF item, found
    <2>2. /\ DOMAIN read' = Fields /\ read'.kind = read.kind /\ read'.notes = read.notes
          /\ read'.step = "nodes" /\ read'.id = read.id /\ read'.met = read.met
          /\ read'.settled = read.settled
          /\ read'.tagged = read.tagged /\ read'.raised = read.raised /\ read'.mode = read.mode
          /\ read'.found = found /\ read'.edges = read.edges
          /\ read'.pos = read.pos + 1 /\ read'.dict = read.dict /\ read'.size = read.size
      BY <1>1, <1>2, <1>4 DEF Fields
    <2>3. ReadTypes'
      BY <1>1, <1>2, <1>3, <2>2, FieldsOfRead DEF ReadTypes, Reading
    <2>4. SearchInv'
      BY <2>2 DEF SearchInv
    <2>5. ASSUME ~read.met PROVE Iterating'
      <3>1. read.dict # 0 /\ read.pos < read.size /\ Quiet /\ Iterating
        BY <1>2, <1>4, <2>5 DEF More
      <3>2. /\ adj \in Seq(Node) /\ read.dict = Len(graphs) /\ read.size = Len(adj)
            /\ read.pos \in Nat /\ Item = adj[read.pos + 1] /\ read.pos + 1 \in 0..read.size
        BY <3>1, AtItem
      <3>3. /\ read.notes = NotesOf(store) /\ read.found \in Seq(Degrees)
            /\ read.edges = EdgesOf(LinksTo(Len(adj)))
            /\ IdsOf(read.found) = {adj[k].id : k \in 1..read.pos}
        BY <1>1, <3>1 DEF Iterating
      <3>4. /\ Item.id \in Ids /\ Item.dests \in SUBSET Ids
            /\ {adj[k].id : k \in 1..read.pos+1} = {adj[k].id : k \in 1..read.pos} \cup {Item.id}
        BY <3>1, <3>2, OneMoreItem
      <3>5. {e \in read.edges : e.link[2] = Item.id} \in SUBSET Edge
        <4>1. \A l \in LinksTo(Len(adj)) : l \in Link
          BY DEF LinksTo
        <4>2. ASSUME NEW e \in read.edges PROVE e \in Edge
          <5>1. PICK l \in LinksTo(Len(adj)) : e = [link |-> l, dangling |-> l \in dangling]
            BY <3>3 DEF EdgesOf
          <5> DEFINE b == l \in dangling
          <5>2. b \in BOOLEAN
            OBVIOUS
          <5> HIDE DEF b
          <5> QED  BY <4>1, <5>1, <5>2 DEF Edge, b
        <4> QED  BY <4>2
      <3>6. item \in Degrees /\ item.id = Item.id
        BY <3>4, <3>5 DEF Degrees, item
      <3>7. found \in Seq(Degrees) /\ IdsOf(found) = IdsOf(read.found) \cup {item.id}
        BY <3>3, <3>6, OneMore DEF found
      <3>8. IdsOf(read'.found) = {adj[k].id : k \in 1..read.pos}'
        <4>1. {adj[k].id : k \in 1..read.pos}' = {adj[k].id : k \in 1..read.pos+1}
          BY <1>3, <2>2
        <4> QED  BY <2>2, <3>3, <3>4, <3>6, <3>7, <4>1
      <3>9. read'.edges = EdgesOf(LinksTo(Len(adj)))'
        BY <1>3, <2>2, <3>3 DEF EdgesOf, LinksTo
      <3>10. read'.notes = NotesOf(store')
        BY <1>3, <2>2, <3>3
      <3> QED  BY <1>3, <2>2, <3>1, <3>2, <3>7, <3>8, <3>9, <3>10 DEF Iterating
    <2>6. WalkInv'
      BY <1>2, <2>2, <2>5 DEF WalkInv
    <2>7. (read.step # "done")' /\ (~read.raised)'
      BY <1>2, <2>2
    <2> QED  BY <2>3, <2>4, <2>6, <2>7, GoesOn
  <1>5. CASE Exhausted /\ Done([read EXCEPT !.dangling = dangling])
    <2> DEFINE r == [read EXCEPT !.dangling = dangling]
    <2>1. /\ DOMAIN r = Fields /\ r.met = read.met /\ r.raised = read.raised /\ r.kind = read.kind
          /\ r.settled = read.settled
          /\ r.mode = read.mode /\ r.notes = read.notes /\ r.edges = read.edges
          /\ r.found = read.found /\ r.dangling = dangling /\ Done(r)
      BY <1>2, <1>5 DEF Fields
    <2> HIDE DEF r
    <2>2. read' = [r EXCEPT !.step = "done", !.seen = <<>>, !.pos = 0, !.size = 0, !.dict = 0]
      BY <2>1 DEF Done
    <2>3. /\ read'.step = "done" /\ ~read'.raised /\ read'.kind = "graph" /\ read'.mode = ""
          /\ read'.met = read.met /\ read'.notes = read.notes /\ read'.edges = read.edges
          /\ read'.settled = read.settled
          /\ read'.found = read.found /\ read'.dangling = dangling
      BY <1>2, <2>1, <2>2 DEF Fields
    <2>4. ASSUME read.settled, ~read.met
          PROVE  /\ VaultOK(store) /\ read.notes = NotesOf(store)
                 /\ read.edges = {[link |-> l, dangling |-> l \in DanglingOf(store)] : l \in Links(store)}
                 /\ dangling = DanglingOf(store) /\ IdsOf(read.found) = DOMAIN store
      <3>1. read.dict # 0 /\ read.pos = read.size /\ settled /\ Iterating
        BY <1>2, <1>5, <2>4 DEF Exhausted, ReadTypes
      <3>2. /\ read.size = Len(adj) /\ read.notes = NotesOf(store)
            /\ read.edges = EdgesOf(LinksTo(Len(adj)))
            /\ IdsOf(read.found) = {adj[k].id : k \in 1..read.pos}
        BY <1>1, <3>1 DEF Iterating
      <3>3. /\ VaultOK(store) /\ adj \in Seq(Node) /\ IdsOf(adj) = DOMAIN store
            /\ dangling = DanglingOf(store)
        BY <3>1, SettledGraph
      <3>4. read.edges = {[link |-> l, dangling |-> l \in DanglingOf(store)] : l \in Links(store)}
        BY <3>1, <3>2, <3>3, SettledGraph DEF EdgesOf
      <3>5. IdsOf(adj) = {adj[k].id : k \in 1..Len(adj)}
        BY <3>3 DEF IdsOf
      <3> QED  BY <3>1, <3>2, <3>3, <3>4, <3>5
    <2> DEFINE e == read.edges
               f == read.found
               b == dangling
               v == store
    <2>5. /\ read'.edges = e /\ read'.found = f /\ read'.dangling = b
          /\ read'.settled /\ ~read'.met =>
                           /\ VaultOK(v) /\ read'.notes = NotesOf(v)
                           /\ e = {[link |-> l, dangling |-> l \in DanglingOf(v)] : l \in Links(v)}
                           /\ b = DanglingOf(v) /\ IdsOf(f) = DOMAIN v
      BY <2>3, <2>4
    <2> HIDE DEF e, f, b, v
    <2>6. AnswerInv'
      BY <2>3, <2>5, GraphMeets
    <2> QED  BY <1>2, <1>3, <2>1, <2>6, Ends
  <1> QED  BY <1>4, <1>5 DEF Nodes

-----------------------------------------------------------------------------
(* The theorems. *)

LEMMA RequestKeeps ==
  ASSUME IndexInv, RequestInv, Request
  PROVE  Aside /\ RequestInv'
  <1>1. CASE \E kind \in Kinds, tagged \in BOOLEAN : BeginSearch(kind, tagged)
    <2>1. PICK kind \in Kinds, tagged \in BOOLEAN : BeginSearch(kind, tagged)
      BY <1>1
    <2>2. Aside
      BY <2>1 DEF BeginSearch
    <2> QED  BY <2>1, <2>2, BeginSearchKeeps
  <1>2. CASE QueryTable
    BY <1>2, QueryTableKeeps DEF QueryTable
  <1>3. CASE BeginScan
    BY <1>3, BeginScanKeeps DEF BeginScan
  <1>4. CASE Scan
    BY <1>4, ScanKeeps DEF Scan
  <1>5. CASE Answer
    BY <1>5, AnswerKeeps DEF Answer
  <1>6. CASE \E id \in Ids : BeginNote(id)
    BY <1>6, BeginNoteKeeps DEF BeginNote
  <1>7. CASE BeginGraph
    BY <1>7, BeginGraphKeeps DEF BeginGraph
  <1>8. CASE Open
    BY <1>8, OpenKeeps DEF Open
  <1>9. CASE Break
    BY <1>9, BreakKeeps DEF Break
  <1>10. CASE Backlinks
    BY <1>10, BacklinksKeeps DEF Backlinks
  <1>11. CASE Edges
    BY <1>11, EdgesKeeps DEF Edges
  <1>12. CASE Dests
    BY <1>12, DestsKeeps DEF Dests
  <1>13. CASE Nodes
    BY <1>13, NodesKeeps DEF Nodes
  <1> QED  BY <1>1, <1>2, <1>3, <1>4, <1>5, <1>6, <1>7, <1>8, <1>9, <1>10, <1>11, <1>12, <1>13
           DEF Request

LEMMA StutterKeeps ==
  ASSUME Inv, UNCHANGED vars
  PROVE  Inv'
  <1>1. Aside /\ read' = read
    BY DEF vars, Aside, index
  <1>2. /\ IndexInv' /\ UNCHANGED <<pgvector, store, vectors, graphs, dangling, run, settled>>
        /\ Quiet' = Quiet /\ settled' = settled /\ adj' = adj
    BY <1>1, AsideKeeps DEF Inv
  <1>3. ReadTypes'
    BY <1>1, <1>2 DEF Inv, RequestInv, ReadTypes, Reading
  <1>4. SearchInv'
    BY <1>1, <1>2 DEF Inv, RequestInv, SearchInv, Searching
  <1>5. \A p : SourcesTo(p)' = SourcesTo(p) /\ LinksTo(p)' = LinksTo(p)
    BY <1>1, <1>2 DEF SourcesTo, LinksTo
  <1>6. Item' = Item
    BY <1>1, <1>2 DEF Item
  <1>7. Iterating' = Iterating
    BY <1>1, <1>2, <1>6 DEF Iterating, SourcesTo, LinksTo, EdgesOf
  <1>8. WalkInv'
    BY <1>1, <1>7 DEF Inv, RequestInv, WalkInv
  <1>9. AnswerInv'
    BY <1>1, <1>2 DEF Inv, RequestInv, AnswerInv, WellFormedAnswer, HybridKeepsKeywords,
                      NoFalseRefusal, GraphOfTheNotes, RaisedByRunsOnly, SemanticIsRanking,
                      Answers, Search, Undisturbed
  <1> QED  BY <1>2, <1>3, <1>4, <1>8, <1>9 DEF Inv, RequestInv

LEMMA InitInv == Init => Inv
  <1> SUFFICES ASSUME Init PROVE Inv
    OBVIOUS
  <1>1. IndexInv
    BY InitIndex
  <1>2. read = NoRead /\ pgvector \in BOOLEAN
    BY DEF Init
  <1>3. read.step = "idle" /\ read.met = FALSE /\ read.settled = FALSE /\ ~read.raised
    BY <1>2 DEF NoRead
  <1>4. ReadTypes
    BY <1>2, <1>3 DEF ReadTypes, Reading
  <1>5. SearchInv /\ WalkInv
    BY <1>3 DEF SearchInv, WalkInv
  <1>6. AnswerInv
    BY <1>3, NoAnswerYet
  <1> QED  BY <1>1, <1>4, <1>5, <1>6 DEF Inv, RequestInv

LEMMA NextKeepsInv == Inv /\ [Next]_vars => Inv'
  <1> SUFFICES ASSUME Inv, [Next]_vars PROVE Inv'
    OBVIOUS
  <1>1. IndexInv /\ RequestInv
    BY DEF Inv
  <1>2. CASE Run
    <2>1. IndexInv' /\ pgvector' = pgvector /\ (RunOnly \/ Begun)
      BY <1>1, <1>2, RunKeeps
    <2>2. RequestInv'
      BY <1>1, <2>1, RunLeavesRequest, RunMeetsRequest
    <2> QED  BY <2>1, <2>2 DEF Inv
  <1>3. CASE Request
    <2>1. Aside /\ RequestInv'
      BY <1>1, <1>3, RequestKeeps
    <2> QED  BY <1>1, <2>1, AsideKeeps DEF Inv
  <1>4. CASE UNCHANGED vars
    BY <1>4, StutterKeeps
  <1> QED  BY <1>2, <1>3, <1>4 DEF Next

\* The index is settled only as its notes have it, and every request so far is
\* where its code may be and has read what it may have read.
THEOREM Invariance == Spec => []Inv
  BY InitInv, NextKeepsInv, PTL DEF Spec

\* What a run that was alone ends with is the index of its notes: the vectors,
\* the graph and the dangling links are those of the stored notes and nothing
\* else, whatever runs that raised half way or built at the same time had left.
THEOREM RunsSettle == Spec => []SettledIndex
  <1>1. Inv => SettledIndex
    <2> SUFFICES ASSUME Inv, settled PROVE SettledIndex
      BY DEF SettledIndex
    <2>1. VaultOK(store) /\ Indexed
      BY IndexTypesFacts DEF Inv, IndexInv
    <2>2. ToSet(LinksOf(NotesOf(store))) = Links(store)
      BY <2>1, LinksOfVault
    <2> QED  BY <2>1, <2>2 DEF SettledIndex, Indexed, GraphIs, DanglingOf
  <1> QED  BY <1>1, Invariance, PTL

\* Whatever search_notes and chat make of the vectors they saw, in whatever
\* state a run of the indexer left them, the answer is at most "limit" notes the
\* request had read, each once and in the order of the scores.
THEOREM WellFormedAnswers == Spec => []WellFormedAnswer
  <1>1. Inv => WellFormedAnswer
    BY DEF Inv, RequestInv, AnswerInv
  <1> QED  BY <1>1, Invariance, PTL

\* A semantic search of a settled index that met no run ranks the notes by their best chunks: what
\* _query_vectors cuts off at four times the limit never costs a better note.
THEOREM SemanticRanks == Spec => []SemanticIsRanking
  <1>1. Inv => SemanticIsRanking
    BY DEF Inv, RequestInv, AnswerInv
  <1> QED  BY <1>1, Invariance, PTL

\* The merge of a hybrid search loses a keyword match only to better results.
THEOREM HybridKeeps == Spec => []HybridKeepsKeywords
  <1>1. Inv => HybridKeepsKeywords
    BY DEF Inv, RequestInv, AnswerInv
  <1> QED  BY <1>1, Invariance, PTL

\* Chat refuses only when no note it read matches the words of the question.
THEOREM RefusesRightly == Spec => []NoFalseRefusal
  <1>1. Inv => NoFalseRefusal
    BY DEF Inv, RequestInv, AnswerInv
  <1> QED  BY <1>1, Invariance, PTL

\* A graph or a note's backlinks read from a settled index, without a run
\* between, are exactly those of the notes stored when the request began.
THEOREM GraphAnswers == Spec => []GraphOfTheNotes
  <1>1. Inv => GraphOfTheNotes
    BY DEF Inv, RequestInv, AnswerInv
  <1> QED  BY <1>1, Invariance, PTL

\* The RuntimeError of a dict that changes while it is iterated needs a run
\* under way; keyword searches, tagged ones and the table's never raise it.
THEOREM OnlyRunsRaise == Spec => []RaisedByRunsOnly
  <1>1. Inv => RaisedByRunsOnly
    BY DEF Inv, RequestInv, AnswerInv
  <1> QED  BY <1>1, Invariance, PTL
=============================================================================
