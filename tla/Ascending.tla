------------------------------ MODULE Ascending ------------------------------
(***************************************************************************)
(* The elements of a finite set of naturals listed in ascending order.     *)
(* Every list the backend builds by filtering or sorting is stated with    *)
(* this one operator: the positions that survive a list comprehension, the *)
(* rows of a table in the order of their key.  It is defined by rank, not  *)
(* by recursion, so that facts about it can be proved (EventBusProofs).    *)
(***************************************************************************)
EXTENDS Naturals, FiniteSets

\* How many members of S are at most n.
Rank(S, n) == Cardinality({m \in S : m <= n})

\* The k-th entry is the member of S that has exactly k members at or below it.
InOrder(S) ==
  [k \in 1..Cardinality(S) |-> CHOOSE n \in S : Rank(S, n) = k]

=============================================================================
