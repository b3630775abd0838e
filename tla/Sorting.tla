------------------------------- MODULE Sorting -------------------------------
(***************************************************************************)
(* sorted() and list.sort() on elements of which no two are equal in the   *)
(* order, a set of pairs: the k-th element has k - 1 before it; and a list *)
(* cut down to some of its elements.  (SortSeq of TLC and SelectSeq say    *)
(* the same, but the provers have no definition of them.)                  *)
(***************************************************************************)
EXTENDS Integers, FiniteSets

Rank(x, S, Less) == Cardinality({y \in S : <<y, x>> \in Less})
Sorted(S, Less) == [k \in 1..Cardinality(S) |-> CHOOSE x \in S : Rank(x, S, Less) = k - 1]

\* [x for x in s if x in S]
PositionsIn(s, S) == {k \in DOMAIN s : s[k] \in S}
Ascending(numbers) == {p \in numbers \X numbers : p[1] < p[2]}
Only(s, S) ==
  LET at == Sorted(PositionsIn(s, S), Ascending(PositionsIn(s, S)))
  IN [k \in DOMAIN at |-> s[at[k]]]
=============================================================================
