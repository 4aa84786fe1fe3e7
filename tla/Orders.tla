------------------------------- MODULE Orders -------------------------------
(* A finite set laid out as a sequence in an order on it, as ORDER BY and      *)
(* sort do: an element's place is the number of those that come before it.     *)
(* An order is the set of the pairs whose first comes before their second.     *)
EXTENDS Naturals, FiniteSets

Before(x, S, order) == {y \in S : <<y, x>> \in order}

InOrder(S, order) ==
  [i \in 1..Cardinality(S) |-> CHOOSE x \in S : Cardinality(Before(x, S, order)) = i - 1]

(* The elements of a sequence at some of its places, in their order. *)
Rising(S) == {p \in S \X S : p[1] < p[2]}
Kept(s, places) == [i \in 1..Cardinality(places) |-> s[InOrder(places, Rising(places))[i]]]

(* With such an order on S the places are 1..Cardinality(S), one for each element. *)
StrictOrder(S, order) ==
  /\ \A x \in S : <<x, x>> \notin order
  /\ \A x, y \in S : x # y => <<x, y>> \in order \/ <<y, x>> \in order
  /\ \A x, y, z \in S : <<x, y>> \in order /\ <<y, z>> \in order => <<x, z>> \in order

=============================================================================
