------------------------------ MODULE Ranking -------------------------------
(* Python's sort, of a set whose members the key tells apart. *)
EXTENDS Integers, FiniteSets

\* The members of S, each after those that come before it.
Ranked(S, Before(_, _)) ==
    LET place == [x \in S |-> Cardinality({y \in S : Before(y, x)}) + 1]
    IN  [i \in 1..Cardinality(S) |-> CHOOSE x \in S : place[x] = i]
=============================================================================
