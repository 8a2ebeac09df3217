------------------------------- MODULE Places -------------------------------
(***************************************************************************)
(* The places of a sequence that a filter keeps, in their order: what the  *)
(* code does with an erased range of a vector, and with an ordered map     *)
(* from numbers that is walked from its first key to its last.             *)
(***************************************************************************)
EXTENDS Integers, Sequences, FiniteSets

(* How many numbers of a set there are up to i; the k-th number of a set;  *)
(* what a sequence holds at the numbers of a set.                          *)
Place(i, at) == Cardinality({j \in at : j <= i})
Nth(k, at) == CHOOSE i \in at : Place(i, at) = k
Keep(s, at) == [k \in 1..Cardinality(at) |-> s[Nth(k, at)]]
Filtered(s, F(_)) == Keep(s, {i \in DOMAIN s : F(s[i])})

(* The values of a map from numbers, from the first key to the last.       *)
Ascending(f) == Keep(f, DOMAIN f)
=============================================================================
