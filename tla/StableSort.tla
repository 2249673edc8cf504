----------------------------- MODULE StableSort ------------------------------
(***************************************************************************)
(* A stable sort by ascending integer keys, as sorted(), list.sort() and   *)
(* numpy.argsort(kind="stable") do it: the order in which the places of    *)
(* the unsorted list are visited.                                          *)
(***************************************************************************)
EXTENDS Integers, Sequences, FiniteSets

VisitedBefore(keys, i, j) == keys[i] < keys[j] \/ (keys[i] = keys[j] /\ i < j)

\* When place j is visited.
Turn(keys, j) == Cardinality({i \in DOMAIN keys : VisitedBefore(keys, i, j)}) + 1

ArgSort(keys) ==
  [k \in 1..Len(keys) |-> CHOOSE j \in DOMAIN keys : Turn(keys, j) = k]
=============================================================================
