------------------------------ MODULE RowSets ------------------------------
(* What is done with sets of rows: sum(...) and ORDER BY.                  *)
EXTENDS Integers, FiniteSets, FiniteSetsExt

\* What a function has for the keys it has.
Sum(f) == MapThenSumSet(LAMBDA k : f[k], DOMAIN f)

\* The rows in their order: <<x, y>> \in before if x comes before y.
OrderBy(set, before) ==
    [n \in 1..Cardinality(set) |->
        CHOOSE x \in set : Cardinality({y \in set : <<y, x>> \in before}) = n - 1]
=============================================================================
