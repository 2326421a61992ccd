------------------------------- MODULE Lists -------------------------------
(***************************************************************************)
(* Sums, orders and selections of lists, as functions and sets: a fold or  *)
(* SelectSeq takes an operator, and nothing can then be proved of it.      *)
(***************************************************************************)
EXTENDS Integers, FiniteSets, SequencesExt

\* sum(s) of a list of numbers.
Total(s) ==
    LET total[k \in 0 .. Len(s)] == IF k = 0 THEN 0 ELSE total[k - 1] + s[k]
    IN  total[Len(s)]

\* The members of S in the order of a relation, a set of pairs, that orders
\* them strictly and totally: the k-th has k - 1 before it.
Ranked(S, before) ==
    [k \in 1 .. Cardinality(S) |->
        CHOOSE x \in S : Cardinality({y \in S : <<y, x>> \in before}) = k - 1]

\* A set of numbers in ascending order.
InOrder(S) == Ranked(S, {p \in S \X S : p[1] < p[2]})

\* The elements of s at the positions of I, in their order.
Picked(s, I) == LET at == InOrder(I) IN [k \in DOMAIN at |-> s[at[k]]]
=============================================================================
