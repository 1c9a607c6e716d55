------------------------------ MODULE Ordering ------------------------------
(***************************************************************************)
(* ORDER BY and sorted(): a finite set as the sequence of its elements.    *)
(* SetToSortSeq of the community modules, with the order as a set of pairs *)
(* and in a form whose facts can be proved.                                *)
(***************************************************************************)
EXTENDS Integers, FiniteSets

\* The k-th element is the one that k - 1 others come before.
InOrder(S, before) ==
    [k \in 1..Cardinality(S) |->
        CHOOSE s \in S : Cardinality({t \in S : <<t, s>> \in before}) = k - 1]
=============================================================================
