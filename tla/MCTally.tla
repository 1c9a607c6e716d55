------------------------------ MODULE MCTally ------------------------------
(* p and q are two copies of one post that mentions the one entity.         *)
EXTENDS Tally, TLC

CONSTANTS p, q, post

MCKeyOf == [i \in Items |-> post]

MCClassOf == [i \in Items |-> "social"]

OneOfEach == [k \in FaultKinds |-> 1]

\* Any two kinds of failure, but not more in one behaviour.
AtMostTwoFailures == Cardinality({k \in FaultKinds : left[k] = 0}) <= 2

Symmetry == Permutations(Replicas) \cup Permutations(Items)
=============================================================================
