------------------------------ MODULE MCFilter ------------------------------
EXTENDS Filter, TLC

\* A new model can turn a stream of middling items into one of relevant ones.
MCRelevanceOf == [m \in Models |-> IF m = 0 THEN {2, 5} ELSE IF m = 1 THEN {7} ELSE {1, 4}]

OneOfEach == [k \in FaultKinds |-> 1]
=============================================================================
