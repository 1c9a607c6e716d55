CONSTANTS
    Budget = 4
    Floor = 0
    Ceiling = 9
    Step = 2
    Slew = 3
    RelaxNum = 1
    RelaxDen = 4
    Relevances = {1, 2, 4, 5, 7}
    Replicas = {pod}
    Pod = pod
    Broken = {2}
    Scores = {0, 1}
    MaxModels = 3
    Faults <- OneOfEach
    RelevanceOf <- MCRelevanceOf
SPECIFICATION FilterSpec
INVARIANT FilterTypeOK
INVARIANT OvershootBounded
PROPERTY SheddingEnds
PROPERTY SwapsForward
PROPERTY PodsConverge
CHECK_DEADLOCK FALSE
