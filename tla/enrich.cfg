CONSTANTS
    u = u
    v = v
    p = p
    quake = quake
    post = post
    Items = {u, v, p}
    Keys = {quake, post}
    Replicas = {e1, e2}
    Mentioning = {}
    NoItem = NoItem
    SharedKV = {TRUE, FALSE}
    LruCap = 1
    KeyOf <- MCKeyOf
    ClassOf <- MCClassOf
    Faults <- OneOfEach
SPECIFICATION FairSpec
INVARIANT TypeOK
INVARIANT SingleRepresentative
INVARIANT AuthoritativeSurvives
PROPERTY AuthoritativeStored
CHECK_DEADLOCK FALSE
