CONSTANTS
    p = p
    q = q
    post = post
    Items = {p, q}
    Keys = {post}
    Replicas = {e1, e2}
    Mentioning = {p, q}
    NoItem = NoItem
    SharedKV = {TRUE}
    LruCap = 1
    MaxMinute = 1
    MaxFlushes = 3
    KeyOf <- MCKeyOf
    ClassOf <- MCClassOf
    Faults <- OneOfEach
SPECIFICATION TallySpec
SYMMETRY Symmetry
CONSTRAINT AtMostTwoFailures
INVARIANT NoOvercount
INVARIANT NoUndercount
CHECK_DEADLOCK FALSE
