CONSTANTS
    u = u
    v = v
    p = p
    quake = quake
    post = post
    Items = {u, v, p}
    Keys = {quake, post}
    Replicas = {e1}
    Mentioning = {}
    NoItem = NoItem
    SharedKV = {TRUE}
    LruCap = 1
    KeyOf <- MCKeyOf
    ClassOf <- MCClassOf
    Faults <- OneNak
SPECIFICATION Spec
INVARIANT AuthoritativeKept
CHECK_DEADLOCK FALSE
