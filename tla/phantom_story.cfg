CONSTANTS
    a = a
    b = b
    c = c
    r = r
    link = link
    page = page
    Items = {a, b, c}
    Stories = {s1, s2, s3, s4}
    Clusterers = {k1}
    None = None
    NoStory = NoStory
    NoItem = NoItem
    NoClaim = NoClaim
    CopyHammingMax = 1
    CorroborationN = 2
    MinSources = 2
    MaxFaults = 1
    Node <- MCNode
    Backs <- NoBacks
    Mergeable <- MCMergeable
SPECIFICATION Spec
INVARIANT NoPhantomStory
CHECK_DEADLOCK FALSE
