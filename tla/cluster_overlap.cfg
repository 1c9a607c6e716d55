CONSTANTS
    a = a
    b = b
    c = c
    r = r
    link = link
    page = page
    Items = {a, b}
    Stories = {s1, s2, s3, s4, s5}
    Clusterers = {k1, k2}
    None = None
    NoStory = NoStory
    NoItem = NoItem
    NoClaim = NoClaim
    CopyHammingMax = 1
    CorroborationN = 2
    MinSources = 2
    MaxFaults = 3
    Node <- MCNode
    Backs <- NoBacks
    Mergeable <- MCMergeable
SPECIFICATION UncontestedSpec
SYMMETRY Symmetry
INVARIANT EdgesComplete
CHECK_DEADLOCK FALSE
