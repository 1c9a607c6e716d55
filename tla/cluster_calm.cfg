CONSTANTS
    a = a
    b = b
    c = c
    r = r
    link = link
    page = page
    Items = {a, b, c, r}
    Stories = {s1, s2, s3, s4}
    Clusterers = {k1}
    None = None
    NoStory = NoStory
    NoItem = NoItem
    NoClaim = NoClaim
    CopyHammingMax = 1
    CorroborationN = 2
    MinSources = 2
    MaxFaults = 0
    Node <- MCNode
    Backs <- MCBacks
    Mergeable <- MCMergeable
SPECIFICATION Spec
SYMMETRY Symmetry
INVARIANT NoPhantomStory
INVARIANT NoOrphanStory
INVARIANT RowsExact
PROPERTY CorroborationEarned
PROPERTY PromotionBacked
PROPERTY LedgerSpec
CHECK_DEADLOCK FALSE
