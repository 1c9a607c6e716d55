CONSTANTS
    a = a
    b = b
    Hosts <- MCHosts
    MaxRecords = 4
    Worth <- MCWorth
    Post <- MCPost
    Supply <- MCSupply
    Page = 2
    SeenCap = 3
    Faults <- OneOfEach
SPECIFICATION FairSpec
INVARIANT TypeOK
INVARIANT NoGap
INVARIANT OnceEach
INVARIANT PublishedOnce
PROPERTY EveryPostArrives
CHECK_DEADLOCK FALSE
