CONSTANTS
    Class <- MCClass
    Normal <- MCNormal
    MaxChars = 3
    MaxSpanText = 3
    MaxEntities = 3
    Bits = 3
    MaxRows = 3
    MinRows = 2
    MinPerClass = 1
    EvalNum = 1
    EvalDen = 2
    Requests = {1, 2, 3}
    Sorts = {"gap", "corroborated", "weather", "newest"}
    Limits <- MCLimits
    MaxLimit = 2
    Histories <- MCHistories
    Failures = 1
    EncodeCalls <- MCEncodeCalls
    NerCalls <- MCNerCalls
    MatchCalls <- MCMatchCalls
    MergeCalls <- MCMergeCalls
    HashCalls <- MCHashCalls
    RecordsOf <- MCRecordsOf
    GateCalls <- MCGateCalls
    VelocityCalls <- MCVelocityCalls
SPECIFICATION Spec
INVARIANT TextExact
INVARIANT SourcesIdentify
INVARIANT VelocityHonest
INVARIANT GateSound
INVARIANT AnswersTrue
CHECK_DEADLOCK FALSE
