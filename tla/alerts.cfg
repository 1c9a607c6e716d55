CONSTANTS
    Stories = {s, t}
    Scorers = {w}
    Zs = {10}
    SwarmSize = 6
    Cooldown = 2
    Window = 3
    MaxStories = 1
    Batch = 2
    Unpushable = {t}
    MaxTick = 1
    MaxTime = 4
    MaxChanges = 1
    Faults <- EitherFails
SPECIFICATION EitherSpec
INVARIANT TypeOK
INVARIANT CooldownKept
INVARIANT CursorCoversPushed
INVARIANT NoIdleRepeat
PROPERTY AlertsEarned
PROPERTY CatchesUp
PROPERTY HotIsAlerted
CHECK_DEADLOCK FALSE
