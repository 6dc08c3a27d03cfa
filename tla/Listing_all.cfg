SPECIFICATION FairSpec
CONSTANTS
    alice = alice
    Callers = {w}
    Keys <- OneKey
    Subject <- SameSubject
    Limit = 2
    Window = 2
    MaxId = 4
    PageSize = 2
    MaxOthers = 2
INVARIANTS
    Burst
    RefusedOnlyAtLimit
    TypeOK
    SkipsAreDeletions
    RepeatsAreLateCommits
PROPERTY WalksEnd
