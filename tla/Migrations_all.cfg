SPECIFICATION FairSpec
CONSTANTS
    old = old
    new1 = new1
    new2 = new2
    Containers <- Three
    Head <- Heads
    MaxDowngrades = 3
    MaxCrashes = 1
INVARIANTS
    TypeOK
    SchemaIsRevision
    ServesAtHead
    RevisionsApply
PROPERTY ComesUp
CHECK_DEADLOCK FALSE
