SPECIFICATION FairSpec
CONSTANTS
    r1 = r1
    r2 = r2
    i1 = i1
    i2 = i2
    p1 = p1
    p2 = p2
    p3 = p3
    Items <- OneItem
    Price <- OneItemPrice
    Pays <- TwoPays
    Entered <- TwoPayValue
    Value <- TwoPayValue
    Cent = 1
    Requests <- TwoSlots
    Ops <- LockingOps
PROPERTY RequestsFinish
CHECK_DEADLOCK FALSE
