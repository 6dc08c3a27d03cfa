SPECIFICATION Spec
CONSTANTS
    r1 = r1
    r2 = r2
    i1 = i1
    i2 = i2
    p1 = p1
    p2 = p2
    p3 = p3
    Items <- TwoItems
    Price <- TwoItemPrice
    Pays <- ThreePays
    Entered <- ThreePayEntered
    Value <- ThreePayValue
    Cent = 4
    Requests <- OneSlot
    Ops <- AllOps
PROPERTIES
    ImplementsLedger
    StatusReflectsPayments
    StatusFitsRows
CHECK_DEADLOCK FALSE
