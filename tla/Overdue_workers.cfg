SPECIFICATION FairSpec
CONSTANTS
    Invoices = {i1, i2}
    Workers = {w1, w2}
    Statuses = {"SENT", "PARTIALLY_PAID", "OVERDUE"}
    Poison = {i1}
    MaxQueue = 1
    MaxFaults = 1
    MaxCount = 3
    MaxFailed = 1
INVARIANTS
    TypeOK
    ReminderBeforeFlag
    ExtraOnlyAfterFailure
PROPERTIES
    SilentOnceFlagged
    EveryoneMarked
