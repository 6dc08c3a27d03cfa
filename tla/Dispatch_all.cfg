SPECIFICATION FairSpec
CONSTANTS
    Requests = {ra, rb}
    Workers = {wa, wb}
    Sends = {s1, s2}
    MaxFaults = 3
INVARIANT
    OneMailPerSend
PROPERTY
    ImplementsOutbox
    SentIsMailed
CHECK_DEADLOCK FALSE
