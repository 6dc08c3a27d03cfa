SPECIFICATION FairSpec
CONSTANTS
    Readers = {ra, rb}
    Writers = {wa, wb}
    Kinds <- AllKinds
    MaxVersion = 2
INVARIANTS
    TypeOK
    FreshUnlessRaced
PROPERTY
    CacheSettles
