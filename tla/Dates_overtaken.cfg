SPECIFICATION Spec
CONSTANTS
    Requests = {ra, rb, rc}
    Dates <- MCDates
    Absent = absent
SYMMETRY Symmetric
INVARIANTS
    TypeOK
    ReadableUnlessCrossed
CHECK_DEADLOCK FALSE
