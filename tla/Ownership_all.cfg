SPECIFICATION Spec
CONSTANTS
    Users = {u1, u2}
    Emails = {e1, e2}
    Clients = {c1, c2}
    Invoices = {n1, n2}
    Requests = {r1, r2}
    None = None
SYMMETRY Symmetric
INVARIANTS
    TypeOK
    ActsForHolder
    Rooted
PROPERTY ImplementsTree
CHECK_DEADLOCK FALSE
