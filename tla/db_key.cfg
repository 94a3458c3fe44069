SPECIFICATION Spec
CONSTANTS
    p1 = p1
    p2 = p2
    p3 = p3
    Processes = {p1, p2, p3}
    MaxKeys = 4
    MaxFaults = 3
INVARIANTS
    TypeOK
    KeyFileOpensDatabase
SYMMETRY Interchangeable
CHECK_DEADLOCK FALSE
