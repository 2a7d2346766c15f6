SPECIFICATION Spec
CONSTANTS
    Thread = {t1, t2}
    Customer = {alice, bob}
    Nobody = Nobody
    Token = {k1, k2}
    Ttl = 1
    MaxTime = 3
    MaxAudit = 4
    Faults = {"audit", "crash"}
VIEW View
SYMMETRY Symmetry
INVARIANTS
    SessionsAccountedFor
PROPERTIES
    SessionKept
CHECK_DEADLOCK FALSE
