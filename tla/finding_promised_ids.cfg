SPECIFICATION Spec
CONSTANTS
    Worker = {w1, w2}
    Puller = {}
    Client = {c1, c2}
    Controller = {k1, k2}
    Nobody = Nobody
    MaxTxns = 3
    MaxStarts = 2
INVARIANTS
    PromisedIds
CHECK_DEADLOCK FALSE
