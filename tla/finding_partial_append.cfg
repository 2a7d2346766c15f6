SPECIFICATION Spec
CONSTANTS
    TxnId = {1, 2, 3}
    MaxCells = 12
    Faults = {"append"}
INVARIANTS
    CommittedIsDurable
CHECK_DEADLOCK FALSE
