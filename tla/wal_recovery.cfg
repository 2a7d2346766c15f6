SPECIFICATION Spec
CONSTANTS
    TxnId = {1, 2, 3}
    MaxCells = 12
    Faults = {"open", "mark", "crash"}
INVARIANTS
    TypeOK
    CommittedIsDurable
    LsnIsDurable
PROPERTIES
    JournalSpec
CHECK_DEADLOCK FALSE
