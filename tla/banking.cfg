SPECIFICATION ServiceSpec
CONSTANTS
    AccountId = {1, 2, 3}
    MaxAccountId = 3
    NoAccount = NoAccount
    MaxCents = 5
    Thread = {t1, t2}
    NoThread = NoThread
    Txns <- MCTxns
    InitAccounts <- MCInitAccounts
    MaxTxns = 3
    Faults = {"load", "wal", "crash"}
    ServiceAuditBase = 100
    StatusFaults = {"save", "audit"}
    MaxVersion = 2
VIEW View
SYMMETRY Symmetry
INVARIANTS
    BalanceMatchesHistory
PROPERTIES
    FrozenKeepsBalance
    ServiceVersionStep
CHECK_DEADLOCK FALSE
