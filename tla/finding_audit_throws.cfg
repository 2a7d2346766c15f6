SPECIFICATION Spec
CONSTANTS
    AccountId = {1, 2, 3}
    MaxAccountId = 3
    NoAccount = NoAccount
    MaxCents = 5
    Thread = {t1, t2}
    NoThread = NoThread
    Txns <- MCFaultTxns
    InitAccounts <- MCInitAccounts
    MaxTxns = 3
    Faults = {"audit"}
INVARIANTS
    NeverThrows
CHECK_DEADLOCK FALSE
