SPECIFICATION Spec
CONSTANTS
    AccountId = {1, 2, 3}
    MaxAccountId = 3
    NoAccount = NoAccount
    MaxCents = 5
    Thread = {t1, t2}
    NoThread = NoThread
    Txns <- MCFaultTxns
    InitAccounts <- MCInitAccounts
    MaxTxns = 3
    Faults = {"crash"}
INVARIANTS
    FailureIsNotCommitted
CHECK_DEADLOCK FALSE
