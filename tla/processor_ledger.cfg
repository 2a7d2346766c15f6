SPECIFICATION FairSpec
CONSTANTS
    AccountId = {1, 2, 3}
    MaxAccountId = 3
    NoAccount = NoAccount
    MaxCents = 5
    Thread = {t1, t2}
    NoThread = NoThread
    Txns <- MCTxns
    InitAccounts <- MCInitAccounts
    MaxTxns = 3
    Faults = {"load", "wal", "audit"}
PROPERTIES
    LedgerSpec
    EveryCallReturns
CHECK_DEADLOCK FALSE
