SPECIFICATION RecoverySpec
CONSTANTS
    AccountId = {1, 2}
    MaxAccountId = 2
    NoAccount = NoAccount
    MaxCents = 3
    Thread = {t1, t2}
    NoThread = NoThread
    Txns <- MCTxns
    InitAccounts <- MCInitAccounts
    MaxTxns = 3
    Faults = {"wal", "save", "commit", "record", "crash"}
    NoFile = NoFile
    Part = Part
    Nothing = Nothing
    StoreFaults = {"write", "rename", "remove", "crash"}
    WalFaults = {"open", "mark", "crash"}
VIEW View
SYMMETRY Symmetry
INVARIANTS
    JournalIsFile
    RecoversSavedAccounts
    NeverTorn
    CheckpointSurvives
CHECK_DEADLOCK FALSE
