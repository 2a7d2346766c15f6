SPECIFICATION SpecText
CONSTANTS
    AccountId = {0, 3, 4, 7}
    MaxAccountId = 7
    NoAccount = NoAccount
    MaxCents = 3
    HalfRange = 4
    PerMs = 3
    NoDocument = NoDocument
    Nothing = Nothing
    Payments <- MCPayments
    Callers = 2
    MaxId = 3
    Actor = {alice, bob}
    MaxEntries = 4
    MaxTime = 5
    SavedId = {0, 4, 7}
    CustomerId = {0, 4}
    p1 = p1
    p2 = p2
    NoPin = NoPin
    Pin = {p1, p2}
    People <- MCPeople
    Salts <- MCSalts
    Rows <- MCRows
    Records <- MCRecords
    Snapshots <- MCSnapshots
    MaxInt = 12
    Values <- MCValues
    Bytes <- MCBytes
    MaxEdits = 2
INVARIANTS
    TransactionRoundTrip
    
    EntriesSayWhatTheyHold
    SameAccounts
    SameCustomers
    DocumentReadsWhole
    ParsesTheGrammar
    SameTransactions
    FindsSinceItsMillisecond
CHECK_DEADLOCK FALSE
