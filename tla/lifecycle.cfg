SPECIFICATION FairSpec
CONSTANTS
    Worker = {w1, w2}
    Puller = {p1}
    Client = {c1, c2}
    Controller = {k1, k2}
    Nobody = Nobody
    MaxTxns = 3
    MaxStarts = 2
INVARIANTS
    TypeOK
    ReservationsMatch
    EachTicketOnce
    IdsUsedOnce
PROPERTIES
    RunningStopDrains
    StopReturns
    QueuedIsProcessed
CHECK_DEADLOCK FALSE
