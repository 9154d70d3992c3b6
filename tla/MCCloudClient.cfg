SPECIFICATION FairSpec
CONSTANTS
    poller = poller
    web = web
    writer = writer
    NoOne = NoOne
    Readers <- MCReaders
    Writers <- MCWriters
    RetryMax = 3
    CbThreshold = 4
    CbRecovery = 2
    ScanIgnore = 2
INVARIANTS
    TypeOK
    BreakerMatchesCounter
    StaleReadWasOvertaken
PROPERTIES
    CallsTakeTurns
    OpenBreakerSendsOnlyRetries
    EveryCallReturns
