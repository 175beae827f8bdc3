SPECIFICATION FairSpec
CONSTANTS
    MaxPuts = 3
    MaxBreaks = 2
    MaxRestarts = 1
INVARIANTS
    TypeOK
    OneNumberEach
    
    DispatchedInSequence
PROPERTIES
    OutboxSpec
    
    SentIsAcknowledged
CHECK_DEADLOCK FALSE
