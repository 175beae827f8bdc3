SPECIFICATION Spec
CONSTANTS
    MaxMessages = 5
    MaxSessions = 3
INVARIANTS
    BrokerTypeOK
    
    NoneCrosses
    NoneLost
    TornOnlyByRemains
CHECK_DEADLOCK FALSE
