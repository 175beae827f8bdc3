SPECIFICATION FairSpec
CONSTANTS
    UserSettings <- MCUserSettings
    RiderModes <- MCRiderModes
    MaxConnections = 2
    MaxMoves = 3
INVARIANTS
    LinkTypeOK
    AliveWhileConnected
    ShownMode
    ShownPlay
    RequestsAnswered
PROPERTIES
    NewModelWhileDead
    
    AliveSettles
CHECK_DEADLOCK FALSE
