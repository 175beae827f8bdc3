SPECIFICATION FairCarrySpec
CONSTANTS
    Players = {h, c, d}
    Host = h
    Items = {i1, i2}
    Tables = {}
    Colors = {red}
    Shapes = {ball}
    Silver = silver
    NoItem = NoItem
    NoTable = NoTable
INVARIANTS
    CarryTypeOK
    OneCarrier
    ViewsNeverAhead
    SeenOneCarrier
PROPERTIES
    OwnHandsSeen
    ItemsInCustody
CHECK_DEADLOCK FALSE
