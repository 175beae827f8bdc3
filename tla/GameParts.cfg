SPECIFICATION Spec
CONSTANTS
    Players = {h, c}
    Host = h
    Items = {i1}
    Tables = {t}
    Colors = {red}
    Shapes = {ball}
    Silver = silver
    NoItem = NoItem
    NoTable = NoTable
    StartingBudget = 2
    OrderReward = 2
    ConstructCost = 1
    Boards = {h, c}
    MaxOrders = 3
    MaxBudget = 6
    MaxCalls = 2
    MaxDelivers = 1
PROPERTIES
    StoreSpec
    CarrySpec
CHECK_DEADLOCK FALSE
