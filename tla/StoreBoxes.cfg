SPECIFICATION StoreSpec
CONSTANTS
    Players = {h, c}
    Host = h
    Items = {}
    Tables = {}
    Colors = {red, green}
    Shapes = {ball}
    Silver = silver
    NoItem = NoItem
    NoTable = NoTable
    StartingBudget = 2
    OrderReward = 2
    ConstructCost = 1
    Boards = {h, c}
    MaxOrders = 2
    MaxBudget = 4
INVARIANT
    BoxesAreOrders
CHECK_DEADLOCK FALSE
