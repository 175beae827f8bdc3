SPECIFICATION FairStoreSpec
CONSTANTS
    Players = {h, c}
    Host = h
    Items = {}
    Tables = {}
    Colors = {red, green}
    Shapes = {ball}
    Silver = silver
    NoItem = NoItem
    NoTable = NoTable
    StartingBudget = 2
    OrderReward = 2
    ConstructCost = 1
    Boards = {h, c}
    MaxOrders = 3
    MaxBudget = 4
INVARIANTS
    StoreTypeOK
    HostBoardExact
    BoxCountInStep
    BudgetSentOrStarting
PROPERTIES
    OrdersCatchUp
    AwaitedOrderComes
CHECK_DEADLOCK FALSE
