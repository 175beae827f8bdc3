SPECIFICATION Spec
CONSTANTS
    Players = {h, c}
    Host = h
    Items = {i1, i2}
    Tables = {t}
    Colors = {red}
    Shapes = {ball}
    Silver = silver
    NoItem = NoItem
    NoTable = NoTable
    StartingBudget = 2
    OrderReward = 2
    ConstructCost = 1
    Boards = {}
    MaxOrders = 3
    MaxBudget = 6
    MaxCalls = 1
    MaxDelivers = 1
INVARIANT
    PickupRequestsOrder
CHECK_DEADLOCK FALSE
SYMMETRY ItemSymmetry
