SPECIFICATION ExchangeSpec
CONSTANTS
    Window = 5
    Modulo = 15
    Count = 4
    MaxRounds = 3
    ActionClient = {c1, c2}
    None = None
    Order <- MCOrder
    Task = {1, 2, 3, 4}
    Priority = {5, 10, 20, 30}
    QUEUE_CAPACITY = 2
INVARIANTS
    NothingForgotten
    AckedDelivered
    GivesUpOnlyOnLoss
    ResultMatches
    StatusOrder
    CoherentRefresh
    LittleAfterCrash
PROPERTIES
    GoalEnds
