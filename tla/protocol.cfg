SPECIFICATION FairSpec
CONSTANTS
    Thrown = Thrown
    Outside = Outside
    Nothing = Nothing
    Calls <- MCCalls
    Creatures <- MCCreatures
    Corpses <- MCCorpses
    SoilOrders <- MCSoilOrders
    Territory <- MCTerritory
    Held = {0, 1}
    Capacity = 180
    ChunkSizes = {48}
    ResponseMax = 2
    MaxSent = 2
    MaxConnects = 2
INVARIANTS ServedInOrder AnswersIntact StaleOnlyAfter SeesTheEntity BlueprintArrives
PROPERTY Answered
CHECK_DEADLOCK FALSE
