SPECIFICATION Spec
CONSTANTS
    Half = 4
    MaxDepth = 2
    Threshold = 1
    Creatures = {c1}
    Corpses = {m1}
    Embryos = {e1}
    Eggs = {g1}
    Positions <- MCPositions
    Sizes = {2, 4}
    Vision = 4
    MaxMeat = 2
    NoEntity = NoEntity
INVARIANTS NoneMeansAbsent
CHECK_DEADLOCK FALSE
