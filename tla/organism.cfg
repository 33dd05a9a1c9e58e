SPECIFICATION Spec
CONSTANTS
    MaxIds = 3
    Soils <- MCSoils
    Half = 300
    Places = {0, 300}
    Blueprints <- MCBlueprints
    Hungers = {0, 90}
    Counts = {0, 2}
    MaxTicks <- MCMaxTicks
    NoEntity = NoEntity
INVARIANTS WithinLimits EmbryoStarves ViewsNarrow
PROPERTIES NoEnergyFromNothing PregnancyNeverEnds CutShortOnlyBlind
CHECK_DEADLOCK FALSE
