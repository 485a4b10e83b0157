CONSTANTS
    Values = {0, 1}
    MaxBBs = 2
    MaxStores = 2
    TranslatedFunctions <- MCTranslatedFunctions
SPECIFICATION Spec
CHECK_DEADLOCK FALSE
INVARIANTS
    LoopsComputeHarvest
