SPECIFICATION GR1Spec
CONSTANTS
    nullptr = nullptr
    Names <- MCNames
    StateName <- MCStateName
    NameLists = {}
    MaxLetters = 0
    MaxVariables = 6
    MaxAutomata = 5
    MaxBases = 3
    Alphabetical <- MCAlphabetical
    FormulaDfas <- MCGR1Dfas
    CreationOrder <- RunnerOrder
INVARIANTS
    PrintedArenaFollowsAutomata
CHECK_DEADLOCK FALSE
