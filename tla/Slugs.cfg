SPECIFICATION Spec
CONSTANTS
    Shells = {"first", "second"}
    benchmark_name <- MCNames
    starting_player <- MCPlayers
    MaxRuns = 2
    MaxFaults = 1
INVARIANTS
    TypeOK
    AnswersAreRight
    RealizableIsRight
CHECK_DEADLOCK FALSE
