SPECIFICATION PlaySpec
CONSTANTS
    Agent = Agent
    Environment = Environment
    nullptr = nullptr
    States <- MCStates
    Inputs <- MCBits
    Outputs <- MCBits
    SolveEqn <- MCSolveEqn
    Problems <- MCProblems
INVARIANTS
    TypeOK
    PlayStaysWinning
PROPERTIES
    ImplementsContract
    FixpointsAreMonotone
CHECK_DEADLOCK FALSE
