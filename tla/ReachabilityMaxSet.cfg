SPECIFICATION MaxSetSpec
CONSTANTS
    Agent = Agent
    Environment = Environment
    nullptr = nullptr
    States <- MCStates
    Inputs <- MCBits
    Outputs <- MCBits
    SolveEqn <- MCSolveEqn
    Problems <- MCProblems
INVARIANTS
    DeferringStaysWinning
    PermissiveWithinWinningStates
PROPERTY NondeferringReaches
CHECK_DEADLOCK FALSE
