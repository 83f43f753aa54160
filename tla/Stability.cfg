SPECIFICATION Spec
CONSTANTS
    Agent = Agent
    Environment = Environment
    nullptr = nullptr
    States <- MCStates
    Inputs <- MCBits
    Outputs <- MCBits
    SolveEqn <- MCSolveEqn
    Problems <- LargeProblems
INVARIANTS
    TypeOK
    UnrealizableIsRight
PROPERTY
    Terminates
CHECK_DEADLOCK FALSE
