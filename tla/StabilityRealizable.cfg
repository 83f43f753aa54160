SPECIFICATION Spec
CONSTANTS
    Agent = Agent
    Environment = Environment
    nullptr = nullptr
    States <- MCStates
    Inputs <- MCBits
    Outputs <- MCBits
    SolveEqn <- MCSolveEqn
    Problems <- LargeProblems
INVARIANT RealizableIsRight
CHECK_DEADLOCK FALSE
