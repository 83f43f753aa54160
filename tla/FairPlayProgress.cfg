SPECIFICATION PlaySpec
CONSTANTS
    Agent = Agent
    Environment = Environment
    nullptr = nullptr
    States <- MCStates
    Inputs <- MCBits
    Outputs <- MCBits
    SolveEqn <- MCSolveEqn
    Problems <- LargeProblems
PROPERTY TransducerWinsFairPlays
CHECK_DEADLOCK FALSE
