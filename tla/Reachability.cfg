SPECIFICATION PlaySpec
CONSTANTS
    Agent = Agent
    Environment = Environment
    nullptr = nullptr
    States <- MCStates
    Inputs <- MCBits
    Outputs <- MCBits
    SolveEqn <- MCSolveEqn
    Problems <- MCProblems
INVARIANTS
    TypeOK
    WinningStatesHaveMoves
    WinningMovesProgress
    TransducerIsCausal
    PlayStaysWinning
PROPERTIES
    CollectedStatesKeepTheirMoves
    ImplementsContract
    TransducerWins
CHECK_DEADLOCK FALSE
