SPECIFICATION ParserSpec
CONSTANTS
    nullptr = nullptr
    Names <- MCNames
    StateName <- MCStateName
    NameLists = {}
    MaxLetters = 0
    MaxVariables = 6
    MaxAutomata = 3
    Formulas <- MCFormulas
    Height <- MCHeight
    CommandLines <- MCCommandLines
    Horizon = 3
INVARIANTS
    EarlyAnswersAreRight
    EarlyMoveWins
    DeclaredSpecificationsAreAnswered
    SolversSeeAllLetters
    ConditionsMeanWhatFilesSay
    LettersAreThoseOfTheFile
CHECK_DEADLOCK FALSE
