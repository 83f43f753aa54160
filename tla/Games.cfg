SPECIFICATION GamesSpec
CONSTANTS
    nullptr = nullptr
    Names <- MCLetterNames
    StateName <- MCStateName
    NameLists = {}
    MaxLetters = 0
    MaxVariables = 6
    MaxAutomata = 5
    MaxBases = 3
    Alphabetical <- MCAlphabetical
    FormulaDfas <- MCGR1Dfas
    CreationOrder <- RunnerOrder
    Formulas <- MCFormulas
    Height <- MCHeight
    Specifications <- MCSpecifications
    FirstStateVariable = 2
    MaxLetterCount = 1
    MaxTurns = 4
INVARIANTS
    AnswersAreThoseOfTheFormula
    PlaysSatisfyTheFormula
    PrintedStepsAreThoseOfTheAutomata
    SafeStatesAreTheReduction
CHECK_DEADLOCK FALSE
