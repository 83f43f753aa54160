SPECIFICATION DfaSpec
CONSTANTS
    nullptr = nullptr
    Names <- MCNames
    StateName <- MCStateName
    NameLists = {}
    MaxLetters = 0
    MaxVariables = 4
    MaxAutomata = 3
    MaxBases = 2
    Alphabetical <- MCAlphabetical
    FormulaDfas <- MCFormulaDfas
INVARIANTS
    DfaTypeOK
    AcceptsItsLanguage
PROPERTIES
    SinksAreNotLeft
CHECK_DEADLOCK FALSE
