SPECIFICATION Spec
CONSTANTS
    nullptr = nullptr
    Names <- MCNames
    StateName <- MCStateName
    NameLists <- MCNameLists
    MaxLetters = 2
    MaxVariables = 3
    MaxAutomata = 3
INVARIANTS
    TypeOK
    Dictionary
    SlotForEachVariable
    ComposesOnlyItsOwnVariables
    ExactPartitionIsAccepted
PROPERTIES
    NamesAreStable
CHECK_DEADLOCK FALSE
