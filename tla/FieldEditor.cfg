SPECIFICATION Spec
CONSTANTS
    FieldName = {"new", "next"}
    OptionName = {"a", "c"}
    HierarchyName = {"new"}
    NodeName = {"n", "m"}
    Start <- MCStart
    Patient = TRUE
    GivesUp = TRUE
    Reloads = FALSE
    Careful = TRUE
    MaxRows = 3
    MaxRemoved = 1
    MaxEdits = 3
    MaxSessions = 1
INVARIANTS
    ConditionsFit
    ChoicesRemain
PROPERTIES
    SavedIsShown
CHECK_DEADLOCK FALSE
