SPECIFICATION Spec
CONSTANTS
    FieldName = {"new"}
    OptionName = {"c"}
    HierarchyName = {"new"}
    NodeName = {"n"}
    Start <- MCStart
    Patient = TRUE
    GivesUp = TRUE
    Reloads = TRUE
    Careful = TRUE
    MaxRows = 2
    MaxRemoved = 0
    MaxEdits = 1
    MaxSessions = 1
INVARIANTS
    EditableAgain
CHECK_DEADLOCK FALSE
