SPECIFICATION Spec
CONSTANTS
    amount = amount
    member = member
    Option <- MCOption
    Code <- MCCode
    Texts <- MCTexts
    Lengths = {1, 2, 3, 4}
    One = 2
    Numbers = {1, 2, 26}
    Days = {364, 365, 730, 731}
    Today = 730
    Noon = 12
    MaxValueLength = 3
    Column <- MCColumn
    ColumnType <- MCColumnType
    RowSet <- MCRowSet
    MaxLeaves = 2
    MaxLimits = 3
    Types = {"TEXT", "NUMBER", "DURATION", "DATE", "BOOLEAN", "SINGLE_SELECT", "MULTI_SELECT", "HIERARCHY_SELECT", "REPEATER_GROUP"}
INVARIANTS
    SavedEvaluates
    FilledRangesEvaluate
    OppositesDiffer
    WithinPlaces
    LimitsCanBeMet
CHECK_DEADLOCK FALSE
