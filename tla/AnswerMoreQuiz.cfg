SPECIFICATION Spec
CONSTANTS
    f1 = f1
    f2 = f2
    f3 = f3
    v1 = v1
    v2 = v2
    b1 = b1
    b2 = b2
    Null = Null
    NoRow = NoRow
    NoField = NoField
    Field <- MCField
    Value <- MCValue
    Benefit <- MCBenefit
    Tab = {t1}
    Catalogs <- OneLevelCatalogs
    Failures = FALSE
INVARIANTS
    NoDeadEnd
    HiddenStayUnanswered
PROPERTIES
    SavedAnswersKept
