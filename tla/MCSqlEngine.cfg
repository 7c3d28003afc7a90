SPECIFICATION EngineSpec
CONSTANTS
    u = u
    v = v
    Null = Null
    Absent = Absent
    MaxSteps = 12
    Databases <- SmallDatabases
    Contexts <- SmallContexts
    Domain <- SmallDomain
    Conflicts <- SmallConflicts
    MaxRow = 4
    MaxStatements = 3
    MaxDepth = 2
    Names <- SmallNames
    Questions <- SmallQuestions
    MaxNesting = 3
    MaxText = 4
    AcceptsShadowing = FALSE
    Gets <- SmallGets
    Unlimited = Unlimited
CHECK_DEADLOCK FALSE
INVARIANTS
    Sound
    CascadesMendReferences
    NamesKeepTheirScope
    PagesCoverTheAnswer
    AnswersIgnoreHiddenRows
PROPERTIES
    OthersRowsAreUntouched
