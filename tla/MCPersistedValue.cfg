SPECIFICATION Spec
CONSTANTS
    NumberKeys = {n}
    StringKeys = {s}
    Values = {empty, v}
    Empty = empty
    None = none
    MaxReboots = 2
INVARIANTS
    TypeOK
    HandleOpenUntilDestruction
    SavedSurvives
    RestoresSaved
    NumbersWrittenWhenNew
