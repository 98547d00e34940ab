SPECIFICATION FileSpec
CONSTANTS
    Writers <- MCWriters
    Values = {"v1", "v2"}
    Nothing = "nothing"
    Empty = "empty"
    Mixed = "mixed"
    TmpOf <- OwnNames
    Syncs = TRUE
    PowerFails = TRUE
INVARIANTS WholeOrNothing
PROPERTIES WritesAreAtomic
