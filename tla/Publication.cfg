SPECIFICATION FairSpec
CONSTANTS
    Grids = {"S", "R"}
    MaxAge = 1
    EndOfTime = 3
INVARIANTS TypeOK ServedDataFresh
PROPERTIES OverridesVouched SomethingFreshIsServed
