SPECIFICATION FairSpec
CONSTANTS
    both = both
    cost = cost
    anonymous = anonymous
    Workers = {w1, w2}
    Events = {both, cost, anonymous}
    Keyed = {both, cost}
    Costed = {both, cost, anonymous}
    Metered = {both}
    RowsScanned = 2
    MaxRedeliveries = 1
    MaxInterruptions = 2
    Nobody = Nobody
INVARIANTS
    TypeOK
    NoDoubleCount
    ReturnedIsAccounted
    LossBounded
PROPERTIES
    CountsOnce
    EveryCallbackReturns
CHECK_DEADLOCK FALSE
