SPECIFICATION Spec
CONSTANTS
    hermes = hermes
    kiro = kiro
    batch = batch
    S = S
    C = C
    None = None
    Procs = {p1, p2}
    Sessions = {hermes, kiro}
    Providers = {v1}
    Tiers = {S, C}
    Limit <- MCLimit
    Priority <- MCPriority
    Threshold = 40
INVARIANTS
    TypeOK
    InFlightBound
    PausedHoldsNothing
