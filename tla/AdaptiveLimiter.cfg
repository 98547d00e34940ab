\* Half-rpm units: minimum 1 rpm, start 6 rpm, at most 12 rpm, true limit 4.5 rpm.
SPECIFICATION FairLimiterSpec
CONSTANTS
    MinRate = 2
    MaxRate = 24
    StartRate = 12
    Step = 2
    TrueLimit = 9
    MaxOverloads = 1
    MaxRestarts = 1
INVARIANTS
    LimiterTypeOK
    NeverAboveRefused
PROPERTIES
    SuccessNeverSlows
    Settles
