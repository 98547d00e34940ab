SPECIFICATION Spec
CONSTANTS
    Full = 20
    Headroom = 5
    Unit = 10000
    Providers <- MCProviders
    Windows <- MCWindows
    Listings <- MCListings
    Ranks <- MCRanks
    Requests <- MCRequests
    Resolved <- MCResolved
    Metered = {"a", "b"}
    Paced = {"b"}
    Reported = {"b"}
    Fractions = {0, 5}
    SpendStep = 16
    TimeStep = 20
    EndOfTime = 40
INVARIANTS TypeOK ExhaustedIsSkipped CheapestAdequate RedirectServesEveryEffort
PROPERTIES MoreCapacityNeverDemotes IgnoranceIsNoAdvantage IrrelevantChangesNothing
