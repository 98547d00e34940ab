SPECIFICATION FairSpec
CONSTANTS
    Models = {"a", "b"}
    Slots = {"s"}
    MaxScans = 2
    Catalogue <- MCCatalogue
    Namesakes <- MCNamesakes
    MaxEntries = 3
INVARIANTS ShownSinceMount ShownIsAddressed
PROPERTIES PagesSettle OnlyJumpsMislead
