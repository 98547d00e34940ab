CONSTANTS
    Processes = {p1, p2}
    Models = {m1}
    Blocklist = {}
    Alternates = {m1}
    Window = 1
    Threshold = 2
    MaxKept = 2
    NoFile = NoFile
    Torn = Torn
    Legacy = Legacy
SPECIFICATION FairSpec
INVARIANTS TypeOK SkippedForCause
PROPERTIES SecondChance
