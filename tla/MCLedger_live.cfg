SPECIFICATION FairSpec
CONSTANTS
    Keys = {k1}
    Sources = {s1}
    PursuedFor <- MCPursuedFor
    Readings <- DoubtfulReadings
    Attempts = {a1, a2}
    Reviewers = {h1}
    Rebuilders = {b1}
    None = None
INVARIANTS ProfileAgreesWithLedger
PROPERTIES EveryTransactionEnds
CHECK_DEADLOCK FALSE
