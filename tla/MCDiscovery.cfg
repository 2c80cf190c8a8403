CONSTANTS
    r1 = r1
    r2 = r2
    b1 = b1
    b2 = b2
    None = None
    Runs = {r1, r2}
    Rebuilds = {b1, b2}
    Companies = {1, 2, 3}
    BatchIds = {1, 2, 3, 4}
    PageSize = 2
    MaxReviews = 1
    Blocked = {"host.com"}
    Providers <- MCProviders
    Contents <- MCContents
    Situations <- MCSituations
    Party <- MCParty
    Asked <- MCAsked
    Reads <- MCReads
SPECIFICATION Spec
INVARIANTS TypeOK EvidenceIsWhole NothingIsStranded LoneRefusalIsExplained
PROPERTIES AttributionIsCurrent
CHECK_DEADLOCK FALSE
