SPECIFICATION FairSpec
CONSTANTS
    Resolvers = {r1, r2}
    Reviewers = {}
    Rebuilders = {}
    Entities = {e1, e2}
    KnownCompanies = {}
    None = None
    Untouched = Untouched
    Versions <- MCVersions
    EntityOf <- MCEntityOf
    VersionCount = 3
PROPERTIES EveryTransactionEnds
CHECK_DEADLOCK FALSE
