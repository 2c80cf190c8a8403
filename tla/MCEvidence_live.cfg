SPECIFICATION FairSpec
CONSTANTS
    None = None
    Nothing = Nothing
    Attempts <- Both
    Company <- TwoCompanies
    Plan <- Opposite
    Conditional <- SecondAsks
    Budget <- Requests
    Extractors <- Readers
    Sources = {1, 2, 3, 4, 5}
    Website <- Sites
    Document <- Silent
    Publisher <- PublisherOf
    Tier <- TierOf
    Domain <- Domains
    Tagged = {1, 3}
    Declared <- Types
    BodyHorizon <- Horizons
    TextHorizon = 1
    PruneDates = {3}
    MaxChanges = 1
    MaxVersions = 2
PROPERTY EveryAttemptEnds
CHECK_DEADLOCK FALSE
