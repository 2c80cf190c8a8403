SPECIFICATION Spec
CONSTANTS
    None = None
    Nothing = Nothing
    Attempts <- Run
    Company <- CompanyOf
    Plan <- WholeSite
    Conditional <- SecondAsks
    Budget <- Requests
    Extractors <- Readers
    Sources = {1, 2, 3, 4, 5}
    Website <- Sites
    Document <- Documents
    Publisher <- PublisherOf
    Tier <- TierOf
    Domain <- Domains
    Tagged = {1, 3}
    Declared <- Types
    BodyHorizon <- Horizons
    TextHorizon = 1
    PruneDates = {3}
    MaxChanges = 0
    MaxVersions = 2
INVARIANT NothingIsReadFromNothing
CHECK_DEADLOCK FALSE
