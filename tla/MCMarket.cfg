SPECIFICATION Spec
CONSTANTS
    Markets = {1, 2, 3}
    TopValue = 2
    Unit = 4
    None = None
    Sessions = {s1, s2, s3}
    Content <- Documents
    Workloads <- Situations
    Requests <- Asked
    Busy <- Crowd
INVARIANTS TypeOK RanksAreStanding UnknownIsNotZero EvidenceRaisesConfidence GapsExplainCoverage ReproducesPublished
PROPERTIES DecidedGapsStay
CHECK_DEADLOCK FALSE
