SPECIFICATION FairSpec
CONSTANTS
    Runs = {q1}
    DefaultOf <- OwnDefault
    Raising = {}
    Callers = {c1}
    Workers = {w1, w2}
    JobIds <- MCJobIds
    JobCount = 2
    MaxJobs = 1
    MaxAttempts = 2
    MaxCrashes = 1
    AskedBefore = {q1}
    QueuedBefore <- BothQueued
    Nothing = Nothing
PROPERTIES EveryJobSettles
CHECK_DEADLOCK FALSE
