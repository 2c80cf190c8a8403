SPECIFICATION Spec
CONSTANTS
    Runs = {q1, q2, q3}
    DefaultOf <- OwnDefault
    Raising = {q3}
    Callers = {c1}
    Workers = {w1, w2}
    JobIds <- MCJobIds
    JobCount = 4
    MaxJobs = 2
    MaxAttempts = 2
    MaxCrashes = 1
    AskedBefore = {q1, q2, q3}
    QueuedBefore <- Crosswise
    Nothing = Nothing
SYMMETRY Alike
INVARIANTS TypeOK AttemptsAreNumbered ParkedAtTheLimit OneExecutionPerJob
CHECK_DEADLOCK FALSE
