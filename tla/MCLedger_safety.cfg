SPECIFICATION Spec
CONSTANTS
    Keys = {k1}
    Sources = {s1, s2}
    PursuedFor <- MCPursuedFor
    Readings <- KnownReadings
    Attempts = {a1, a2}
    Reviewers = {h1, h2}
    Rebuilders = {}
    None = None
SYMMETRY Alike
INVARIANTS TypeOK GapEndsOnce OneOperativeReview MissingIsNotHeld
CHECK_DEADLOCK FALSE
