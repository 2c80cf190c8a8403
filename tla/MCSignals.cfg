SPECIFICATION Spec
CONSTANTS
    register = register
    directory = directory
    parent = parent
    Concerns = {parent}
    Sources = {register, directory}
    Filings <- MCFilings
    Attempts = {a1, a2}
    Reviewers = {h1, h2}
    Earlier = Earlier
    Horizon = 1
    Unchosen = Unchosen
INVARIANTS TypeOK EpisodesFollow FindingIsQueued NoAttemptIsLost
CHECK_DEADLOCK FALSE
