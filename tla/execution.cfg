SPECIFICATION FairSpec
CONSTANTS
    Kinds = {"fork", "heroku", "imminent", "thread"}
    Budget <- MCBudget
    Failures = 1
    Losts = 1
    Kills = 1
    Stops = 1
    Sigrtmins = 2
    Races = 1
CHECK_DEADLOCK FALSE
INVARIANTS TypeOK TimeoutsStayInside OneVerdict Judged
PROPERTIES ExecutionEnds
