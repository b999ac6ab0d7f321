SPECIFICATION Spec
CONSTANTS
    p1 = p1
    p2 = p2
    string = string
    interval = interval
    Processes = {p1, p2}
    Names = {p1, p2}
    Name <- MCName
    CronJobs = {string, interval}
    Strings = {string}
    Every <- MCEvery
    MaxSleep = 2
    BirthTTL = 2
    HeartbeatTTL = 4
    Threshold = 4
    MaxTime = 8
    Delays = 1
    Slow = 0
    Kills = 1
    Stops = 1
CHECK_DEADLOCK FALSE
INVARIANTS TypeOK NoTimeTwice NoTimeMissed RunningIsListed
