\* A scan cannot be started while the lock is held.
SPECIFICATION FairSpec
CONSTANTS
    Callers = {a1}
    StopTasks = {k1}
    Creds = {c1}
    Modes = {"sec1_pop"}
    Api = {"init", "start", "stop", "scan"}
    MayFail = {"scan"}
    Races = {}
    MaxQueue = 1
PROPERTIES StopReturns
CHECK_DEADLOCK FALSE
