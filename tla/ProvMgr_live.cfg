\* One task stops and de-initialises, a client scans: stops end, calls return.
SPECIFICATION FairSpec
CONSTANTS
    Callers = {a1}
    StopTasks = {k1}
    Creds = {c1}
    Modes = {"sec1_pop"}
    Api = {"init", "start", "stop", "deinit", "scan_blocking"}
    MayFail = {}
    Races = {}
    MaxQueue = 1
PROPERTIES StopEnds StopReturns ScanReturns
