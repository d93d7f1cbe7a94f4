\* Two tasks start, stop, wait for, reset and de-initialise, with and without
\* security, while a client scans; starts and scans may fail.
SPECIFICATION Spec
CONSTANTS
    Callers = {a1, a2}
    StopTasks = {k1, k2}
    Creds = {c1}
    Modes = {"sec0", "sec1_pop"}
    Api = {"init", "start", "stop", "deinit", "wait", "no_auto_stop", "endpoint_register", "reset", "scan_blocking"}
    MayFail = {"service", "pop", "timer", "scan", "init"}
    Races = {"event_during_stop", "reset_when_down"}
    MaxQueue = 1
SYMMETRY Symmetry
INVARIANTS StartExclusive StopExclusive ServiceWhole NothingLeft EventInSession
PROPERTIES SessionKept
CHECK_DEADLOCK FALSE
