\* One task, a client that applies credentials and polls, both timers; the driver
\* may refuse a configuration.
SPECIFICATION Spec
CONSTANTS
    Callers = {a1}
    StopTasks = {k1}
    Creds = {c1}
    Modes = {"sec1_pop"}
    Api = {"init", "start", "stop", "apply", "reset", "status"}
    MayFail = {"config", "wifi"}
    Races = {"event_during_stop"}
    MaxQueue = 1
SYMMETRY Symmetry
INVARIANTS TypeOK NoFault 
PROPERTIES FlashKept
CHECK_DEADLOCK FALSE
