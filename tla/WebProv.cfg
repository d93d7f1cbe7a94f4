\* Two application tasks, a page, timers, the stop task and the event loop.
SPECIFICATION FairSpec
CONSTANTS
    Callers = {a1, a2}
    MayFail = {"register", "start", "endpoint", "portal", "dns_task", "timers"}
    Races = {}
INVARIANTS Whole NothingLeft NoFault EndMeetsIdle
PROPERTIES PortalFirst ShutdownEnds StopDeinits
\* A start whose event handler is refused is the last one there can be.
CHECK_DEADLOCK FALSE
