\* The captive portal cannot be started, and the application tries again.
SPECIFICATION Spec
CONSTANTS
    Callers = {a1}
    MayFail = {"portal"}
    Races = {}
INVARIANT Restartable
CHECK_DEADLOCK FALSE
