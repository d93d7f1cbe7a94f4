\* The network is lost while the session that found it is still open.
SPECIFICATION Spec
CONSTANTS
    Creds = {home}
    Good = {home}
    NoCred = NoCred
    MaxBoots = 0
    MaxEvents = 2
    MayFail = {}
    Races = {}
INVARIANT StartedOnce
CHECK_DEADLOCK FALSE
