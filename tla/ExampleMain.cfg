\* Restarts, a network that comes and goes, right and wrong credentials.
SPECIFICATION FairSpec
CONSTANTS
    Creds = {home, wrong}
    Good = {home}
    NoCred = NoCred
    MaxBoots = 3
    MaxEvents = 3
    MayFail = {"start"}
    Races = {}
INVARIANT LossHeard
PROPERTIES FallbackEarned Reachable
CHECK_DEADLOCK FALSE
