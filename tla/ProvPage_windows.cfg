\* Two windows at one device: what one does while the other waits.
SPECIFICATION FairSpec
CONSTANTS
    Pages = {p1, p2}
    Nobody = Nobody
    UserOps = {"rescan", "apply"}
    MinFound = 1
    MaxFound = 1
    Batch = 1
    MaxSent = 2
    MayFail = {}
    Races = {}
INVARIANT RightHandler
PROPERTIES VerdictShown
CHECK_DEADLOCK FALSE
