\* One window: its reloads, scans and credentials, failures of memory and network.
SPECIFICATION Spec
CONSTANTS
    Pages = {p1}
    Nobody = Nobody
    UserOps = {"load_again", "rescan", "apply", "back"}
    MinFound = 1
    MaxFound = 2
    Batch = 1
    MaxSent = 2
    MayFail = {"memory", "network"}
    Races = {}
INVARIANTS TypeOK AnswerFrees
PROPERTIES ShownAll EndEarned
CHECK_DEADLOCK FALSE
