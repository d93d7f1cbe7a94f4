\* Scans in groups and at once, read while they run, failing or stopped.
SPECIFICATION FairSpec
CONSTANTS
    Pages = {p1}
    Channels = 4
    Groups = {0, 1, 2}
    Rssi <- MCRssi
    MaxFound = 2
    MaxResults = 3
    MayFail = {"results", "restart"}
    Races = {}
INVARIANTS SortedList ChannelOrder BeaconsSent ToldTrue CopyAlive
PROPERTIES Merged ScanEnds
CHECK_DEADLOCK FALSE
