\* A peer is removed and the node restarts.
CONSTANTS
    PeerIDs = {"p", "q"}
    Groups = {"g"}
    Levels = {1, 3}
    Trusted = 3
    TrustedPeers = {"q"}
    Editors = {"w"}
    Objects = {"o1", "o2", "o3"}
    Absent = Absent
    MaxRegistryFaults = 1
SPECIFICATION PeersSpec
INVARIANT RemovedStaysRemoved
CHECK_DEADLOCK FALSE
