\* A cluster whose members come and go, and gossip between two nodes.
SPECIFICATION PartSpec
CONSTANTS
    MaxNodes = 4
    Timeouts <- MCTimeouts
    Watched = {1}
    MaxTerm = 2
    MaxEntries = 2
    NodeIds = {"x", "y"}
    Latency = 1
    Bandwidth = 0
    Lossy = FALSE
    PacketTtl = 2
    Payloads = {}
    MaxWires = 2
    MaxPackets = 2
    MaxNetTime = 2
    Providers = {"provider"}
    Fanout = 1
    GossipInterval = 1
    Ring <- MCRing
INVARIANTS
    OneLeader
    CommittedOnMajority
    AgeIdentifies
PROPERTIES
    HeartbeatsPreventElections
