SPECIFICATION SafeSpec
CONSTANTS
    Self <- Me
    Answers = {}
    p1 = p1
    p2 = p2
    Peers = {p1, p2}
    PeerLists <- BothPeers
    Offers <- Reliable
    Workers = {w1, w2}
    totalChunks = 2
    SharedChunks = {}
    MetadataKnown = TRUE
    TrackerFaults = {}
    StorageFaults = FALSE
    MaxLeaks = 0
    MaxCrashes = 1
    MaxReruns = 0
INVARIANT VerifiedMeansIntact
