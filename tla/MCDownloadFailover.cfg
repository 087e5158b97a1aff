SPECIFICATION TrackedSpec
CONSTANTS
    Self <- Me
    Answers <- SomeAnswers
    p1 = p1
    p2 = p2
    Peers <- Endpoints
    PeerLists <- Fetched
    Offers <- Failover
    Workers = {w1, w2}
    totalChunks = 3
    SharedChunks = {}
    MetadataKnown = TRUE
    TrackerFaults = {}
    StorageFaults = FALSE
    MaxLeaks = 0
    MaxCrashes = 0
    MaxReruns = 0
INVARIANTS
    UsablePeersAreServers
    LoadExact
    IntactUnlessCrashed
PROPERTY
    DownloadSucceeds
