SPECIFICATION SafeSpec
CONSTANTS
    Self <- Me
    Answers = {}
    p1 = p1
    p2 = p2
    Peers = {p1, p2}
    PeerLists <- SomePeers
    Offers <- Mixed
    Workers = {w1, w2}
    totalChunks = 2
    SharedChunks = {}
    MetadataKnown = TRUE
    TrackerFaults = {"reserve", "reserveReply", "release"}
    StorageFaults = TRUE
    MaxLeaks = 2
    MaxCrashes = 1
    MaxReruns = 1
SYMMETRY Symmetric
INVARIANTS
    ClaimsAreExclusive
    WaitImpliesAllDone
    StatusAgrees
    PersistedDoneHasFile
    OneStateFileWriter
    SuccessMeansIntact
    TransfersAreCounted
PROPERTIES
    DoneChunkStable
    RequestsAsSpecified
