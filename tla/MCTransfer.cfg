SPECIFICATION Spec
CONSTANTS
    a = a
    b = b
    Junk = Junk
    Absent = Absent
    Chunk <- TheChunk
    OtherFile <- Other
    Stored <- AnyFile
    Requests <- SomeRequests
    kMaxChunkId = 100
    kMaxChunkSize = 2
    Capacity = 3
    MaxFetches = 1
    StorageFaults = TRUE
INVARIANTS
    AcceptedWasServed
    AcceptedWasAsked
PROPERTIES
    RequestReturns
    HandlerEnds
    ImplementsChunkRequest
