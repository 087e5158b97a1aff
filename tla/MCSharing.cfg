SPECIFICATION Spec
CONSTANTS
    a = a
    b = b
    c = c
    Absent = Absent
    Versions <- SomeVersions
    chunkSize = 2
    MaxEdits = 1
    MaxFaults = 2
INVARIANTS
    CountedChunksAreComplete
    TrueMeansWhole
PROPERTY DownloadRecovers
