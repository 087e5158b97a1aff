SPECIFICATION Spec
CONSTANTS
    None = None
    Requesters = {r1, r2}
    Probes = {p1}
    Threads = 2
    Fds = {3, 4, 5, 6}
    Backlog = 2
INVARIANTS
    ConnectionsKept
    NoDescriptorLeak
    ReturnsDrained
PROPERTY ServerProgresses
