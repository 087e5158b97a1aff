SPECIFICATION Spec
CONSTANTS
    Absent = Absent
    p1 = p1
    p2 = p2
    f1 = f1
    f2 = f2
    Peers = {p1, p2}
    Files = {f1, f2}
    TTL = 2
    Regimes <- AllRegimes
INVARIANTS
    FindableWhenPunctual
    ListedPeersHaveFile
    StoresAgree
    PostgresKnowsLivePeers
PROPERTY StoppedPeerForgotten
