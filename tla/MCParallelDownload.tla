------------------------- MODULE MCParallelDownload -------------------------
(* Instances of ParallelDownload: what the peers p1 and p2 do when asked;  *)
(* in one of them the list of peers comes from answers of the tracker.     *)
EXTENDS TrackedDownload, TLC

CONSTANTS p1, p2

BothPeers == {<<p1, p2>>}
SomePeers == {<<>>, <<p2>>, <<p1, p2>>}

Same(outcomes) == [p \in Peers |-> [c \in Chunks |-> outcomes]]

\* everything may happen at p2; p1 delivers, but its copies may be damaged
Mixed == [Same({"refused", "broken", "good"}) EXCEPT
            ![p1] = [c \in Chunks |-> {"good", "stale"}]]
Reliable == Same({"good"})
\* nobody delivers chunk 0
ZeroMissing == [p \in Peers |->
                  [c \in Chunks |-> IF c = 0 THEN {"refused"} ELSE {"good"}]]

\* One of two servers always fails, in one way or the other; the second delivers.
\* The first is listed under two peerIds, as after a restart; there is also the
\* downloader itself, and an object without a port.
Endpoint(peerId, ip, port) == [peerId |-> peerId, ip |-> ip, port |-> port]
Failing == {Endpoint("old", "host1", 9001), Endpoint("new", "host1", 9001)}
Delivering == Endpoint("peer2", "host2", 9001)
Endpoints == Failing \cup {Delivering}
Failover == [p \in Endpoints |->
               [c \in Chunks |-> IF p \in Failing THEN {"refused", "broken"} ELSE {"good"}]]

Me == "me"
Objects == Endpoints \cup {Endpoint(Me, "host3", 9001), Endpoint("odd", "host4", 0)}
SomeAnswers == {answer \in UNION {[1..n -> Objects] : n \in 1..4} :
                   \E i \in DOMAIN answer : answer[i] = Delivering}

Symmetric == Permutations(Workers)
=============================================================================
