------------------------------ MODULE PeerList ------------------------------
(***************************************************************************)
(* From the tracker's answer to the peers a download asks: the objects     *)
(* requestPeersForFileService takes over, and filterUsablePeers (both in   *)
(* src/src/peer/peer.cpp).  An object has a peerId, an ip and a port, and  *)
(* a field that is missing reads as empty or 0.                            *)
(***************************************************************************)
EXTENDS Integers, Sequences, SequencesExt

\* one object after the other: what of the answer becomes an endpoint
Listed(objects) ==
    LET Complete(o) == o.peerId # "" /\ o.ip # "" /\ o.port > 0
        Take(listed, o) == IF Complete(o) THEN Append(listed, o) ELSE listed
    IN  FoldLeft(Take, <<>>, objects)

Address(peer) == <<peer.ip, peer.port>>

\* Definitions whose name starts with Bad are not the code: each is a plausible
\* slip in the definition that follows it, which some property has to notice.

\* a server is known by its peerId
BadFilterUsablePeers(self, peers) ==
    LET Keep(usable, peer) ==
            IF peer.peerId = self \/ peer.peerId \in {u.peerId : u \in ToSet(usable)}
            THEN usable ELSE Append(usable, peer)
    IN  FoldLeft(Keep, <<>>, peers)

\* one endpoint after the other: not the downloader itself, and no address twice
FilterUsablePeers(self, peers) ==
    LET Skip(usable, peer) ==
            \/ peer.peerId = self
            \/ peer.ip = "" \/ peer.port <= 0
            \/ Address(peer) \in {Address(u) : u \in ToSet(usable)}
        Keep(usable, peer) == IF Skip(usable, peer) THEN usable ELSE Append(usable, peer)
    IN  FoldLeft(Keep, <<>>, peers)

\* What the list should be: each server that another peer runs, once, in the
\* tracker's order, which is that of their load.
IsUsableList(list, self, objects) ==
    LET Server(i) == /\ objects[i].peerId \notin {"", self}
                     /\ objects[i].ip # "" /\ objects[i].port > 0
        first == {i \in DOMAIN objects :
                    /\ Server(i)
                    /\ \A j \in 1..(i - 1) :
                          Server(j) => Address(objects[j]) # Address(objects[i])}
        Rank(i) == Cardinality({j \in first : j <= i})
    IN  /\ Len(list) = Cardinality(first)
        /\ \A i \in first : list[Rank(i)] = objects[i]
=============================================================================
