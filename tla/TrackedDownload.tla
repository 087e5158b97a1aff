-------------------------- MODULE TrackedDownload --------------------------
(* A parallel download whose peers come from answers of the tracker.       *)
EXTENDS ParallelDownload, PeerList

CONSTANTS
    Self,       \* the downloader's peerId
    Answers     \* what the tracker may answer: sequences of objects

ASSUME AnswersAssumption ==
    \A answer \in Answers :
        /\ answer \in Seq(ToSet(answer))
        /\ \A o \in ToSet(answer) : o.port \in Int

\* fetchAndFilterPeers: the download takes the peers that filterUsablePeers leaves
\* of some answer
Fetched == {FilterUsablePeers(Self, Listed(answer)) : answer \in Answers}

TrackedInit == Init /\ PeerLists = Fetched
SafeTrackedSpec == TrackedInit /\ [][Next]_vars
TrackedSpec == SafeTrackedSpec /\ Fairness

\* Whatever the tracker lists, in whatever order and how often, the peers that the
\* workers ask, from the first chunk to the last retry, are servers that other
\* peers run, each once and in the tracker's order; never the downloader itself.
\* (peer.cpp:757 takes an empty list for "nobody has the file".)
UsablePeersAreServers ==
    usablePeers # <<>> =>
        \E answer \in Answers : IsUsableList(usablePeers, Self, answer)
=============================================================================
