---------------------------- MODULE ChunkRequest ----------------------------
(* What a request for a chunk does to the file of that chunk, as seen by its *)
(* caller: requestChunkFromPeer of src/src/peer/peer.cpp.  The requests of   *)
(* ParallelDownload are shown to be of this kind, whatever is going on       *)
(* beside them; so is what ChunkTransfer does, byte by byte.                 *)

VARIABLES
    phase,      \* "asking" before the chunk file is opened, "receiving", "over"
    file,       \* the chunk file: "absent", "empty", "wrong" or "good"
    ok          \* the returned value

requestVars == <<phase, file, ok>>

RequestInit == phase = "asking" /\ file = "absent" /\ ok = FALSE

\* no connection, no usable header, or no file: nothing on disk has changed
Refused ==
    /\ phase = "asking" /\ phase' = "over"
    /\ UNCHANGED <<file, ok>>

OpenChunk ==
    /\ phase = "asking" /\ phase' = "receiving"
    /\ file' = "empty"
    /\ UNCHANGED ok

ReceiveSome ==
    /\ phase = "receiving" /\ file = "empty"
    /\ file' = "wrong"
    /\ UNCHANGED <<phase, ok>>

\* true is returned with a file that is not empty
ReceiveAll ==
    /\ phase = "receiving" /\ phase' = "over"
    /\ file' \in {"good", "wrong"}
    /\ ok' = TRUE

\* false is returned and nothing is left of the file
ReceiveBreaks ==
    /\ phase = "receiving" /\ phase' = "over"
    /\ file' = "absent"
    /\ UNCHANGED ok

RequestNext ==
    Refused \/ OpenChunk \/ ReceiveSome \/ ReceiveAll \/ ReceiveBreaks

RequestSpec == RequestInit /\ [][RequestNext]_requestVars
=============================================================================
