---------------------------- MODULE ChunkTransfer ----------------------------
(***************************************************************************)
(* One chunk over one connection: requestChunkFromPeer with                *)
(* readChunkHeader and receiveChunkData on the client's side, and          *)
(* handlePeerRequest with serveRequestedChunk and sendChunkFileInBuffers   *)
(* on the server's (src/peer/peer.cpp).                                    *)
(*                                                                         *)
(* TCP keeps order and loses nothing, but cuts the bytes anywhere: a recv  *)
(* gets any non-empty part of what has arrived, the line of the header     *)
(* comes in pieces, and block bytes come with its end.  A socket that is   *)
(* closed before all that came was read resets the connection.  The        *)
(* client's recv may time out whenever nothing has arrived; the server's   *)
(* never does.  The messages are those of WireProtocol.                    *)
(* The serving peer may be downloading the same chunk into the file it     *)
(* serves.  File contents are sequences of blocks, and a hash is as good   *)
(* as the content it is of.                                                *)
(***************************************************************************)
EXTENDS WireProtocol

CONSTANTS
    Chunk,              \* the true content of the chunk asked for
    Junk,               \* a block of no chunk
    OtherFile,          \* the file of every other chunk
    Requests,           \* what a client may ask for: fileId and chunkId
    Stored,             \* what the server's file may be at first
    Capacity,           \* bound: pieces in the socket buffers
    MaxFetches,         \* bound: times the server starts to fetch the chunk
    StorageFaults,      \* whether the client's writes may fail
    Absent              \* no file, no header

Block == Range(Chunk) \cup Range(OtherFile) \cup {Junk}
             \cup UNION {Range(content) : content \in Stored \ {Absent}}
Contents == Seq(Block)

ASSUME ContentAssumption ==
    /\ {Chunk, OtherFile} \cup (Stored \ {Absent}) \subseteq Contents
    /\ Absent \notin Contents
    /\ Chunk # <<>> /\ \A i \in 1..Len(Chunk) : Chunk[i] # Junk

ASSUME BoundsAssumption ==
    /\ Capacity \in Nat \ {0} /\ MaxFetches \in Nat
    /\ StorageFaults \in BOOLEAN

\* a fileId is a sequence of words, a chunkId an int
ASSUME RequestsAssumption ==
    \A r \in Requests : r.fileId \in Seq(Range(r.fileId)) /\ r.chunkId \in 0..MaxInt

VARIABLES
    \* client: arguments, position, header, bytes read with it, chunk file, loop,
    \* result
    asked, cpc, head, payload, output, remaining, ok,
    \* bytes on their way to the server and to the client
    request, wire,
    \* server: position, whether it has read the whole request, chunk it serves,
    \* its locals, rest of a sendAll and the position after it, whether a send
    \* went to a closed connection
    spc, whole, serving, size, hashed, pos, out, after, lost,
    \* the server's file of the chunk; its content if it was removed while open
    source, held, fetches

clientVars == <<asked, cpc, head, payload, output, remaining, ok>>
serverVars == <<spc, whole, serving, size, hashed, pos, out, after, lost>>
fileVars == <<source, held, fetches>>
vars == <<clientVars, request, wire, serverVars, fileVars>>

Init ==
    /\ asked \in Requests
    /\ cpc = "connecting" /\ head = Absent /\ payload = <<>>
    /\ output = Absent /\ remaining = 0 /\ ok = FALSE
    /\ request = "none" /\ wire = <<>>
    /\ spc = "idle" /\ whole = FALSE /\ serving = -1 /\ size = 0 /\ hashed = Absent
    /\ pos = 0 /\ out = <<>> /\ after = "closing" /\ lost = FALSE
    /\ source \in Stored /\ held = Absent /\ fetches = 0

\* A line ends with the newline; what precedes it may arrive on its own.
Part == [kind |-> "part"]
Line(m) == [kind |-> "line", message |-> m]
Data(b) == [kind |-> "data", block |-> b]
EndsLine(piece) == piece.kind = "line"
HashOf(content) == Name(content)
Blocks(pieces) == [i \in 1..Len(pieces) |-> pieces[i].block]

Lowest(a, b) == IF a < b THEN a ELSE b

\* Definitions whose name starts with Bad are not the code: each is a plausible
\* slip in the definition that follows it, which some property has to notice.

\* a path that returns without closing the socket
BadClientOpen == cpc # "connecting"

\* closeSocket is called on every return
ClientOpen == cpc \notin {"connecting", "returned"}

-----------------------------------------------------------------------------
(* The client *)

ClientUnchanged == UNCHANGED <<serverVars, fileVars>>

\* return false before the chunk file is opened
GiveUp ==
    /\ cpc' = "returned"
    /\ UNCHANGED <<asked, head, payload, output, remaining, ok>>

\* return false after removeFileIfExists
Discard ==
    /\ cpc' = "returned"
    /\ output' = Absent
    /\ UNCHANGED <<asked, head, payload, remaining, ok>>

\* connectToServer, and acceptClient on the other side
Connect ==
    /\ cpc = "connecting"
    /\ \/ /\ cpc' = "requesting" /\ spc' = "receiving"
          /\ UNCHANGED <<asked, head, payload, output, remaining, ok>>
       \/ GiveUp /\ UNCHANGED spc
    /\ UNCHANGED <<request, wire, whole, serving, size, hashed, pos, out, after,
                   lost, fileVars>>

\* the fileId is looked at, and the request sent
SendRequest ==
    /\ cpc = "requesting"
    /\ \/ /\ IsSafeFileId(asked.fileId)
          /\ cpc' = "header" /\ request' = "sent"
          /\ UNCHANGED <<asked, head, payload, output, remaining, ok>>
       \/ GiveUp /\ UNCHANGED request
    /\ ClientUnchanged /\ UNCHANGED wire

\* one recv of readChunkHeader, and parseMessage when the line is complete: an
\* ERROR, a size of 0 and one above the limit are refused
ReadHeader ==
    /\ cpc = "header"
    /\ \E k \in 1..Len(wire) :
          LET ends == {i \in 1..k : EndsLine(wire[i])}
          IN  /\ wire' = SubSeq(wire, k + 1, Len(wire))
              /\ \/ ends = {} /\ UNCHANGED clientVars
                 \/ \E i \in ends :
                      LET header == ParseMessage(wire[i].message)
                      IN  IF header.valid /\ header.type = "CHUNK"
                          THEN /\ head' = header
                               /\ payload' = Blocks(SubSeq(wire, i + 1, k))
                               /\ remaining' = header.chunkSize
                               /\ cpc' = "opening"
                               /\ UNCHANGED <<asked, output, ok>>
                          ELSE GiveUp
    /\ ClientUnchanged /\ UNCHANGED request

\* recv returns 0 or an error or times out; after a reset what has arrived may
\* be lost
NothingToReceive == wire = <<>> \/ (spc = "closed" /\ ~whole)

\* before the line is complete
NoHeader ==
    /\ cpc = "header"
    /\ NothingToReceive
    /\ GiveUp
    /\ ClientUnchanged /\ UNCHANGED <<request, wire>>

\* receiveChunkData opens the file
Open ==
    /\ cpc = "opening"
    /\ \/ /\ output' = <<>> /\ cpc' = "flushing"
          /\ UNCHANGED <<asked, head, payload, remaining, ok>>
       \/ StorageFaults /\ GiveUp
    /\ ClientUnchanged /\ UNCHANGED <<request, wire>>

\* what came with the header is written, as far as it belongs to the chunk
Flush ==
    /\ cpc = "flushing"
    /\ LET n == Lowest(remaining, Len(payload))
       IN  \/ /\ output' = SubSeq(payload, 1, n)
              /\ remaining' = remaining - n
              /\ cpc' = "receiving"
              /\ UNCHANGED <<asked, head, payload, ok>>
           \/ StorageFaults /\ n > 0 /\ Discard
    /\ ClientUnchanged /\ UNCHANGED <<request, wire>>

\* one recv of the loop, and the write
Receive ==
    /\ cpc = "receiving"
    /\ \E k \in 1..Lowest(remaining, Len(wire)) :
          /\ wire' = SubSeq(wire, k + 1, Len(wire))
          /\ \/ /\ output' = output \o Blocks(SubSeq(wire, 1, k))
                /\ remaining' = remaining - k
                /\ UNCHANGED <<asked, cpc, head, payload, ok>>
             \/ StorageFaults /\ Discard
    /\ ClientUnchanged /\ UNCHANGED request

\* the end of the connection is taken for the end of the chunk
BadReceiveEnds ==
    /\ cpc = "receiving" /\ remaining > 0
    /\ wire = <<>>
    /\ cpc' = "returned" /\ ok' = TRUE
    /\ UNCHANGED <<asked, head, payload, output, remaining>>
    /\ ClientUnchanged /\ UNCHANGED <<request, wire>>

\* no time-out on the socket
BadReceiveWaits ==
    /\ cpc = "receiving" /\ remaining > 0
    /\ wire = <<>> /\ spc \in {"closed", "dead"}
    /\ Discard
    /\ ClientUnchanged /\ UNCHANGED <<request, wire>>

\* before the chunk is complete
ReceiveEnds ==
    /\ cpc = "receiving" /\ remaining > 0
    /\ NothingToReceive
    /\ Discard
    /\ ClientUnchanged /\ UNCHANGED <<request, wire>>

\* a file with the wrong hash is left for later
BadCompare ==
    /\ cpc = "receiving" /\ remaining = 0
    /\ cpc' = "returned"
    /\ ok' = (HashOf(output) = head.chunkHash)
    /\ UNCHANGED <<asked, head, payload, output, remaining>>
    /\ ClientUnchanged /\ UNCHANGED <<request, wire>>

\* the hash of what was received against that of the header
Compare ==
    /\ cpc = "receiving" /\ remaining = 0
    /\ \/ /\ HashOf(output) = head.chunkHash
          /\ ok' = TRUE /\ cpc' = "returned"
          /\ UNCHANGED <<asked, head, payload, output, remaining>>
       \/ (HashOf(output) # head.chunkHash \/ StorageFaults) /\ Discard
    /\ ClientUnchanged /\ UNCHANGED <<request, wire>>

-----------------------------------------------------------------------------
(* The server: a task of the pool of startPeerServer *)

ServerUnchanged == UNCHANGED <<clientVars, fileVars>>

Send(pieces, next) == spc' = "sending" /\ out' = pieces /\ after' = next
Go(next) == spc' = next /\ UNCHANGED <<out, after>>

File == IF serving = asked.chunkId THEN source ELSE OtherFile
SendError == Send(<<Line(BuildErrorMessage(<<Name("refused")>>))>>, "closing")

\* handlePeerRequest: a single recv is taken for the request, whatever part of
\* it has arrived; then findServableChunkPath
ReceiveRequest ==
    /\ spc = "receiving" /\ request = "sent"
    /\ LET sent == BuildRequestMessage(asked.fileId, asked.chunkId)
       IN  \E piece \in Pieces(sent) :
             LET msg == ParseMessage(piece)
             IN  /\ whole' \in {FALSE, piece = sent}  \* the newline may be missing
                 /\ serving' = msg.chunkId
                 /\ IF \/ ~msg.valid \/ msg.type # "REQUEST"
                       \/ ~IsSafeFileId(msg.fileId)
                       \/ msg.chunkId = asked.chunkId /\ source = Absent
                    THEN SendError
                    ELSE Go("sizing")
    /\ ServerUnchanged /\ UNCHANGED <<request, wire, size, hashed, pos, lost>>

\* recv returns 0
NoRequest ==
    /\ spc = "receiving" /\ request = "none"
    /\ ~ClientOpen
    /\ whole' = TRUE
    /\ Go("closing")
    /\ ServerUnchanged
    /\ UNCHANGED <<request, wire, serving, size, hashed, pos, lost>>

\* file_size throws if the file is gone, and an exception that leaves a task
\* ends the process
TakeSize ==
    /\ spc = "sizing"
    /\ IF File = Absent THEN Go("dead") /\ UNCHANGED size
                        ELSE Go("hashing") /\ size' = Len(File)
    /\ ServerUnchanged
    /\ UNCHANGED <<request, wire, whole, serving, hashed, pos, lost>>

\* computeFileSha256 and the header
TakeHash ==
    /\ spc = "hashing"
    /\ IF File = Absent
       THEN SendError /\ UNCHANGED hashed
       ELSE /\ Send(<<Part, Line(BuildChunkMessage(asked.fileId, serving, size,
                                                   HashOf(File)))>>, "opening")
            /\ hashed' = File
    /\ ServerUnchanged
    /\ UNCHANGED <<request, wire, whole, serving, size, pos, lost>>

\* sendChunkFileInBuffers opens the file ...
OpenFile ==
    /\ spc = "opening"
    /\ Go(IF File = Absent THEN "closing" ELSE "reading")
    /\ ServerUnchanged
    /\ UNCHANGED <<request, wire, whole, serving, size, hashed, pos, lost>>

\* ... and sends what it has, block by block, till its end
ReadFile ==
    /\ spc = "reading"
    /\ LET content == IF held # Absent THEN held ELSE File
       IN  IF pos < Len(content)
           THEN Send(<<Data(content[pos + 1])>>, "reading") /\ pos' = pos + 1
           ELSE Go("closing") /\ UNCHANGED pos
    /\ ServerUnchanged
    /\ UNCHANGED <<request, wire, whole, serving, size, hashed, lost>>

\* sendAll: a piece is taken over as soon as there is room
Push ==
    /\ spc = "sending"
    /\ ClientOpen /\ Len(wire) < Capacity
    /\ wire' = Append(wire, Head(out))
    /\ out' = Tail(out)
    /\ spc' = IF Len(out) = 1 THEN after ELSE "sending"
    /\ ServerUnchanged
    /\ UNCHANGED <<request, whole, serving, size, hashed, pos, after, lost>>

\* To a connection the client has closed the first send succeeds, and a later
\* one fails or raises SIGPIPE, which nobody handles.
PushLost ==
    /\ spc = "sending"
    /\ ~ClientOpen
    /\ \/ spc' = after /\ lost' = TRUE
       \/ spc' = "closing" /\ UNCHANGED lost
       \/ lost /\ spc' = "dead" /\ UNCHANGED lost
    /\ out' = <<>>
    /\ ServerUnchanged
    /\ UNCHANGED <<request, wire, whole, serving, size, hashed, pos, after>>

\* the task closes the socket
CloseSocket ==
    /\ spc = "closing"
    /\ Go("closed")
    /\ ServerUnchanged
    /\ UNCHANGED <<request, wire, whole, serving, size, hashed, pos, lost>>

-----------------------------------------------------------------------------
(* The serving peer's own download of the chunk, into the same file *)

FetchUnchanged == UNCHANGED <<clientVars, request, wire, serverVars>>

FetchOpens ==
    /\ source = Absent /\ fetches < MaxFetches
    /\ source' = <<>> /\ fetches' = fetches + 1
    /\ FetchUnchanged /\ UNCHANGED held

FetchWrites ==
    /\ source # Absent /\ fetches > 0 /\ Len(source) < Len(Chunk)
    /\ \E b \in {Chunk[Len(source) + 1], Junk} : source' = Append(source, b)
    /\ FetchUnchanged /\ UNCHANGED <<held, fetches>>

\* an open file keeps its content
FetchBreaks ==
    /\ source \notin {Absent, Chunk} /\ fetches > 0
    /\ source' = Absent
    /\ held' = IF /\ serving = asked.chunkId /\ held = Absent
                  /\ spc = "reading" \/ (spc = "sending" /\ after = "reading")
               THEN source ELSE held
    /\ FetchUnchanged /\ UNCHANGED fetches

-----------------------------------------------------------------------------
ClientStep ==
    \/ Connect \/ SendRequest \/ ReadHeader \/ NoHeader
    \/ Open \/ Flush \/ Receive \/ ReceiveEnds \/ Compare

ServerStep ==
    \/ ReceiveRequest \/ NoRequest \/ TakeSize \/ TakeHash
    \/ OpenFile \/ ReadFile \/ Push \/ PushLost \/ CloseSocket

FetchStep == FetchOpens \/ FetchWrites \/ FetchBreaks

\* both ends are done
Over ==
    /\ cpc = "returned" /\ spc \in {"idle", "closed", "dead"}
    /\ UNCHANGED vars

Next == ClientStep \/ ServerStep \/ FetchStep \/ Over

\* Only the client is fair: its thread is scheduled and its socket times out.
\* The server may be as slow as it likes.
Spec == Init /\ [][Next]_vars /\ WF_vars(ClientStep)

-----------------------------------------------------------------------------
(* Properties *)

\* Types of the locals of both sides; `remaining`, a size_t, never wraps.
TypeOK ==
    /\ cpc \in {"connecting", "requesting", "header", "opening", "flushing",
                "receiving", "returned"}
    /\ remaining \in 0..kMaxChunkSize /\ ok \in BOOLEAN /\ asked \in Requests
    /\ {source, held, output, hashed} \subseteq Contents \cup {Absent}
    /\ payload \in Contents
    /\ request \in {"none", "sent"} /\ Len(wire) <= Capacity
    /\ spc \in {"idle", "receiving", "sizing", "hashing", "sending", "opening",
                "reading", "closing", "closed", "dead"}
    /\ {size, pos} \subseteq Nat
    /\ lost \in BOOLEAN /\ fetches \in 0..MaxFetches

\* The size, the hash and the bytes are taken from the file at three moments
\* while it may be written: what is accepted is all the same, block for block,
\* the file as it was when it was hashed.
AcceptedWasServed == ok => output = hashed

\* A file that is not the chunk asked for is accepted in one case only, which the
\* client could notice, since the header names the chunk: the request was cut in
\* its number, and the server read the digits it had.  A request that was read
\* as a whole means the same to both, or is refused.
AcceptedWasAsked ==
    ok => \/ whole /\ serving = asked.chunkId /\ serving <= kMaxChunkId
          \/ ~whole /\ \E k \in 0..9 : serving = asked.chunkId \div 10^k

\* However the server behaves, requestChunkFromPeer returns.
RequestReturns == (cpc = "connecting") ~> (cpc = "returned")

\* The server has no time-outs, neither on recv nor on send.  Its task ends all
\* the same, because the client's do, and the client closes its socket.
HandlerEnds ==
    WF_vars(ServerStep) => ((spc = "receiving") ~> (spc \in {"closed", "dead"}))

\* The request has the outcomes ParallelDownload builds on, and no other.
Phase == CASE cpc \in {"flushing", "receiving"} -> "receiving"
           [] cpc = "returned" -> "over"
           [] OTHER -> "asking"
ChunkFile == CASE output = Absent -> "absent"
               [] output = <<>> -> "empty"
               [] cpc = "returned" /\ output = Chunk -> "good"
               [] OTHER -> "wrong"
Request == INSTANCE ChunkRequest WITH phase <- Phase, file <- ChunkFile
ImplementsChunkRequest == Request!RequestSpec
=============================================================================
