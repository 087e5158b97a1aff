-------------------------- MODULE ChunkTransferProofs --------------------------
(***************************************************************************)
(* Proofs about ChunkTransfer, for any contents of the files, any requests *)
(* and limits, any cutting of the stream and any faults of the storage.    *)
(*                                                                         *)
(* What the client compares in the end is a hash it read in a line that    *)
(* the server made when it hashed the file.  That it is still the hash of  *)
(* `hashed` takes the order of the stream: nothing is on the wire until    *)
(* the file has been hashed, one line is sent and bytes of blocks after    *)
(* it, and the words of that line are where the parser looks for them,     *)
(* because no request is sent whose fileId has more than one.              *)
(***************************************************************************)
EXTENDS ChunkTransfer, FoldProofs

\* before the header is made
Early == {"idle", "receiving", "sizing", "hashing"}
\* after the header was read
Loading == {"opening", "flushing", "receiving"}

Refusal == Line(BuildErrorMessage(<<Name("refused")>>))
Answer == Line(BuildChunkMessage(asked.fileId, serving, size, HashOf(hashed)))
DataPieces == {Data(b) : b \in Block}
Traffic == {Part, Refusal, Answer} \cup DataPieces

\* After a line there are only blocks.
LineThenData(pieces) ==
    \A i, j \in 1..Len(pieces) :
        i < j /\ EndsLine(pieces[i]) => pieces[j] \in DataPieces
HeaderSent ==
    cpc \in Loading \/ \E i \in 1..Len(wire) : EndsLine(wire[i])

\* What is on its way to the client, and when.
InOrder ==
    /\ wire \in Seq(Traffic) /\ out \in Seq(Traffic)
    /\ LineThenData(wire) /\ LineThenData(out)
    /\ spc \in Early => wire = <<>> /\ out = <<>> /\ ~ok /\ cpc \notin Loading
    /\ cpc \in Loading => wire \in Seq(DataPieces)
    /\ HeaderSent /\ spc = "sending" => out \in Seq(DataPieces)

\* What the two sides have taken from each other.
Agreed ==
    /\ cpc = "connecting" => spc = "idle"
    /\ cpc = "header" => request = "sent"
    /\ request = "sent" => Len(asked.fileId) = 1
    /\ cpc \in Loading => head.chunkHash = HashOf(hashed)
    /\ ok => output = hashed /\ cpc = "returned"

\* The client's position in its file.
Filled ==
    /\ cpc \in {"connecting", "requesting", "header", "opening"} =>
          output = Absent
    /\ cpc \in {"opening", "flushing"} => remaining = head.chunkSize /\ remaining > 0
    /\ cpc = "flushing" => output = <<>>
    /\ cpc = "receiving" =>
          /\ output \in Contents
          /\ Len(output) + remaining = head.chunkSize /\ head.chunkSize > 0

\* An open file has a content.
Readable ==
    /\ after \in {"closing", "opening", "reading"}
    /\ spc = "sending" => out # <<>>
    /\ spc = "reading" \/ (spc = "sending" /\ after = "reading") =>
          held # Absent \/ File # Absent

TransferInv == TypeOK /\ InOrder /\ Agreed /\ Filled /\ Readable

-----------------------------------------------------------------------------
(* Pieces, lines and sequences *)

LEMMA PieceKinds ==
    /\ ~EndsLine(Part) /\ EndsLine(Refusal) /\ EndsLine(Answer)
    /\ \A p \in DataPieces : ~EndsLine(p) /\ p.block \in Block
    /\ \A b \in Block : Data(b) \in DataPieces
BY DEF EndsLine, Part, Refusal, Answer, Line, Data, DataPieces

LEMMA LinesOfTraffic ==
    ASSUME NEW p \in Traffic, EndsLine(p)
    PROVE  p \in {Refusal, Answer}
BY PieceKinds DEF Traffic

\* The words of a CHUNK header are what the client keeps of it.
LEMMA ParsedChunk ==
    ASSUME NEW words, ParseMessage(words).type = "CHUNK"
    PROVE  /\ words[1] = Name("CHUNK")
           /\ ParseMessage(words).chunkHash = words[5]
           /\ ParseMessage(words).chunkSize \in 1..kMaxChunkSize
<1> DEFINE Id == Number(words[3]) \in 0..kMaxChunkId
           Size == Number(words[4])
           request_ == Len(words) >= 3 /\ words[1] = Name("REQUEST") /\ Id
           chunk == /\ Len(words) >= 5 /\ words[1] = Name("CHUNK")
                    /\ Id /\ Size \in 1..kMaxChunkSize
<1>1. request_ => ParseMessage(words).type = "REQUEST"
  BY DEF ParseMessage, Valid, Unknown, Name
<1>2. chunk => /\ ParseMessage(words).chunkHash = words[5]
               /\ ParseMessage(words).chunkSize = Size
  <2> SUFFICES ASSUME chunk
               PROVE  /\ ParseMessage(words).chunkHash = words[5]
                      /\ ParseMessage(words).chunkSize = Size
    OBVIOUS
  <2>1. words[1] # Name("REQUEST") /\ words[1] # Name("ERROR")
    BY DEF Name
  <2>2. ParseMessage(words) =
            [Valid("CHUNK") EXCEPT !.fileId = <<words[2]>>,
                                   !.chunkId = Number(words[3]),
                                   !.chunkSize = Number(words[4]),
                                   !.chunkHash = words[5]]
    BY <2>1 DEF ParseMessage
  <2> QED
    BY <2>2 DEF Valid, Unknown
<1>3. ~request_ /\ ~chunk => ParseMessage(words).type # "CHUNK"
  BY DEF ParseMessage, Valid, Unknown
<1> QED
  BY <1>1, <1>2, <1>3

LEMMA HashesTellApart ==
    \A content, other : HashOf(content) = HashOf(other) => content = other
BY DEF HashOf, Name

\* With a fileId of one word the hash is the fifth word of the answer; no
\* refusal reads as a header.
LEMMA HeaderParsed ==
    ASSUME NEW p \in {Refusal, Answer}, asked \in Requests,
           Len(asked.fileId) = 1, ParseMessage(p.message).type = "CHUNK"
    PROVE  ParseMessage(p.message).chunkHash = HashOf(hashed)
<1> DEFINE words == p.message
<1>1. words[1] = Name("CHUNK") /\ ParseMessage(words).chunkHash = words[5]
  BY ParsedChunk
<1>2. CASE p = Refusal
  <2>1. words = <<Name("ERROR")>> \o <<Name("refused")>>
    BY <1>2 DEF Refusal, Line, BuildErrorMessage
  <2>2. words[1] = Name("ERROR")
    BY <2>1
  <2> QED
    BY <1>1, <2>2 DEF Name
<1>3. CASE p = Answer
  <2> DEFINE start == <<Name("CHUNK")>>
             end == <<Numeral(serving), Numeral(size), HashOf(hashed)>>
             S == Range(asked.fileId) \cup
                     {Name("CHUNK"), Numeral(serving), Numeral(size), HashOf(hashed)}
  <2>1. words = start \o asked.fileId \o end
    BY <1>3 DEF Answer, Line, BuildChunkMessage
  <2>2. asked.fileId \in Seq(S)
    BY RequestsAssumption, SeqMonotonic
  <2>3. start \in Seq(S) /\ Len(start) = 1
    OBVIOUS
  <2>4. end \in Seq(S) /\ Len(end) = 3 /\ end[3] = HashOf(hashed)
    OBVIOUS
  <2> HIDE DEF start, end, S
  <2>5. start \o asked.fileId \in Seq(S) /\ Len(start \o asked.fileId) = 2
    <3>1. /\ start \o asked.fileId \in Seq(S)
          /\ Len(start \o asked.fileId) = Len(start) + Len(asked.fileId)
      BY <2>2, <2>3, ConcatProperties, Zenon
    <3> QED
      BY <3>1, <2>3
  <2> DEFINE front == start \o asked.fileId
  <2> HIDE DEF front
  <2>6. (front \o end)[5] = end[3]
    <3>1. front \in Seq(S) /\ Len(front) = 2
      BY <2>5 DEF front
    <3>2. \A i \in 1..Len(front) + Len(end) :
             (front \o end)[i] = IF i <= Len(front) THEN front[i]
                                                    ELSE end[i - Len(front)]
      BY <2>4, <3>1, ConcatProperties, Zenon
    <3> QED
      <4>1. 5 \in 1..Len(front) + Len(end) /\ ~(5 <= Len(front)) /\ 5 - Len(front) = 3
        BY <2>4, <3>1
      <4> QED
        BY <4>1, <3>2, Zenon
  <2> QED
    BY <1>1, <2>1, <2>4, <2>6 DEF front
<1> QED
  BY <1>2, <1>3

LEMMA SubSeqFacts ==
    ASSUME NEW S, NEW s \in Seq(S), NEW m \in 1..Len(s) + 1, NEW n \in 0..Len(s)
    PROVE  /\ SubSeq(s, m, n) \in Seq(S)
           /\ Len(SubSeq(s, m, n)) = IF m <= n THEN n - m + 1 ELSE 0
           /\ \A i \in 1..n - m + 1 : SubSeq(s, m, n)[i] = s[m + i - 1]
<1>1. Len(s) \in Nat
  BY LenProperties
<1>2. \A i \in m..n : s[i] \in S
  BY <1>1, ElementOfSeq
<1> QED
  BY <1>1, <1>2, SubSeqProperties

LEMMA SeqNarrow ==
    ASSUME NEW S, NEW T, NEW s \in Seq(S), \A i \in 1..Len(s) : s[i] \in T
    PROVE  s \in Seq(T)
<1>1. Len(s) \in Nat /\ s \in [1..Len(s) -> S]
  BY LenProperties
<1>2. s \in [1..Len(s) -> T]
  BY <1>1
<1> QED
  BY <1>1, <1>2, SeqDef

LEMMA BlocksOf ==
    ASSUME NEW pieces \in Seq(DataPieces)
    PROVE  Blocks(pieces) \in Contents /\ Len(Blocks(pieces)) = Len(pieces)
<1>1. Len(pieces) \in Nat
  BY LenProperties
<1>2. \A i \in 1..Len(pieces) : pieces[i].block \in Block
  BY ElementOfSeq, PieceKinds
<1>3. Blocks(pieces) \in [1..Len(pieces) -> Block]
  BY <1>2 DEF Blocks
<1>4. Blocks(pieces) \in Seq(Block)
  BY <1>1, <1>3, SeqDef
<1> QED
  BY <1>1, <1>3, <1>4, LenProperties DEF Contents

-----------------------------------------------------------------------------
(* What the client reads *)

\* The header is in the stream once, and only blocks come after it.
LEMMA HeaderRead ==
    ASSUME TransferInv, cpc = "header",
           NEW k \in 1..Len(wire), NEW i \in 1..k, EndsLine(wire[i]),
           ParseMessage(wire[i].message).type = "CHUNK"
    PROVE  /\ ParseMessage(wire[i].message).chunkHash = HashOf(hashed)
           /\ ParseMessage(wire[i].message).chunkSize \in 1..kMaxChunkSize
           /\ Blocks(SubSeq(wire, i + 1, k)) \in Contents
           /\ SubSeq(wire, k + 1, Len(wire)) \in Seq(DataPieces)
<1>1. wire \in Seq(Traffic) /\ Len(wire) \in Nat
  BY LenProperties DEF TransferInv, InOrder
<1>2. wire[i] \in Traffic
  BY <1>1, ElementOfSeq
<1>3. wire[i] \in {Refusal, Answer}
  BY <1>2, LinesOfTraffic
<1>4. Len(asked.fileId) = 1 /\ asked \in Requests
  BY DEF TransferInv, Agreed, TypeOK
<1>5. \A j \in i + 1..Len(wire) : wire[j] \in DataPieces
  BY <1>1 DEF TransferInv, InOrder, LineThenData
<1>6. SubSeq(wire, i + 1, k) \in Seq(DataPieces)
  <2>1. \A j \in i + 1..k : wire[j] \in DataPieces
    BY <1>1, <1>5
  <2> QED
    BY <1>1, <2>1, SubSeqProperties
<1>7. SubSeq(wire, k + 1, Len(wire)) \in Seq(DataPieces)
  <2>1. \A j \in k + 1..Len(wire) : wire[j] \in DataPieces
    BY <1>1, <1>5
  <2> QED
    BY <1>1, <2>1, SubSeqProperties
<1> QED
  BY <1>3, <1>4, <1>6, <1>7, HeaderParsed, ParsedChunk, BlocksOf

\* A recv that takes k pieces off the wire.
LEMMA TakenFromWire ==
    ASSUME InOrder, NEW k \in 1..Len(wire)
    PROVE  /\ Len(SubSeq(wire, k + 1, Len(wire))) = Len(wire) - k
           /\ SubSeq(wire, k + 1, Len(wire)) \in Seq(Traffic)
           /\ LineThenData(SubSeq(wire, k + 1, Len(wire)))
           /\ \A i \in 1..Len(wire) - k :
                 SubSeq(wire, k + 1, Len(wire))[i] = wire[i + k]
<1> DEFINE rest == SubSeq(wire, k + 1, Len(wire))
<1>1. wire \in Seq(Traffic) /\ Len(wire) \in Nat
  BY LenProperties DEF InOrder
<1>2. /\ rest \in Seq(Traffic)
      /\ Len(rest) = Len(wire) - k
      /\ \A i \in 1..Len(wire) - k : rest[i] = wire[k + 1 + i - 1]
  <2>1. k + 1 \in 1..Len(wire) + 1 /\ Len(wire) \in 0..Len(wire)
    BY <1>1
  <2>2. \A i \in 1..Len(wire) - (k + 1) + 1 : rest[i] = wire[(k + 1) + i - 1]
    BY <1>1, <2>1, SubSeqFacts
  <2>3. /\ rest \in Seq(Traffic)
        /\ Len(rest) = IF k + 1 <= Len(wire) THEN Len(wire) - (k + 1) + 1 ELSE 0
    BY <1>1, <2>1, SubSeqFacts
  <2> QED
    BY <1>1, <2>2, <2>3
<1> HIDE DEF rest
<1>3. \A i \in 1..Len(wire) - k : rest[i] = wire[i + k] /\ i + k \in 1..Len(wire)
  BY <1>1, <1>2
<1>4. LineThenData(rest)
  <2> SUFFICES ASSUME NEW i \in 1..Len(rest), NEW j \in 1..Len(rest),
                      i < j, EndsLine(rest[i])
               PROVE  rest[j] \in DataPieces
    BY DEF LineThenData
  <2>1. i + k \in 1..Len(wire) /\ j + k \in 1..Len(wire) /\ i + k < j + k
    BY <1>1, <1>2, <1>3
  <2>2. rest[i] = wire[i + k] /\ rest[j] = wire[j + k]
    BY <1>2, <1>3
  <2>3. LineThenData(wire)
    BY DEF InOrder
  <2> QED
    BY <2>1, <2>2, <2>3 DEF LineThenData
<1> QED
  BY <1>2, <1>3, <1>4 DEF rest

\* While the chunk is received every piece is a block.
LEMMA BlocksRead ==
    ASSUME TransferInv, cpc = "receiving", NEW k \in 1..Len(wire)
    PROVE  /\ output \o Blocks(SubSeq(wire, 1, k)) \in Contents
           /\ Len(output \o Blocks(SubSeq(wire, 1, k))) = Len(output) + k
           /\ SubSeq(wire, k + 1, Len(wire)) \in Seq(DataPieces)
<1>1. wire \in Seq(DataPieces) /\ Len(wire) \in Nat
  BY LenProperties DEF TransferInv, InOrder, Loading
<1>2. SubSeq(wire, 1, k) \in Seq(DataPieces) /\ Len(SubSeq(wire, 1, k)) = k
  <2>1. 1 \in 1..Len(wire) + 1 /\ k \in 0..Len(wire)
    BY <1>1
  <2> QED
    BY <1>1, <2>1, SubSeqFacts
<1>3. SubSeq(wire, k + 1, Len(wire)) \in Seq(DataPieces)
  <2>1. k + 1 \in 1..Len(wire) + 1 /\ Len(wire) \in 0..Len(wire)
    BY <1>1
  <2> QED
    BY <1>1, <2>1, SubSeqFacts
<1> DEFINE blocks == Blocks(SubSeq(wire, 1, k))
<1>4. blocks \in Seq(Block) /\ Len(blocks) = k
  BY <1>2, BlocksOf DEF Contents
<1>5. output \in Seq(Block)
  BY DEF TransferInv, Filled, Contents
<1> HIDE DEF blocks
<1>6. output \o blocks \in Seq(Block) /\ Len(output \o blocks) = Len(output) + Len(blocks)
  BY <1>4, <1>5, ConcatProperties, Zenon
<1> QED
  BY <1>3, <1>4, <1>6 DEF blocks, Contents

\* What is written of the blocks that came with the header.
LEMMA Flushed ==
    ASSUME TransferInv, cpc = "flushing"
    PROVE  LET n == Lowest(remaining, Len(payload))
           IN  /\ n \in 0..remaining
               /\ SubSeq(payload, 1, n) \in Contents
               /\ Len(SubSeq(payload, 1, n)) = n
<1> DEFINE n == Lowest(remaining, Len(payload))
<1>1. payload \in Seq(Block) /\ Len(payload) \in Nat /\ remaining \in Nat
  BY LenProperties, LimitsAssumption DEF TransferInv, TypeOK, Contents
<1>2. n \in 0..remaining /\ n \in 0..Len(payload)
  BY <1>1 DEF Lowest
<1>3. 1 \in 1..Len(payload) + 1
  BY <1>1
<1> HIDE DEF n
<1>4. SubSeq(payload, 1, n) \in Seq(Block) /\ Len(SubSeq(payload, 1, n)) = n
  BY <1>1, <1>2, <1>3, SubSeqFacts
<1> QED
  BY <1>2, <1>4 DEF n, Contents
-----------------------------------------------------------------------------
(* The invariant *)

LEMMA InitInv == Init => TransferInv
<1> SUFFICES ASSUME Init PROVE TransferInv
  OBVIOUS
<1>1. <<>> \in Seq(Block) /\ <<>> \in Seq(Traffic) /\ Len(<<>>) = 0
  BY EmptySeq
<1>2. TypeOK
  <2>1. source \in Contents \cup {Absent} /\ <<>> \in Contents
    BY <1>1, ContentAssumption DEF Init, Contents
  <2>2. 0 \in 0..kMaxChunkSize /\ 0 \in 0..MaxFetches /\ Len(wire) <= Capacity
    BY <1>1, LimitsAssumption, BoundsAssumption DEF Init
  <2> QED
    <3>1. {source, held, output, hashed} \subseteq Contents \cup {Absent}
      BY <2>1 DEF Init
    <3>2. /\ remaining \in 0..kMaxChunkSize /\ payload \in Contents
          /\ Len(wire) <= Capacity /\ {size, pos} \subseteq Nat
          /\ fetches \in 0..MaxFetches
      BY <2>1, <2>2 DEF Init
    <3> QED
      BY <3>1, <3>2 DEF Init, TypeOK
<1>3. InOrder
  BY <1>1 DEF Init, InOrder, LineThenData, Loading, HeaderSent
<1>4. Agreed /\ Filled /\ Readable
  BY DEF Init, Agreed, Filled, Readable, Loading
<1> QED
  BY <1>2, <1>3, <1>4 DEF TransferInv

\* What the server's file, or the file it has open, can hold.
LEMMA FileIsContent ==
    ASSUME TransferInv
    PROVE  /\ File \in Contents \cup {Absent}
           /\ File # Absent => File \in Seq(Block) /\ Len(File) \in Nat
BY LenProperties, ContentAssumption DEF TransferInv, TypeOK, File, Contents

LEMMA FetchWritten ==
    ASSUME TypeOK, FetchWrites
    PROVE  source' \in Contents
<1>1. PICK b \in {Chunk[Len(source) + 1], Junk} : source' = Append(source, b)
  BY DEF FetchWrites
<1>2. source \in Seq(Block) /\ Len(source) \in Nat /\ Chunk \in Seq(Block)
  BY LenProperties, ContentAssumption DEF FetchWrites, TypeOK, Contents
<1>3. Len(source) + 1 \in 1..Len(Chunk)
  BY <1>2, LenProperties DEF FetchWrites
<1>4. b \in Block
  BY <1>2, <1>3, ElementOfSeq DEF Block
<1> QED
  BY <1>1, <1>2, <1>4, AppendProperties DEF Contents

LEMMA TypeStep == TransferInv /\ [Next]_vars => TypeOK'
<1> SUFFICES ASSUME TransferInv, [Next]_vars PROVE TypeOK'
  OBVIOUS
<1> USE DEF TransferInv
<1> DEFINE Typed == /\ cpc' \in {"connecting", "requesting", "header", "opening",
                                 "flushing", "receiving", "returned"}
                    /\ remaining' \in 0..kMaxChunkSize /\ ok' \in BOOLEAN
                    /\ asked' = asked
                    /\ output' \in Contents \cup {Absent} /\ payload' \in Contents
<1>1. CASE UNCHANGED vars
  BY <1>1 DEF vars, clientVars, serverVars, fileVars, TypeOK
<1>2. CASE Connect
  BY <1>2 DEF Connect, GiveUp, fileVars, TypeOK
<1>3. CASE SendRequest
  BY <1>3 DEF SendRequest, GiveUp, ClientUnchanged, serverVars, fileVars, TypeOK
<1>4. CASE ReadHeader
  <2>1. PICK k \in 1..Len(wire) :
          /\ wire' = SubSeq(wire, k + 1, Len(wire))
          /\ \/ UNCHANGED clientVars
             \/ \E i \in 1..k :
                   /\ EndsLine(wire[i])
                   /\ \/ /\ ParseMessage(wire[i].message).type = "CHUNK"
                         /\ remaining' = ParseMessage(wire[i].message).chunkSize
                         /\ payload' = Blocks(SubSeq(wire, i + 1, k))
                         /\ cpc' = "opening" /\ UNCHANGED <<asked, output, ok>>
                      \/ GiveUp
    BY <1>4 DEF ReadHeader
  <2>2. Len(wire') <= Capacity
    BY <2>1, TakenFromWire, BoundsAssumption DEF TypeOK
  <2>3. Typed
    BY <1>4, <2>1, HeaderRead, LimitsAssumption
       DEF ReadHeader, GiveUp, clientVars, TypeOK
  <2> QED
    BY <1>4, <2>2, <2>3
       DEF ReadHeader, ClientUnchanged, serverVars, fileVars, TypeOK
<1>5. CASE NoHeader
  BY <1>5 DEF NoHeader, GiveUp, ClientUnchanged, serverVars, fileVars, TypeOK
<1>6. CASE Open
  BY <1>6, EmptySeq
     DEF Open, GiveUp, ClientUnchanged, serverVars, fileVars, TypeOK, Contents
<1>7. CASE Flush
  <2>1. Typed
    <3> DEFINE n == Lowest(remaining, Len(payload))
    <3>1. n \in 0..remaining /\ SubSeq(payload, 1, n) \in Contents
      BY <1>7, Flushed DEF Flush
    <3>2. \/ /\ output' = SubSeq(payload, 1, n) /\ remaining' = remaining - n
             /\ cpc' = "receiving" /\ UNCHANGED <<asked, payload, ok>>
          \/ Discard
      BY <1>7 DEF Flush
    <3> HIDE DEF n
    <3>3. remaining - n \in 0..kMaxChunkSize
      BY <3>1, LimitsAssumption DEF TypeOK
    <3> QED
      BY <3>1, <3>2, <3>3 DEF Discard, TypeOK
  <2> QED
    BY <1>7, <2>1 DEF Flush, ClientUnchanged, serverVars, fileVars, TypeOK
<1>8. CASE Receive
  <2>1. PICK k \in 1..Lowest(remaining, Len(wire)) :
          /\ wire' = SubSeq(wire, k + 1, Len(wire))
          /\ \/ /\ output' = output \o Blocks(SubSeq(wire, 1, k))
                /\ remaining' = remaining - k
                /\ UNCHANGED <<asked, cpc, head, payload, ok>>
             \/ Discard
    BY <1>8 DEF Receive
  <2>2. k \in 1..Len(wire) /\ k \in 1..remaining /\ Len(wire) \in Nat
    BY LenProperties, LimitsAssumption DEF Lowest, InOrder, TypeOK
  <2>3. Len(wire') <= Capacity
    BY <2>1, <2>2, TakenFromWire, BoundsAssumption DEF TypeOK
  <2>4. Typed
    <3>1. output \o Blocks(SubSeq(wire, 1, k)) \in Contents
      BY <1>8, <2>2, BlocksRead DEF Receive
    <3>2. remaining - k \in 0..kMaxChunkSize
      BY <2>2, LimitsAssumption DEF TypeOK
    <3> QED
      BY <2>1, <3>1, <3>2 DEF Discard, TypeOK
  <2> QED
    BY <1>8, <2>3, <2>4 DEF Receive, ClientUnchanged, serverVars, fileVars, TypeOK
<1>9. CASE ReceiveEnds
  BY <1>9 DEF ReceiveEnds, Discard, ClientUnchanged, serverVars, fileVars, TypeOK
<1>10. CASE Compare
  BY <1>10 DEF Compare, Discard, ClientUnchanged, serverVars, fileVars, TypeOK
<1>11. CASE ReceiveRequest
  <2>1. spc' \in {"sending", "sizing"}
    BY <1>11 DEF ReceiveRequest, SendError, Send, Go
  <2> QED
    BY <1>11, <2>1 DEF ReceiveRequest, ServerUnchanged, clientVars, fileVars, TypeOK
<1>12. CASE NoRequest
  BY <1>12 DEF NoRequest, Go, ServerUnchanged, clientVars, fileVars, TypeOK
<1>13. CASE TakeSize
  BY <1>13, FileIsContent
     DEF TakeSize, Go, ServerUnchanged, clientVars, fileVars, TypeOK
<1>14. CASE TakeHash
  <2>1. spc' = "sending" /\ hashed' \in Contents \cup {Absent}
    BY <1>14, FileIsContent DEF TakeHash, SendError, Send, TypeOK
  <2> QED
    BY <1>14, <2>1 DEF TakeHash, ServerUnchanged, clientVars, fileVars, TypeOK
<1>15. CASE OpenFile
  BY <1>15 DEF OpenFile, Go, ServerUnchanged, clientVars, fileVars, TypeOK
<1>16. CASE ReadFile
  <2>1. spc' \in {"sending", "closing"} /\ pos' \in Nat
    BY <1>16 DEF ReadFile, Send, Go, TypeOK
  <2> QED
    BY <1>16, <2>1 DEF ReadFile, ServerUnchanged, clientVars, fileVars, TypeOK
<1>17. CASE Push
  <2>1. wire \in Seq(Traffic) /\ out \in Seq(Traffic) /\ out # <<>>
    BY <1>17 DEF Push, InOrder, Readable
  <2>2. Len(wire') = Len(wire) + 1 /\ Len(wire) \in Nat
    BY <1>17, <2>1, AppendProperties, HeadTailProperties, LenProperties DEF Push
  <2>3. Len(wire') <= Capacity /\ spc' \in {"closing", "opening", "reading", "sending"}
    BY <1>17, <2>2, BoundsAssumption DEF Push, Readable
  <2> QED
    BY <1>17, <2>3 DEF Push, ServerUnchanged, clientVars, fileVars, TypeOK
<1>18. CASE PushLost
  BY <1>18 DEF PushLost, Readable, ServerUnchanged, clientVars, fileVars, TypeOK
<1>19. CASE CloseSocket
  BY <1>19 DEF CloseSocket, Go, ServerUnchanged, clientVars, fileVars, TypeOK
<1>20. CASE FetchOpens
  BY <1>20, EmptySeq, BoundsAssumption
     DEF FetchOpens, FetchUnchanged, clientVars, serverVars, TypeOK, Contents
<1>21. CASE FetchWrites
  <2>1. source' \in Contents
    BY <1>21, FetchWritten
  <2> QED
    BY <1>21, <2>1 DEF FetchWrites, FetchUnchanged, clientVars, serverVars, TypeOK
<1>22. CASE FetchBreaks
  BY <1>22 DEF FetchBreaks, FetchUnchanged, clientVars, serverVars, TypeOK
<1>23. CASE Over
  BY <1>1, <1>23 DEF Over
<1> QED
  BY <1>1, <1>2, <1>3, <1>4, <1>5, <1>6, <1>7, <1>8, <1>9, <1>10, <1>11, <1>12,
     <1>13, <1>14, <1>15, <1>16, <1>17, <1>18, <1>19, <1>20, <1>21, <1>22, <1>23
     DEF Next, ClientStep, ServerStep, FetchStep

LEMMA FilledStep == TransferInv /\ [Next]_vars => Filled'
<1> SUFFICES ASSUME TransferInv, [Next]_vars PROVE Filled'
  OBVIOUS
<1> USE DEF TransferInv
<1>1. CASE UNCHANGED clientVars
  BY <1>1 DEF clientVars, Filled
<1>2. CASE Connect
  BY <1>2 DEF Connect, GiveUp, Filled
<1>3. CASE SendRequest
  BY <1>3 DEF SendRequest, GiveUp, Filled
<1>4. CASE ReadHeader
  <2>1. \/ UNCHANGED clientVars
        \/ GiveUp
        \/ \E k \in 1..Len(wire) : \E i \in 1..k :
              LET header == ParseMessage(wire[i].message)
              IN  /\ EndsLine(wire[i]) /\ header.type = "CHUNK"
                  /\ head' = header /\ remaining' = header.chunkSize
                  /\ cpc' = "opening" /\ output' = output
    BY <1>4 DEF ReadHeader
  <2>2. CASE GiveUp
    BY <2>2 DEF GiveUp, Filled
  <2>3. ASSUME NEW k \in 1..Len(wire), NEW i \in 1..k, EndsLine(wire[i]),
               NEW header, header = ParseMessage(wire[i].message),
               header.type = "CHUNK", head' = header,
               remaining' = header.chunkSize,
               cpc' = "opening", output' = output
        PROVE  Filled'
    <3>1. header.chunkSize \in 1..kMaxChunkSize
      BY <1>4, <2>3, HeaderRead DEF ReadHeader
    <3>2. output' = Absent /\ remaining' = head'.chunkSize /\ remaining' > 0
      BY <1>4, <2>3, <3>1 DEF ReadHeader, Filled
    <3> QED
      BY <2>3, <3>2 DEF Filled
  <2> QED
    BY <1>1, <2>1, <2>2, <2>3
<1>5. CASE NoHeader
  BY <1>5 DEF NoHeader, GiveUp, Filled
<1>6. CASE Open
  BY <1>6 DEF Open, GiveUp, Filled
<1>7. CASE Flush
  <2> DEFINE n == Lowest(remaining, Len(payload))
  <2>1. /\ n \in 0..remaining /\ SubSeq(payload, 1, n) \in Contents
        /\ Len(SubSeq(payload, 1, n)) = n
    BY <1>7, Flushed DEF Flush
  <2>2. \/ /\ output' = SubSeq(payload, 1, n) /\ remaining' = remaining - n
           /\ cpc' = "receiving" /\ head' = head
        \/ Discard
    BY <1>7 DEF Flush
  <2> HIDE DEF n
  <2>3. remaining \in Nat /\ remaining = head.chunkSize /\ remaining > 0
    BY <1>7, LimitsAssumption DEF Flush, Filled, TypeOK
  <2> QED
    <3>1. CASE Discard
      BY <3>1 DEF Discard, Filled
    <3>2. CASE /\ output' = SubSeq(payload, 1, n) /\ remaining' = remaining - n
               /\ cpc' = "receiving" /\ head' = head
      <4>1. output' \in Contents /\ Len(output') = n
        BY <2>1, <3>2
      <4>2. Len(output') + remaining' = head'.chunkSize /\ head'.chunkSize > 0
        BY <2>1, <2>3, <3>2, <4>1
      <4> QED
        BY <3>2, <4>1, <4>2 DEF Filled
    <3> QED
      BY <2>2, <3>1, <3>2
<1>8. CASE Receive
  <2>1. PICK k \in 1..Lowest(remaining, Len(wire)) :
          \/ /\ output' = output \o Blocks(SubSeq(wire, 1, k))
             /\ remaining' = remaining - k
             /\ UNCHANGED <<asked, cpc, head, payload, ok>>
          \/ Discard
    BY <1>8 DEF Receive
  <2>2. k \in 1..Len(wire) /\ k \in Nat /\ remaining \in Nat
    BY LenProperties, LimitsAssumption DEF Lowest, InOrder, TypeOK
  <2>3. /\ output \o Blocks(SubSeq(wire, 1, k)) \in Contents
        /\ Len(output \o Blocks(SubSeq(wire, 1, k))) = Len(output) + k
    BY <1>8, <2>2, BlocksRead DEF Receive
  <2>4. /\ cpc = "receiving" /\ Len(output) \in Nat
        /\ Len(output) + remaining = head.chunkSize /\ head.chunkSize > 0
    BY <1>8, LenProperties DEF Receive, Filled, Contents
  <2>5. CASE Discard
    BY <2>5 DEF Discard, Filled
  <2>6. CASE /\ output' = output \o Blocks(SubSeq(wire, 1, k))
             /\ remaining' = remaining - k
             /\ UNCHANGED <<asked, cpc, head, payload, ok>>
    <3>1. Len(output') + remaining' = head'.chunkSize
      <4>1. Len(output') = Len(output) + k
        BY <2>3, <2>6
      <4>2. remaining' = remaining - k /\ head' = head
        BY <2>6
      <4> QED
        BY <2>2, <2>4, <4>1, <4>2
    <3> QED
      BY <2>3, <2>4, <2>6, <3>1 DEF Filled
  <2> QED
    BY <2>1, <2>5, <2>6
<1>9. CASE ReceiveEnds
  BY <1>9 DEF ReceiveEnds, Discard, Filled
<1>10. CASE Compare
  BY <1>10 DEF Compare, Discard, Filled
<1>11. CASE ServerStep \/ FetchStep \/ Over \/ UNCHANGED vars
  <2>1. UNCHANGED clientVars
    BY <1>11 DEF vars, Over, ServerStep, ServerUnchanged, ReceiveRequest, NoRequest,
       TakeSize, TakeHash, OpenFile, ReadFile, Push, PushLost, CloseSocket,
       FetchStep, FetchUnchanged, FetchOpens, FetchWrites, FetchBreaks
  <2> QED
    BY <1>1, <2>1
<1> QED
  BY <1>2, <1>3, <1>4, <1>5, <1>6, <1>7, <1>8, <1>9, <1>10, <1>11
     DEF Next, ClientStep

LEMMA AgreedStep == TransferInv /\ [Next]_vars => Agreed'
<1> SUFFICES ASSUME TransferInv, [Next]_vars PROVE Agreed'
  OBVIOUS
<1> USE DEF TransferInv
<1>1. CASE UNCHANGED <<clientVars, request, spc, hashed>>
  BY <1>1 DEF clientVars, Agreed
<1>2. CASE Connect
  BY <1>2 DEF Connect, GiveUp, Agreed, Filled, Loading
<1>3. CASE SendRequest
  BY <1>3 DEF SendRequest, GiveUp, ClientUnchanged, serverVars, Agreed, Loading,
              IsSafeFileId
<1>4. CASE ReadHeader
  <2>1. UNCHANGED <<request, spc, hashed>>
    BY <1>4 DEF ReadHeader, ClientUnchanged, serverVars
  <2>2. \/ UNCHANGED clientVars
        \/ GiveUp
        \/ \E k \in 1..Len(wire) : \E i \in 1..k :
              LET header == ParseMessage(wire[i].message)
              IN  /\ EndsLine(wire[i]) /\ header.type = "CHUNK"
                  /\ head' = header
                  /\ cpc' = "opening" /\ UNCHANGED <<asked, output, ok>>
    BY <1>4 DEF ReadHeader
  <2>3. CASE GiveUp
    BY <1>4, <2>1, <2>3 DEF ReadHeader, GiveUp, Agreed, Loading
  <2>4. ASSUME NEW k \in 1..Len(wire), NEW i \in 1..k, EndsLine(wire[i]),
               NEW header, header = ParseMessage(wire[i].message),
               header.type = "CHUNK", head' = header,
               cpc' = "opening", UNCHANGED <<asked, output, ok>>
        PROVE  Agreed'
    <3>1. header.chunkHash = HashOf(hashed)
      BY <1>4, <2>4, HeaderRead DEF ReadHeader
    <3> QED
      BY <1>4, <2>1, <2>4, <3>1 DEF ReadHeader, Agreed, HashOf
  <2> QED
    BY <1>1, <2>1, <2>2, <2>3, <2>4
<1>5. CASE NoHeader
  BY <1>5 DEF NoHeader, GiveUp, ClientUnchanged, serverVars, Agreed, Loading
<1>6. CASE Open
  BY <1>6 DEF Open, GiveUp, ClientUnchanged, serverVars, Agreed, Loading, HashOf
<1>7. CASE Flush
  BY <1>7 DEF Flush, Discard, ClientUnchanged, serverVars, Agreed, Loading, HashOf
<1>8. CASE Receive
  BY <1>8 DEF Receive, Discard, ClientUnchanged, serverVars, Agreed, Loading, HashOf
<1>9. CASE ReceiveEnds
  BY <1>9 DEF ReceiveEnds, Discard, ClientUnchanged, serverVars, Agreed, Loading
<1>10. CASE Compare
  BY <1>10, HashesTellApart
     DEF Compare, Discard, ClientUnchanged, serverVars, Agreed, Loading
<1>11. CASE TakeHash
  <2>1. ~ok /\ cpc \notin Loading /\ spc = "hashing" /\ spc' = "sending"
    BY <1>11 DEF TakeHash, SendError, Send, InOrder, Early
  <2> QED
    BY <1>11, <2>1 DEF TakeHash, ServerUnchanged, clientVars, Agreed
<1>12. CASE /\ UNCHANGED <<clientVars, request, hashed>>
            /\ spc # "idle" \/ UNCHANGED spc
  BY <1>12 DEF clientVars, Agreed, HashOf
<1>13. CASE \/ ReceiveRequest \/ NoRequest \/ TakeSize \/ OpenFile \/ ReadFile
            \/ Push \/ PushLost \/ CloseSocket
  BY <1>12, <1>13
     DEF ServerUnchanged, ReceiveRequest, NoRequest, TakeSize, OpenFile, ReadFile,
         Push, PushLost, CloseSocket
<1>14. CASE FetchStep \/ Over \/ UNCHANGED vars
  BY <1>12, <1>14 DEF vars, Over, FetchStep, FetchUnchanged, serverVars, FetchOpens,
     FetchWrites, FetchBreaks
<1> QED
  BY <1>2, <1>3, <1>4, <1>5, <1>6, <1>7, <1>8, <1>9, <1>10, <1>11, <1>13, <1>14
     DEF Next, ClientStep, ServerStep

LEMMA ReadableStep == TransferInv /\ [Next]_vars => Readable'
<1> SUFFICES ASSUME TransferInv, [Next]_vars PROVE Readable'
  OBVIOUS
<1> USE DEF TransferInv
<1>1. CASE UNCHANGED <<asked, serverVars, fileVars>>
  BY <1>1 DEF serverVars, fileVars, Readable, File
<1>2. CASE Connect
  <2>1. spc' \in {spc, "receiving"} /\ spc = "idle"
    BY <1>2 DEF Connect, Agreed
  <2> QED
    BY <1>2, <2>1 DEF Connect, GiveUp, fileVars, Readable
<1>3. CASE \/ SendRequest \/ ReadHeader \/ NoHeader \/ Open \/ Flush
           \/ Receive \/ ReceiveEnds \/ Compare \/ Over \/ UNCHANGED vars
  <2>1. UNCHANGED <<serverVars, fileVars>>
    BY <1>3 DEF SendRequest, ReadHeader, NoHeader, Open, Flush, Receive, ReceiveEnds,
       Compare, Over, vars, ClientUnchanged
  <2>2. UNCHANGED asked
    BY <1>3 DEF SendRequest, ReadHeader, NoHeader, Open, Flush, Receive, ReceiveEnds,
       Compare, Over, vars, clientVars, GiveUp, Discard
  <2> QED
    BY <1>1, <2>1, <2>2
<1>4. CASE ReceiveRequest
  <2>1. \/ spc' = "sending" /\ out' # <<>> /\ after' = "closing"
        \/ spc' = "sizing" /\ after' = after
    <3>1. SendError \/ Go("sizing")
      BY <1>4 DEF ReceiveRequest
    <3> QED
      BY <3>1 DEF SendError, Send, Go
  <2> QED
    BY <2>1 DEF Readable
<1>5. CASE NoRequest \/ TakeSize \/ CloseSocket
  <2>1. spc' \in {"closing", "dead", "hashing", "closed"} /\ after' = after
    BY <1>5 DEF NoRequest, TakeSize, CloseSocket, Go
  <2> QED
    BY <2>1 DEF Readable
<1>6. CASE TakeHash
  <2>1. spc' = "sending" /\ out' # <<>> /\ after' \in {"closing", "opening"}
    BY <1>6 DEF TakeHash, SendError, Send
  <2> QED
    BY <2>1 DEF Readable
<1>7. CASE OpenFile
  <2>1. UNCHANGED <<after, held, File>> /\ spc' \in {"closing", "reading"}
    BY <1>7 DEF OpenFile, Go, ServerUnchanged, clientVars, fileVars, File
  <2>2. spc' = "reading" => File # Absent
    BY <1>7 DEF OpenFile, Go
  <2> QED
    BY <2>1, <2>2 DEF Readable
<1>8. CASE ReadFile
  <2>1. UNCHANGED <<held, File>> /\ (held # Absent \/ File # Absent)
    BY <1>8 DEF ReadFile, ServerUnchanged, clientVars, fileVars, File, Readable
  <2>2. \/ spc' = "sending" /\ out' # <<>> /\ after' = "reading"
        \/ spc' = "closing" /\ after' = after
    BY <1>8 DEF ReadFile, Send, Go
  <2> QED
    BY <2>1, <2>2 DEF Readable
<1>9. CASE Push
  <2>1. UNCHANGED <<held, File, after>> /\ spc = "sending"
    BY <1>9 DEF Push, ServerUnchanged, clientVars, fileVars, File
  <2>2. out \in Seq(Traffic) /\ out # <<>>
    BY <2>1 DEF InOrder, Readable
  <2>3. spc' = "sending" => out' # <<>>
    <3>1. /\ Len(out) \in Nat /\ Len(out) # 0
          /\ Tail(out) \in Seq(Traffic) /\ Len(Tail(out)) = Len(out) - 1
      BY <2>2, HeadTailProperties, LenProperties, EmptySeq
    <3>2. out' = Tail(out) /\ (spc' = "sending" => Len(out) # 1)
      BY <1>9 DEF Push, Readable
    <3> QED
      BY <3>1, <3>2, EmptySeq
  <2>4. spc' \in {"sending", after}
    BY <1>9 DEF Push
  <2> QED
    BY <2>1, <2>3, <2>4 DEF Readable
<1>10. CASE PushLost
  <2>1. UNCHANGED <<held, File, after>> /\ spc = "sending"
    BY <1>10 DEF PushLost, ServerUnchanged, clientVars, fileVars, File
  <2>2. spc' \in {after, "closing", "dead"}
    BY <1>10 DEF PushLost
  <2> QED
    BY <2>1, <2>2 DEF Readable
<1>11. CASE FetchOpens \/ FetchWrites
  <2>1. UNCHANGED <<asked, spc, after, out, held, serving>>
    BY <1>11 DEF FetchOpens, FetchWrites, FetchUnchanged, clientVars, serverVars
  <2>2. source' # Absent
    <3>1. CASE FetchOpens
      BY <3>1, EmptySeq, ContentAssumption DEF FetchOpens, Contents
    <3>2. CASE FetchWrites
      BY <3>2, FetchWritten, ContentAssumption
    <3> QED
      BY <1>11, <3>1, <3>2
  <2>3. OtherFile # Absent
    BY ContentAssumption
  <2>4. File' # Absent
    BY <2>2, <2>3 DEF File
  <2> QED
    BY <2>1, <2>4 DEF Readable
<1>12. CASE FetchBreaks
  <2>1. UNCHANGED <<asked, spc, after, out, serving>>
    BY <1>12 DEF FetchBreaks, FetchUnchanged, clientVars, serverVars
  <2>2. CASE spc = "reading" \/ (spc = "sending" /\ after = "reading")
    <3>1. source # Absent /\ (held # Absent => held' = held)
      BY <1>12 DEF FetchBreaks
    <3>2. serving = asked.chunkId /\ held = Absent => held' = source
      BY <1>12, <2>2 DEF FetchBreaks
    <3>3. serving # asked.chunkId => File' # Absent
      BY <2>1, ContentAssumption DEF File
    <3> QED
      BY <2>1, <3>1, <3>2, <3>3 DEF Readable
  <2> QED
    BY <2>1, <2>2 DEF Readable
<1> QED
  BY <1>2, <1>3, <1>4, <1>5, <1>6, <1>7, <1>8, <1>9, <1>10, <1>11, <1>12
     DEF Next, ClientStep, ServerStep, FetchStep

\* The pieces there may be, while nothing they are made of changes.
LEMMA SameTraffic ==
    ASSUME UNCHANGED <<asked, serving, size, hashed>>
    PROVE  Traffic' = Traffic /\ DataPieces' = DataPieces
BY DEF Traffic, Part, Refusal, Answer, DataPieces, Block

LEMMA StillInOrder ==
    ASSUME InOrder, UNCHANGED <<wire, out, spc, asked, serving, size, hashed>>,
           cpc' \in Loading => cpc \in Loading,
           ok' => ok \/ cpc \in Loading
    PROVE  InOrder'
<1>1. Traffic' = Traffic /\ DataPieces' = DataPieces
  BY SameTraffic
<1>2. LineThenData(wire)' /\ LineThenData(out)'
  BY <1>1 DEF InOrder, LineThenData
<1>3. HeaderSent' => HeaderSent
  BY DEF HeaderSent, Loading
<1> QED
  BY <1>1, <1>2, <1>3 DEF InOrder, Early, Loading

\* Before the header is made there is nothing to be in order.
LEMMA NothingSent ==
    ASSUME wire' = <<>>, out' = <<>>, ~ok', cpc' \notin Loading
    PROVE  InOrder'
<1>1. <<>> \in Seq(Traffic') /\ Len(<<>>) = 0
  BY EmptySeq
<1>2. LineThenData(wire)' /\ LineThenData(out)' /\ ~HeaderSent'
  BY <1>1 DEF LineThenData, HeaderSent, Loading
<1> QED
  BY <1>1, <1>2 DEF InOrder, Loading

LEMMA FirstSent ==
    ASSUME wire' = <<>>, ~ok', cpc' \notin Loading, spc' = "sending",
           out' \in {<<Refusal>>, <<Part, Answer'>>}
    PROVE  InOrder'
<1>1. <<>> \in Seq(Traffic') /\ Len(<<>>) = 0
  BY EmptySeq
<1>2. Part \in Traffic' /\ Refusal \in Traffic' /\ Answer' \in Traffic'
  BY DEF Traffic, Refusal, Part
<1>3. out' \in Seq(Traffic')
  <2>1. <<Refusal>> \in Seq(Traffic') /\ <<Part, Answer'>> \in Seq(Traffic')
    BY <1>2
  <2> QED
    BY <2>1
<1>4. LineThenData(wire)' /\ ~HeaderSent'
  BY <1>1 DEF LineThenData, HeaderSent, Loading
<1>5. LineThenData(out)'
  BY PieceKinds DEF LineThenData
<1> QED
  BY <1>1, <1>3, <1>4, <1>5 DEF InOrder, Loading, Early

\* The client has taken some pieces.
LEMMA StillInOrderBehind ==
    ASSUME InOrder, NEW k \in 1..Len(wire),
           wire' = SubSeq(wire, k + 1, Len(wire)),
           UNCHANGED <<out, spc, asked, serving, size, hashed>>,
           cpc' \in Loading => HeaderSent /\ wire' \in Seq(DataPieces)
    PROVE  InOrder'
<1>1. Traffic' = Traffic /\ DataPieces' = DataPieces
  BY SameTraffic
<1>2. Len(wire) \in Nat /\ wire # <<>>
  BY LenProperties, EmptySeq DEF InOrder
<1>3. /\ Len(wire') = Len(wire) - k /\ wire' \in Seq(Traffic)
      /\ LineThenData(wire')
      /\ \A i \in 1..Len(wire) - k : wire'[i] = wire[i + k]
  BY TakenFromWire
<1>4. LineThenData(wire)' /\ LineThenData(out)'
  BY <1>1, <1>3 DEF InOrder, LineThenData
<1>5. HeaderSent' => HeaderSent
  <2>1. CASE cpc' \in Loading
    BY <2>1
  <2>2. ASSUME NEW i \in 1..Len(wire'), EndsLine(wire'[i]) PROVE HeaderSent
    <3>1. i + k \in 1..Len(wire) /\ EndsLine(wire[i + k])
      BY <1>2, <1>3, <2>2
    <3> QED
      BY <3>1 DEF HeaderSent
  <2> QED
    BY <2>1, <2>2 DEF HeaderSent, Loading
<1>6. spc \notin Early
  BY <1>2 DEF InOrder
<1> QED
  BY <1>1, <1>3, <1>4, <1>5, <1>6 DEF InOrder, Loading, Early

\* The server goes on after the header, with at most a block to send.
LEMMA SentInOrder ==
    ASSUME InOrder, UNCHANGED <<clientVars, wire, serving, size, hashed>>,
           spc \notin Early, spc' \notin Early,
           \/ out' = out /\ spc' # "sending"
           \/ out' = <<>> /\ spc' # "sending"
           \/ out' \in Seq(DataPieces) /\ Len(out') = 1
    PROVE  InOrder'
<1>1. /\ Traffic' = Traffic /\ DataPieces' = DataPieces
      /\ UNCHANGED <<cpc, wire>>
  BY SameTraffic DEF clientVars
<1>2. out' \in Seq(Traffic) /\ LineThenData(out)'
  <2>1. CASE out' = out
    BY <1>1, <2>1 DEF InOrder, LineThenData
  <2>2. CASE out' = <<>>
    BY <2>2, EmptySeq DEF LineThenData
  <2>3. CASE out' \in Seq(DataPieces) /\ Len(out') = 1
    <3>1. out' \in Seq(Traffic)
      BY <2>3, SeqMonotonic DEF Traffic
    <3> QED
      BY <2>3, <3>1 DEF LineThenData
  <2> QED
    BY <2>1, <2>2, <2>3
<1>3. LineThenData(wire)'
  BY <1>1 DEF InOrder, LineThenData
<1> QED
  BY <1>1, <1>2, <1>3 DEF InOrder, Loading

LEMMA PushInOrder == TransferInv /\ Push => InOrder'
<1> SUFFICES ASSUME TransferInv, Push PROVE InOrder'
  OBVIOUS
<1> USE DEF TransferInv
<1>1. /\ Traffic' = Traffic /\ DataPieces' = DataPieces
      /\ UNCHANGED <<cpc, ok>> /\ spc = "sending"
  BY SameTraffic DEF Push, ServerUnchanged, clientVars
<1>2. /\ out \in Seq(Traffic) /\ out # <<>> /\ wire \in Seq(Traffic)
      /\ Len(out) \in Nat /\ Len(wire) \in Nat /\ Len(out) # 0
  BY <1>1, LenProperties, EmptySeq DEF InOrder, Readable
<1> DEFINE p == Head(out)
           n == Len(wire) + 1
<1>3. wire' = Append(wire, p) /\ out' = Tail(out)
  BY DEF Push
<1>4. /\ p \in Traffic /\ p = out[1]
      /\ out' \in Seq(Traffic) /\ Len(out') = Len(out) - 1
      /\ \A i \in 1..Len(out') : out'[i] = out[i + 1]
  BY <1>2, <1>3, HeadTailProperties
<1>5. /\ wire' \in Seq(Traffic) /\ Len(wire') = n
      /\ \A i \in 1..Len(wire) : wire'[i] = wire[i]
      /\ wire'[n] = p
  BY <1>2, <1>3, <1>4, AppendProperties
<1> HIDE DEF p
<1>6. HeaderSent => /\ p \in DataPieces
                    /\ out' \in Seq(DataPieces)
  BY <1>1, <1>2, <1>3, HeadTailProperties DEF InOrder, p
<1>7. LineThenData(wire')
  <2> SUFFICES ASSUME NEW i \in 1..Len(wire'), NEW j \in 1..Len(wire'),
                      i < j, EndsLine(wire'[i])
               PROVE  wire'[j] \in DataPieces
    BY DEF LineThenData
  <2>1. i \in 1..Len(wire) /\ EndsLine(wire[i])
    BY <1>2, <1>5
  <2>2. CASE j = n
    BY <1>5, <1>6, <2>1, <2>2 DEF HeaderSent
  <2>3. CASE j # n
    <3>1. j \in 1..Len(wire) /\ wire'[j] = wire[j]
      BY <1>2, <1>5, <2>3
    <3> QED
      BY <2>1, <3>1 DEF InOrder, LineThenData
  <2> QED
    BY <2>2, <2>3
<1>8. LineThenData(out')
  <2> SUFFICES ASSUME NEW i \in 1..Len(out'), NEW j \in 1..Len(out'),
                      i < j, EndsLine(out'[i])
               PROVE  out'[j] \in DataPieces
    BY DEF LineThenData
  <2>1. i + 1 \in 1..Len(out) /\ j + 1 \in 1..Len(out) /\ i + 1 < j + 1
    BY <1>2, <1>4
  <2>2. out'[i] = out[i + 1] /\ out'[j] = out[j + 1]
    BY <1>4
  <2>3. LineThenData(out)
    BY DEF InOrder
  <2> QED
    BY <2>1, <2>2, <2>3 DEF LineThenData
<1>9. HeaderSent' => out' \in Seq(DataPieces)
  <2>1. CASE HeaderSent
    BY <1>6, <2>1
  <2>2. ASSUME HeaderSent', ~HeaderSent PROVE out' \in Seq(DataPieces)
    <3>1. PICK i \in 1..Len(wire') : EndsLine(wire'[i])
      BY <1>1, <2>2 DEF HeaderSent, Loading
    <3>2. i = n /\ EndsLine(out[1])
      BY <1>2, <1>4, <1>5, <2>2, <3>1 DEF HeaderSent
    <3>3. \A j \in 1..Len(out') : out'[j] \in DataPieces
      <4> SUFFICES ASSUME NEW j \in 1..Len(out') PROVE out'[j] \in DataPieces
        OBVIOUS
      <4>1. j + 1 \in 1..Len(out) /\ 1 \in 1..Len(out) /\ 1 < j + 1
        BY <1>2, <1>4
      <4>2. out'[j] = out[j + 1]
        BY <1>4
      <4> QED
        BY <3>2, <4>1, <4>2 DEF InOrder, LineThenData
    <3> QED
      BY <1>4, <3>3, SeqNarrow
  <2> QED
    BY <2>1, <2>2
<1>10. cpc \in Loading => wire' \in Seq(DataPieces)
  <2> SUFFICES ASSUME cpc \in Loading PROVE wire' \in Seq(DataPieces)
    OBVIOUS
  <2>1. wire \in Seq(DataPieces) /\ p \in DataPieces
    BY <1>6 DEF InOrder, HeaderSent
  <2> QED
    BY <1>3, <2>1, AppendProperties DEF p
<1>11. spc' \notin Early
  BY DEF Push, Early, Readable
<1>12. LineThenData(wire)' /\ LineThenData(out)'
  BY <1>1, <1>7, <1>8 DEF LineThenData
<1> QED
  BY <1>1, <1>4, <1>5, <1>9, <1>10, <1>11, <1>12 DEF InOrder, Loading

LEMMA InOrderStep == TransferInv /\ [Next]_vars => InOrder'
<1> SUFFICES ASSUME TransferInv, [Next]_vars PROVE InOrder'
  OBVIOUS
<1> USE DEF TransferInv
<1> DEFINE ServerSame == UNCHANGED <<out, spc, serving, size, hashed>>
<1>1. CASE Connect
  <2>1. wire = <<>> /\ out = <<>> /\ ~ok
    BY <1>1 DEF Connect, Agreed, InOrder, Early
  <2>2. UNCHANGED <<wire, out, ok>> /\ cpc' \notin Loading
    BY <1>1 DEF Connect, GiveUp, Loading
  <2> QED
    BY <2>1, <2>2, NothingSent
<1>2. CASE SendRequest \/ NoHeader \/ Open \/ Flush \/ ReceiveEnds
  <2>1. ServerSame /\ UNCHANGED wire
    BY <1>2 DEF SendRequest, NoHeader, Open, Flush, ReceiveEnds, ClientUnchanged,
       serverVars
  <2>2. UNCHANGED <<asked, ok>> /\ (cpc' \in Loading => cpc \in Loading)
    BY <1>2 DEF SendRequest, NoHeader, Open, Flush, ReceiveEnds, GiveUp, Discard,
       Loading
  <2> QED
    BY <2>1, <2>2, StillInOrder
<1>3. CASE Compare
  <2>1. ServerSame /\ UNCHANGED wire
    BY <1>3 DEF Compare, ClientUnchanged, serverVars
  <2>2. UNCHANGED asked /\ cpc \in Loading /\ cpc' \notin Loading
    BY <1>3 DEF Compare, Discard, Loading
  <2> QED
    BY <2>1, <2>2, StillInOrder
<1>4. CASE ReadHeader
  <2>1. ServerSame /\ cpc = "header"
    BY <1>4 DEF ReadHeader, ClientUnchanged, serverVars
  <2>2. PICK k \in 1..Len(wire) :
          /\ wire' = SubSeq(wire, k + 1, Len(wire))
          /\ \/ UNCHANGED clientVars
             \/ \E i \in 1..k :
                   /\ EndsLine(wire[i])
                   /\ ParseMessage(wire[i].message).type = "CHUNK"
                   /\ UNCHANGED asked
             \/ GiveUp
    BY <1>4 DEF ReadHeader
  <2>3. CASE UNCHANGED clientVars \/ GiveUp
    <3>1. UNCHANGED asked /\ cpc' \notin Loading
      BY <2>1, <2>3 DEF clientVars, GiveUp, Loading
    <3> QED
      BY <2>1, <2>2, <3>1, StillInOrderBehind
  <2>4. CASE \E i \in 1..k :
               /\ EndsLine(wire[i])
               /\ ParseMessage(wire[i].message).type = "CHUNK"
               /\ UNCHANGED asked
    <3>1. PICK i \in 1..k :
            /\ EndsLine(wire[i])
            /\ ParseMessage(wire[i].message).type = "CHUNK"
            /\ UNCHANGED asked
      BY <2>4
    <3>2. wire' \in Seq(DataPieces)
      BY <2>1, <2>2, <3>1, HeaderRead
    <3>3. i \in 1..Len(wire)
      BY LenProperties DEF InOrder
    <3>4. HeaderSent
      BY <3>1, <3>3 DEF HeaderSent
    <3> QED
      BY <2>1, <2>2, <3>1, <3>2, <3>4, StillInOrderBehind
  <2> QED
    BY <2>2, <2>3, <2>4
<1>5. CASE Receive
  <2>1. ServerSame /\ UNCHANGED asked /\ cpc = "receiving"
    BY <1>5 DEF Receive, Discard, ClientUnchanged, serverVars
  <2>2. PICK k \in 1..Lowest(remaining, Len(wire)) :
          wire' = SubSeq(wire, k + 1, Len(wire))
    BY <1>5 DEF Receive
  <2>3. k \in 1..Len(wire)
    BY LenProperties, LimitsAssumption DEF Lowest, InOrder, TypeOK
  <2>4. HeaderSent /\ wire' \in Seq(DataPieces)
    BY <2>1, <2>2, <2>3, BlocksRead DEF HeaderSent, Loading
  <2> QED
    BY <2>1, <2>2, <2>3, <2>4, StillInOrderBehind
<1>6. CASE ReceiveRequest \/ TakeSize \/ TakeHash \/ NoRequest
  <2>1. wire = <<>> /\ out = <<>> /\ ~ok /\ cpc \notin Loading
    BY <1>6 DEF ReceiveRequest, TakeSize, TakeHash, NoRequest, InOrder, Early
  <2>2. wire' = <<>> /\ ~ok' /\ cpc' \notin Loading /\ UNCHANGED asked
    <3>1. UNCHANGED <<clientVars, wire>>
      BY <1>6 DEF ReceiveRequest, TakeSize, TakeHash, NoRequest, ServerUnchanged
    <3> QED
      BY <2>1, <3>1 DEF clientVars
  <2>3. \/ UNCHANGED out
        \/ spc' = "sending" /\ out' \in {<<Refusal>>, <<Part, Answer'>>}
    <3>1. CASE ReceiveRequest
      <4>1. SendError \/ Go("sizing")
        BY <3>1 DEF ReceiveRequest
      <4> QED
        BY <4>1 DEF SendError, Send, Go, Refusal
    <3>2. CASE NoRequest \/ TakeSize
      BY <3>2 DEF NoRequest, TakeSize, Go
    <3>3. CASE TakeHash
      <4>1. \/ SendError
            \/ /\ Send(<<Part, Line(BuildChunkMessage(asked.fileId, serving, size,
                                                     HashOf(File)))>>, "opening")
               /\ hashed' = File
        BY <3>3 DEF TakeHash
      <4>2. UNCHANGED <<serving, size>>
        BY <3>3 DEF TakeHash
      <4>3. CASE SendError
        BY <4>3 DEF SendError, Send, Refusal
      <4>4. ASSUME Send(<<Part, Line(BuildChunkMessage(asked.fileId, serving, size,
                                                     HashOf(File)))>>, "opening"),
                   hashed' = File
            PROVE  spc' = "sending" /\ out' = <<Part, Answer'>>
        <5>1. Answer' = Line(BuildChunkMessage(asked.fileId, serving, size,
                                               HashOf(hashed')))
          BY <2>2, <4>2 DEF Answer, Line, BuildChunkMessage, HashOf
        <5> QED
          BY <4>4, <5>1 DEF Send
      <4> QED
        BY <4>1, <4>3, <4>4
    <3> QED
      BY <1>6, <3>1, <3>2, <3>3
  <2> QED
    BY <2>1, <2>2, <2>3, NothingSent, FirstSent
<1>7. CASE OpenFile \/ CloseSocket
  <2>1. UNCHANGED <<clientVars, wire, out, serving, size, hashed>>
    BY <1>7 DEF OpenFile, CloseSocket, ServerUnchanged, Go
  <2>2. spc \notin Early /\ spc' \notin Early /\ spc' # "sending"
    BY <1>7 DEF OpenFile, CloseSocket, Go, Early
  <2> QED
    BY <2>1, <2>2, SentInOrder
<1>8. CASE PushLost
  <2>1. UNCHANGED <<clientVars, wire, serving, size, hashed>> /\ out' = <<>>
    BY <1>8 DEF PushLost, ServerUnchanged
  <2>2. spc \notin Early /\ spc' \notin Early /\ spc' # "sending"
    BY <1>8 DEF PushLost, Readable, Early
  <2> QED
    BY <2>1, <2>2, SentInOrder
<1>9. CASE ReadFile
  <2>1. UNCHANGED <<clientVars, wire, serving, size, hashed>> /\ spc = "reading"
    BY <1>9 DEF ReadFile, ServerUnchanged
  <2> DEFINE content == IF held # Absent THEN held ELSE File
  <2>2. content \in Seq(Block) /\ Len(content) \in Nat
    BY <2>1, FileIsContent, LenProperties DEF Readable, TypeOK, Contents
  <2>3. \/ spc' = "closing" /\ UNCHANGED out
        \/ /\ pos < Len(content) /\ spc' = "sending"
           /\ out' = <<Data(content[pos + 1])>>
    BY <1>9 DEF ReadFile, Send, Go
  <2> HIDE DEF content
  <2>4. ASSUME pos < Len(content), out' = <<Data(content[pos + 1])>>
        PROVE  out' \in Seq(DataPieces) /\ Len(out') = 1
    <3>1. pos + 1 \in 1..Len(content)
      BY <2>2, <2>4 DEF TypeOK
    <3>2. Data(content[pos + 1]) \in DataPieces
      BY <2>2, <3>1, ElementOfSeq, PieceKinds
    <3> QED
      BY <2>4, <3>2
  <2> QED
    BY <2>1, <2>3, <2>4, SentInOrder DEF Early
<1>10. CASE Push
  BY <1>10, PushInOrder
<1>11. CASE FetchStep \/ Over \/ UNCHANGED vars
  <2>1. UNCHANGED <<clientVars, wire, out, spc, serving, size, hashed>>
    BY <1>11 DEF FetchStep, FetchOpens, FetchWrites, FetchBreaks, Over, vars,
       FetchUnchanged, serverVars
  <2> QED
    BY <2>1, StillInOrder DEF clientVars
<1> QED
  BY <1>1, <1>2, <1>3, <1>4, <1>5, <1>6, <1>7, <1>8, <1>9, <1>10, <1>11
     DEF Next, ClientStep, ServerStep

LEMMA StepInv == TransferInv /\ [Next]_vars => TransferInv'
BY TypeStep, InOrderStep, AgreedStep, FilledStep, ReadableStep DEF TransferInv

LEMMA SpecInv == Spec => []TransferInv
BY InitInv, StepInv, PTL DEF Spec

-----------------------------------------------------------------------------
(* What the server takes the request for *)

LEMMA ParsedRequest ==
    ASSUME NEW words, ParseMessage(words).type = "REQUEST"
    PROVE  /\ Len(words) >= 3 /\ Number(words[3]) \in 0..kMaxChunkId
           /\ ParseMessage(words).chunkId = Number(words[3])
<1> DEFINE Id == Number(words[3]) \in 0..kMaxChunkId
           Size == Number(words[4]) \in 1..kMaxChunkSize
           request_ == Len(words) >= 3 /\ words[1] = Name("REQUEST") /\ Id
           chunk == Len(words) >= 5 /\ words[1] = Name("CHUNK") /\ Id /\ Size
<1>1. request_ => ParseMessage(words).chunkId = Number(words[3])
  <2> SUFFICES ASSUME request_ PROVE ParseMessage(words).chunkId = Number(words[3])
    OBVIOUS
  <2>1. words[1] # Name("CHUNK") /\ words[1] # Name("ERROR")
    BY DEF Name
  <2>2. ParseMessage(words) = [Valid("REQUEST") EXCEPT !.fileId = <<words[2]>>,
                                                       !.chunkId = Number(words[3])]
    BY <2>1 DEF ParseMessage
  <2> QED
    BY <2>2 DEF Valid, Unknown
<1>2. chunk => ParseMessage(words).type = "CHUNK"
  <2> SUFFICES ASSUME chunk PROVE ParseMessage(words).type = "CHUNK"
    OBVIOUS
  <2>1. words[1] # Name("REQUEST") /\ words[1] # Name("ERROR")
    BY DEF Name
  <2> QED
    BY <2>1 DEF ParseMessage, Valid, Unknown
<1>3. ~request_ /\ ~chunk => ParseMessage(words).type # "REQUEST"
  BY DEF ParseMessage, Valid, Unknown
<1> QED
  BY <1>1, <1>2, <1>3

\* A message of three words.
LEMMA RequestWords ==
    ASSUME NEW fileId, fileId \in Seq(Range(fileId)), Len(fileId) = 1, NEW n
    PROVE  LET sent == BuildRequestMessage(fileId, n)
           IN  \E S : sent \in Seq(S) /\ Len(sent) = 3 /\ sent[3] = Numeral(n)
<1> DEFINE start == <<Name("REQUEST")>>
           end == <<Numeral(n)>>
           S == Range(fileId) \cup {Name("REQUEST"), Numeral(n)}
           front == start \o fileId
<1>1. fileId \in Seq(S)
  BY SeqMonotonic
<1>2. start \in Seq(S) /\ Len(start) = 1
  OBVIOUS
<1>3. end \in Seq(S) /\ Len(end) = 1 /\ end[1] = Numeral(n)
  OBVIOUS
<1>4. BuildRequestMessage(fileId, n) = front \o end
  BY Zenon DEF BuildRequestMessage
<1> HIDE DEF start, end, S
<1>5. front \in Seq(S) /\ Len(front) = 2
  <2>1. front \in Seq(S) /\ Len(front) = Len(start) + Len(fileId)
    BY <1>1, <1>2, ConcatProperties, Zenon
  <2> QED
    BY <1>2, <2>1
<1> HIDE DEF front
<1>6. /\ front \o end \in Seq(S) /\ Len(front \o end) = Len(front) + Len(end)
      /\ \A i \in 1..Len(front) + Len(end) :
            (front \o end)[i] = IF i <= Len(front) THEN front[i] ELSE end[i - Len(front)]
  BY <1>3, <1>5, ConcatProperties, Zenon
<1>7. (front \o end)[3] = end[1] /\ Len(front \o end) = 3
  <2>1. 3 \in 1..Len(front) + Len(end) /\ ~(3 <= Len(front)) /\ 3 - Len(front) = 1
    BY <1>3, <1>5
  <2>2. (front \o end)[3] = end[1]
    BY <1>6, <2>1, Zenon
  <2> QED
    BY <1>3, <1>5, <1>6, <2>2
<1> QED
  BY <1>3, <1>4, <1>6, <1>7

\* Of the pieces of a request only those with a third word read as a request: the
\* whole, or one whose number lacks its last digits.
LEMMA RequestUnderstood ==
    ASSUME NEW fileId, fileId \in Seq(Range(fileId)), Len(fileId) = 1,
           NEW n \in 0..MaxInt,
           NEW piece \in Pieces(BuildRequestMessage(fileId, n)), Len(piece) >= 3
    PROVE  /\ piece = BuildRequestMessage(fileId, n) => Number(piece[3]) = n
           /\ \E k \in 0..9 : Number(piece[3]) = n \div 10^k
<1> DEFINE sent == BuildRequestMessage(fileId, n)
<1>1. PICK S : sent \in Seq(S) /\ Len(sent) = 3 /\ sent[3] = Numeral(n)
  BY RequestWords
<1> HIDE DEF sent
<1>2. piece = sent => Number(piece[3]) = n
  BY <1>1, WholeNumeral
<1>3. n \div 10^0 = n
  BY SMT
<1>4. CASE \E k \in 1..Len(sent) : piece = SubSeq(sent, 1, k)
  <2>1. PICK k \in 1..3 : piece = SubSeq(sent, 1, k)
    BY <1>1, <1>4
  <2>2. Len(piece) = k
    <3>1. 1 \in 1..Len(sent) + 1 /\ k \in 0..Len(sent)
      BY <1>1
    <3> QED
      BY <1>1, <2>1, <3>1, SubSeqFacts
  <2>3. k = 3
    BY <2>2
  <2>4. piece = sent
    BY <1>1, <2>1, <2>3, SubSeqFull
  <2> QED
    BY <1>2, <1>3, <2>4 DEF sent
<1>5. CASE \E k \in 1..Len(sent) :
             \E d \in 1..(Len(sent[k].digits) - 1) :
                piece = Append(SubSeq(sent, 1, k - 1),
                               [sent[k] EXCEPT !.digits = SubSeq(@, 1, d)])
  <2>1. PICK k \in 1..3 : \E d \in 1..(Len(sent[k].digits) - 1) :
                piece = Append(SubSeq(sent, 1, k - 1),
                               [sent[k] EXCEPT !.digits = SubSeq(@, 1, d)])
    BY <1>1, <1>5
  <2>2. PICK d \in 1..(Len(sent[k].digits) - 1) :
                piece = Append(SubSeq(sent, 1, k - 1),
                               [sent[k] EXCEPT !.digits = SubSeq(@, 1, d)])
    BY <2>1
  <2> DEFINE front == SubSeq(sent, 1, k - 1)
             word == [sent[k] EXCEPT !.digits = SubSeq(@, 1, d)]
  <2>3. front \in Seq(S) /\ Len(front) = k - 1
    <3> DEFINE m == k - 1
    <3>1. 1 \in 1..Len(sent) + 1 /\ m \in 0..Len(sent)
      BY <1>1
    <3> HIDE DEF m
    <3>2. SubSeq(sent, 1, m) \in Seq(S)
      BY <1>1, <3>1, SubSeqFacts
    <3>3. Len(SubSeq(sent, 1, m)) = m
      BY <1>1, <3>1, SubSeqFacts
    <3> QED
      BY <3>2, <3>3 DEF m
  <2> HIDE DEF front, word
  <2>4. Len(piece) = k /\ piece[k] = word
    <3>1. front \in Seq(S \cup {word}) /\ word \in S \cup {word}
      BY <2>3, SeqMonotonic
    <3>2. piece = Append(front, word)
      BY <2>2 DEF front, word
    <3>3. Len(piece) = Len(front) + 1 /\ piece[Len(front) + 1] = word
      BY <3>1, <3>2, AppendProperties, LenProperties
    <3>4. Len(front) + 1 = k
      BY <2>3
    <3> QED
      BY <3>3, <3>4
  <2>5. k = 3
    BY <2>4
  <2>6. d \in 1..(Len(Numeral(n).digits) - 1)
    BY <1>1, <2>5
  <2>7. word.digits = SubSeq(Numeral(n).digits, 1, d)
    <3>1. word = [Numeral(n) EXCEPT !.digits = SubSeq(@, 1, d)]
      BY <1>1, <2>5 DEF word
    <3>2. Numeral(n) = [text |-> "", digits |-> Numeral(n).digits]
      BY DEF Numeral
    <3> QED
      BY <3>1, <3>2
  <2>8. Width(n) \in 1..10 /\ d \in 1..Width(n) /\ Width(n) - d \in 0..9
    <3>1. Width(n) \in 1..10 /\ Len(Numeral(n).digits) = Width(n)
      BY WidthOf, NumeralDigits
    <3>2. \A w \in 1..10 : \A e \in 1..(w - 1) : e \in 1..w /\ w - e \in 0..9
      OBVIOUS
    <3>3. d \in 1..(Width(n) - 1)
      BY <2>6, <3>1, Zenon
    <3> QED
      BY <3>1, <3>2, <3>3, Zenon
  <2>9. Number(word) = n \div 10^(Width(n) - d)
    BY <2>7, <2>8, CutNumeral
  <2> QED
    BY <1>2, <2>4, <2>5, <2>8, <2>9 DEF sent
<1> QED
  BY <1>4, <1>5 DEF Pieces, sent

\* The consequent of AcceptedWasAsked.
Meant == \/ whole /\ serving = asked.chunkId /\ serving <= kMaxChunkId
         \/ ~whole /\ \E k \in 0..9 : serving = asked.chunkId \div 10^k

\* From the request on; what is hashed is what is accepted.
Understood ==
    /\ spc \in Early => hashed = Absent
    /\ spc \in {"sizing", "hashing"} \/ hashed # Absent => Meant
    /\ ok => hashed # Absent

LEMMA UnderstoodStep == TransferInv /\ Understood /\ [Next]_vars => Understood'
<1> SUFFICES ASSUME TransferInv, Understood, [Next]_vars PROVE Understood'
  OBVIOUS
<1>1. CASE ReceiveRequest
  <2> DEFINE sent == BuildRequestMessage(asked.fileId, asked.chunkId)
  <2>1. /\ hashed = Absent /\ hashed' = Absent /\ ok' = ok /\ asked' = asked
        /\ request = "sent"
    BY <1>1 DEF ReceiveRequest, ServerUnchanged, clientVars, Understood, Early
  <2>2. ~ok
    BY <2>1 DEF Understood
  <2>3. /\ Len(asked.fileId) = 1 /\ asked \in Requests
        /\ asked.fileId \in Seq(Range(asked.fileId)) /\ asked.chunkId \in 0..MaxInt
    BY <2>1, RequestsAssumption DEF TransferInv, Agreed, TypeOK
  <2>4. PICK piece \in Pieces(sent) :
          /\ whole' \in {FALSE, piece = sent}
          /\ serving' = ParseMessage(piece).chunkId
          /\ \/ spc' = "sending"
             \/ ParseMessage(piece).type = "REQUEST"
    BY <1>1 DEF ReceiveRequest, SendError, Send
  <2>5. ASSUME spc' \in {"sizing", "hashing"} PROVE Meant'
    <3>1. /\ Len(piece) >= 3 /\ Number(piece[3]) \in 0..kMaxChunkId
          /\ serving' = Number(piece[3])
      BY <2>4, <2>5, ParsedRequest
    <3>2. /\ piece = sent => serving' = asked.chunkId
          /\ \E k \in 0..9 : serving' = asked.chunkId \div 10^k
      BY <2>3, <3>1, RequestUnderstood
    <3>3. serving' <= kMaxChunkId
      BY <3>1, LimitsAssumption
    <3> QED
      BY <2>1, <2>4, <3>2, <3>3 DEF Meant
  <2> QED
    BY <2>1, <2>2, <2>5 DEF Understood
<1>2. CASE TakeHash
  <2>1. UNCHANGED <<whole, serving, asked, ok>> /\ spc = "hashing" /\ spc' = "sending"
    BY <1>2 DEF TakeHash, ServerUnchanged, clientVars, SendError, Send
  <2>2. hashed = Absent /\ Meant /\ ~ok
    BY <2>1 DEF Understood, Early
  <2> QED
    BY <2>1, <2>2 DEF Understood, Early, Meant
<1>3. CASE NoRequest
  <2>1. hashed = Absent /\ hashed' = Absent /\ ok' = ok /\ spc' = "closing"
    BY <1>3 DEF NoRequest, ServerUnchanged, clientVars, Go, Understood, Early
  <2> QED
    BY <2>1 DEF Understood, Early
<1>4. CASE TakeSize
  <2>1. UNCHANGED <<whole, serving, asked, ok, hashed>> /\ spc = "sizing"
    BY <1>4 DEF TakeSize, ServerUnchanged, clientVars
  <2> QED
    BY <2>1 DEF Understood, Early, Meant
<1>5. CASE OpenFile \/ ReadFile \/ Push \/ PushLost \/ CloseSocket
  <2>1. UNCHANGED <<whole, serving, asked, ok, hashed>>
    BY <1>5 DEF OpenFile, ReadFile, Push, PushLost, CloseSocket, ServerUnchanged,
       clientVars
  <2>2. spc' \notin Early
    BY <1>5 DEF OpenFile, ReadFile, Push, PushLost, CloseSocket, Send, Go, Early,
       TransferInv, Readable
  <2> QED
    BY <2>1, <2>2 DEF Understood, Meant, Early
<1>6. CASE Connect
  <2>1. UNCHANGED <<whole, serving, asked, ok, hashed>>
    BY <1>6 DEF Connect, GiveUp, fileVars
  <2>2. spc = "idle" /\ spc' \in {"idle", "receiving"}
    BY <1>6 DEF Connect, TransferInv, Agreed
  <2> QED
    BY <2>1, <2>2 DEF Understood, Meant, Early
<1>7. CASE SendRequest \/ ReadHeader \/ NoHeader \/ Open \/ Flush \/ Receive \/ ReceiveEnds
  <2>1. UNCHANGED <<serverVars, asked, ok>>
    BY <1>7 DEF SendRequest, ReadHeader, NoHeader, Open, Flush, Receive, ReceiveEnds,
       ClientUnchanged, GiveUp, Discard, clientVars
  <2> QED
    BY <2>1 DEF serverVars, Understood, Meant
<1>8. CASE Compare
  <2>1. UNCHANGED <<serverVars, asked>>
    BY <1>8 DEF Compare, ClientUnchanged, Discard
  <2>2. ok' => ok \/ hashed # Absent
    <3>1. output \in Contents /\ head.chunkHash = HashOf(hashed)
      BY <1>8 DEF Compare, TransferInv, Filled, Agreed, Loading
    <3>2. ok' => ok \/ HashOf(output) = head.chunkHash
      BY <1>8 DEF Compare, Discard
    <3> QED
      BY <3>1, <3>2, HashesTellApart, ContentAssumption
  <2> QED
    BY <2>1, <2>2 DEF serverVars, Understood, Meant
<1>9. CASE FetchStep \/ Over \/ UNCHANGED vars
  <2>1. UNCHANGED <<clientVars, serverVars>>
    BY <1>9 DEF FetchStep, FetchOpens, FetchWrites, FetchBreaks, Over, vars,
       FetchUnchanged
  <2> QED
    BY <2>1 DEF clientVars, serverVars, Understood, Meant
<1> QED
  BY <1>1, <1>2, <1>3, <1>4, <1>5, <1>6, <1>7, <1>8, <1>9
     DEF Next, ClientStep, ServerStep

LEMMA SpecUnderstood == Spec => [](TransferInv /\ Understood)
<1>1. Init => TransferInv /\ Understood
  BY InitInv DEF Init, Understood, Early
<1>2. TransferInv /\ Understood /\ [Next]_vars => (TransferInv /\ Understood)'
  BY StepInv, UnderstoodStep
<1> QED
  BY <1>1, <1>2, PTL DEF Spec

-----------------------------------------------------------------------------
(* Theorems *)

\* The locals of both sides keep their types; in particular `remaining`, a
\* size_t from which what was received is taken away, never goes below zero.
THEOREM TypeCorrect == Spec => []TypeOK
<1>1. TransferInv => TypeOK
  BY DEF TransferInv
<1> QED
  BY <1>1, SpecInv, PTL

\* What requestChunkFromPeer accepts is, block for block, the file the server had
\* when it made the hash of the header, whatever is written to it meanwhile.
THEOREM AcceptedIsServed == Spec => []AcceptedWasServed
<1>1. TransferInv => AcceptedWasServed
  BY DEF TransferInv, Agreed, AcceptedWasServed
<1> QED
  BY <1>1, SpecInv, PTL

\* However the request was cut on its way, what is accepted is the chunk asked
\* for, or the one whose number the server had received so far; a request read as
\* a whole is never taken for another, whatever the digits of its number.
THEOREM AcceptedIsAsked == Spec => []AcceptedWasAsked
<1>1. Understood => AcceptedWasAsked
  BY DEF Understood, Meant, AcceptedWasAsked
<1> QED
  BY <1>1, SpecUnderstood, PTL

-----------------------------------------------------------------------------
(* The refinement of ChunkRequest *)

LEMMA AbsentIsNoContent ==
    /\ <<>> # Absent /\ Chunk # Absent
    /\ output' = Absent => ChunkFile' = "absent"
<1>1. <<>> # Absent /\ Chunk # Absent
  BY EmptySeq, ContentAssumption DEF Contents
<1> QED
  BY <1>1 DEF ChunkFile

LEMMA RequestInitially == Init => Request!RequestInit
<1>1. <<>> # Absent /\ Chunk # Absent
  BY AbsentIsNoContent
<1> QED
  BY <1>1 DEF Init, Request!RequestInit, Phase, ChunkFile

\* The three ways a step of the client may end the request.
LEMMA GivesUp ==
    ASSUME TransferInv, GiveUp, cpc \in {"connecting", "requesting", "header", "opening"}
    PROVE  Request!Refused
BY DEF TransferInv, Filled, GiveUp, Request!Refused, Phase, ChunkFile

LEMMA Discards ==
    ASSUME Discard, cpc \in {"flushing", "receiving"}
    PROVE  Request!ReceiveBreaks
BY AbsentIsNoContent DEF Discard, Request!ReceiveBreaks, Phase

\* What is written to the file of a chunk while it is received.
LEMMA Writes ==
    ASSUME cpc \in {"flushing", "receiving"}, cpc' = "receiving", ok' = ok,
           output \in Contents, output' \in Contents,
           output' = <<>> => output = <<>>
    PROVE  Request!ReceiveSome \/ UNCHANGED Request!requestVars
<1>1. Phase = "receiving" /\ Phase' = "receiving"
  BY DEF Phase
<1>2. output # Absent /\ output' # Absent
  BY ContentAssumption
<1>3. /\ ChunkFile = IF output = <<>> THEN "empty" ELSE "wrong"
      /\ ChunkFile' = IF output' = <<>> THEN "empty" ELSE "wrong"
  BY <1>2 DEF ChunkFile
<1> QED
  BY <1>1, <1>3 DEF Request!ReceiveSome, Request!requestVars

\* Every step of the two peers is a step of the request or none of its business.
LEMMA RequestSteps ==
    TransferInv /\ [Next]_vars => [Request!RequestNext]_(Request!requestVars)
<1> SUFFICES ASSUME TransferInv, [Next]_vars
             PROVE  Request!RequestNext \/ UNCHANGED Request!requestVars
  OBVIOUS
<1> USE DEF TransferInv
<1>1. CASE UNCHANGED <<cpc, output, ok>>
  BY <1>1 DEF Request!requestVars, Phase, ChunkFile
<1>2. CASE Connect \/ SendRequest \/ NoHeader
  <2>1. cpc \in {"connecting", "requesting", "header"}
    BY <1>2 DEF Connect, SendRequest, NoHeader
  <2>2. \/ GiveUp
        \/ cpc' \in {"requesting", "header"} /\ UNCHANGED <<output, ok>>
    BY <1>2 DEF Connect, SendRequest, NoHeader
  <2>3. CASE GiveUp
    BY <2>1, <2>3, GivesUp DEF Request!RequestNext
  <2>4. CASE cpc' \in {"requesting", "header"} /\ UNCHANGED <<output, ok>>
    BY <2>1, <2>4 DEF Request!requestVars, Phase, ChunkFile
  <2> QED
    BY <2>2, <2>3, <2>4
<1>3. CASE ReadHeader
  <2>1. cpc = "header"
    BY <1>3 DEF ReadHeader
  <2>2. \/ GiveUp
        \/ UNCHANGED clientVars
        \/ cpc' = "opening" /\ UNCHANGED <<output, ok>>
    BY <1>3 DEF ReadHeader
  <2>3. CASE GiveUp
    BY <2>1, <2>3, GivesUp DEF Request!RequestNext
  <2>4. CASE cpc' = "opening" /\ UNCHANGED <<output, ok>>
    BY <2>1, <2>4 DEF Request!requestVars, Phase, ChunkFile
  <2> QED
    BY <1>1, <2>2, <2>3, <2>4 DEF clientVars
<1>4. CASE Open
  <2>1. CASE GiveUp
    BY <1>4, <2>1, GivesUp DEF Open, Request!RequestNext
  <2>2. CASE output' = <<>> /\ cpc' = "flushing" /\ ok' = ok
    <3>1. <<>> # Absent
      BY EmptySeq, ContentAssumption DEF Contents
    <3>2. Request!OpenChunk
      BY <1>4, <2>2, <3>1 DEF Open, Request!OpenChunk, Phase, ChunkFile
    <3> QED
      BY <3>2 DEF Request!RequestNext
  <2> QED
    BY <1>4, <2>1, <2>2 DEF Open
<1>5. CASE Flush
  <2>1. cpc = "flushing"
    BY <1>5 DEF Flush
  <2>2. CASE Discard
    BY <2>1, <2>2, Discards DEF Request!RequestNext
  <2>3. CASE /\ output' = SubSeq(payload, 1, Lowest(remaining, Len(payload)))
             /\ cpc' = "receiving" /\ ok' = ok
    <3>1. output' \in Contents /\ output = <<>> /\ output \in Contents
      BY <2>1, <2>3, Flushed, EmptySeq DEF Filled, Contents
    <3> QED
      BY <2>1, <2>3, <3>1, Writes DEF Request!RequestNext
  <2> QED
    BY <1>5, <2>2, <2>3 DEF Flush
<1>6. CASE Receive
  <2>1. cpc = "receiving" /\ output \in Contents
    BY <1>6 DEF Receive, Filled
  <2>2. PICK k \in 1..Lowest(remaining, Len(wire)) :
          \/ /\ output' = output \o Blocks(SubSeq(wire, 1, k))
             /\ UNCHANGED <<cpc, ok>>
          \/ Discard
    BY <1>6 DEF Receive
  <2>3. k \in 1..Len(wire)
    BY LenProperties, LimitsAssumption DEF Lowest, InOrder, TypeOK
  <2>4. CASE Discard
    BY <2>1, <2>4, Discards DEF Request!RequestNext
  <2>5. CASE /\ output' = output \o Blocks(SubSeq(wire, 1, k))
             /\ UNCHANGED <<cpc, ok>>
    <3>1. output' \in Contents /\ Len(output') = Len(output) + k
      BY <2>1, <2>3, <2>5, BlocksRead
    <3>2. output' # <<>>
      BY <2>1, <2>3, <3>1, LenProperties, EmptySeq DEF Contents
    <3> QED
      BY <2>1, <2>5, <3>1, <3>2, Writes DEF Request!RequestNext
  <2> QED
    BY <2>2, <2>4, <2>5
<1>7. CASE ReceiveEnds
  BY <1>7, Discards DEF ReceiveEnds, Request!RequestNext
<1>8. CASE Compare
  <2>1. CASE Discard
    BY <1>8, <2>1, Discards DEF Compare, Request!RequestNext
  <2>2. CASE ok' = TRUE /\ cpc' = "returned" /\ UNCHANGED output
    <3>1. output \in Contents /\ Len(output) + 0 > 0
      BY <1>8 DEF Compare, Filled
    <3>2. output # <<>> /\ output # Absent
      BY <3>1, EmptySeq, ContentAssumption
    <3>3. ChunkFile' \in {"good", "wrong"}
      BY <2>2, <3>2 DEF ChunkFile
    <3>4. Request!ReceiveAll
      BY <1>8, <2>2, <3>3 DEF Compare, Phase, Request!ReceiveAll
    <3> QED
      BY <3>4 DEF Request!RequestNext
  <2> QED
    BY <1>8, <2>1, <2>2 DEF Compare
<1>9. CASE ServerStep \/ FetchStep \/ Over \/ UNCHANGED vars
  <2>1. UNCHANGED clientVars
    BY <1>9 DEF vars, Over, ServerStep, ServerUnchanged, ReceiveRequest, NoRequest,
       TakeSize, TakeHash, OpenFile, ReadFile, Push, PushLost, CloseSocket,
       FetchStep, FetchUnchanged, FetchOpens, FetchWrites, FetchBreaks
  <2> QED
    BY <1>1, <2>1 DEF clientVars
<1> QED
  BY <1>2, <1>3, <1>4, <1>5, <1>6, <1>7, <1>8, <1>9 DEF Next, ClientStep

\* Whatever both peers and the network do, the caller of requestChunkFromPeer sees
\* the file of the chunk change as ChunkRequest says, and in no other way: nothing
\* before it is opened, gone if the call fails, and some content if it does not.
THEOREM RequestImplemented == Spec => ImplementsChunkRequest
BY RequestInitially, RequestSteps, SpecInv, PTL
   DEF Spec, ImplementsChunkRequest, Request!RequestSpec
=============================================================================
