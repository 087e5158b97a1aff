--------------------------- MODULE FileSharingProofs ---------------------------
(***************************************************************************)
(* Proofs about FileSharing, for any versions of the file, any size of a   *)
(* chunk and any number of edits and faults.                               *)
(*                                                                         *)
(* Both properties are about two processes that do not wait for each       *)
(* other, and neither needs to know what the other is at: a count vouches  *)
(* for the chunks of the split that returned it, and what the download     *)
(* returns is vouched for by the hash alone.                               *)
(***************************************************************************)
EXTENDS FileSharing, SequenceTheorems, TLAPS

Complete(i) ==
    \/ chunks[i] = Piece(source, i)
    \/ i + 1 = NumChunks(source) /\ Len(Piece(source, i)) < chunkSize

\* How far a split has got: the chunks behind it are complete.
SplitSoFar ==
    /\ spc \in {"reading", "writing", "split"} => source \in Versions
    /\ spc \in {"reading", "writing"} =>
          /\ index <= NumChunks(source)
          /\ \A i \in 0..(index - 1) : Complete(i)
    /\ spc = "writing" => index < NumChunks(source)
    /\ spc = "split" =>
          /\ count <= NumChunks(source)
          /\ \A i \in 0..(count - 1) : Complete(i)

\* A hash of a file that was read to its end is of a version, and only a merged
\* file that was compared with it is reported.
HashesVouch ==
    /\ dpc # "idle" => result = "none"
    /\ dpc = "merging" => output # Absent
    /\ ~cut /\ store # Absent => store.hash \in Versions \cup {Absent}
    /\ ~cut /\ result = "true" => output \in Versions

SharingInv == TypeOK /\ SplitSoFar /\ HashesVouch

-----------------------------------------------------------------------------
(* Contents and their pieces *)

LEMMA MultiplesGrow ==
    ASSUME NEW a \in Nat, NEW b \in Nat, NEW n \in Nat, a <= b
    PROVE  a * n <= b * n
<1> DEFINE k == b - a
<1>1. k \in Nat /\ b = a + k
    OBVIOUS
<1> HIDE DEF k
<1>2. (a + k) * n = a * n + k * n
    BY <1>1
<1>3. k * n \in Nat /\ a * n \in Nat
    BY <1>1
<1> QED
    BY <1>1, <1>2, <1>3

LEMMA NumChunksIsNat ==
    ASSUME NEW v \in Content
    PROVE  /\ NumChunks(v) \in Nat
           /\ NumChunks(v) * chunkSize <= Len(v) + chunkSize - 1
           /\ Len(v) \in Nat
<1>1. Len(v) \in Nat /\ chunkSize \in Nat \ {0}
    BY FileAssumption DEF Content
<1> DEFINE n == Len(v) + chunkSize - 1
<1>2. n \in Nat
    BY <1>1
<1>3. \A m \in Nat : m \div chunkSize \in Nat /\ (m \div chunkSize) * chunkSize <= m
    BY <1>1
<1> HIDE DEF n
<1> QED
    BY <1>1, <1>2, <1>3 DEF NumChunks, n

LEMMA PieceIsContent ==
    ASSUME NEW v \in Content, NEW i \in Nat
    PROVE  Piece(v, i) \in Content
<1>1. Len(v) \in Nat /\ chunkSize \in Nat \ {0} /\ v \in Seq(Blocks)
    BY FileAssumption DEF Content
<1>2. i * chunkSize \in Nat /\ (i + 1) * chunkSize \in Nat
    BY <1>1
<1> DEFINE m == i * chunkSize + 1
           n == Shorter((i + 1) * chunkSize, Len(v))
<1>3. m \in 1..(Len(v) + 1) \/ m > Len(v)
    BY <1>1, <1>2
<1>4. m \in Nat \ {0} /\ n \in Nat /\ n <= Len(v)
    BY <1>1, <1>2 DEF Shorter
<1> HIDE DEF m, n
<1>5. SubSeq(v, m, n) \in Seq(Blocks)
    BY <1>1, <1>4
<1> QED
    BY <1>5 DEF Piece, Content, m, n

\* Only the last piece of a file may be shorter than a chunk.
LEMMA ShortPieceIsLast ==
    ASSUME NEW v \in Content, NEW i \in Nat, i < NumChunks(v),
           Len(Piece(v, i)) < chunkSize
    PROVE  i + 1 = NumChunks(v)
<1>1. /\ NumChunks(v) \in Nat /\ Len(v) \in Nat /\ chunkSize \in Nat \ {0}
      /\ NumChunks(v) * chunkSize <= Len(v) + chunkSize - 1
      /\ v \in Seq(Blocks)
    BY NumChunksIsNat, FileAssumption DEF Content
<1> SUFFICES ASSUME i + 2 <= NumChunks(v) PROVE FALSE
    BY <1>1
<1>2. /\ i * chunkSize \in Nat
      /\ (i + 1) * chunkSize = i * chunkSize + chunkSize
      /\ (i + 2) * chunkSize = i * chunkSize + chunkSize + chunkSize
    BY <1>1
<1>3. (i + 2) * chunkSize <= NumChunks(v) * chunkSize
    <2>1. i + 2 \in Nat /\ NumChunks(v) \in Nat /\ chunkSize \in Nat
        BY <1>1
    <2> QED
        BY <2>1, MultiplesGrow
<1>4. (i + 1) * chunkSize <= Len(v) - 1
    BY <1>1, <1>2, <1>3
<1> DEFINE m == i * chunkSize
<1>5. Piece(v, i) = SubSeq(v, m + 1, m + chunkSize)
    <2>1. Shorter((i + 1) * chunkSize, Len(v)) = (i + 1) * chunkSize
        BY <1>1, <1>2, <1>4 DEF Shorter
    <2>2. Shorter((i + 1) * chunkSize, Len(v)) = m + chunkSize
        BY <1>2, <2>1
    <2> QED
        BY <2>2, Zenon DEF Piece
<1>6. m \in Nat /\ m + chunkSize <= Len(v)
    BY <1>1, <1>2, <1>4
<1> HIDE DEF m
<1>7. Len(SubSeq(v, m + 1, m + chunkSize)) = chunkSize
    BY <1>1, <1>6
<1> QED
    <2>1. Len(Piece(v, i)) = chunkSize
        BY <1>5, <1>7
    <2>2. chunkSize \in Nat
        BY FileAssumption
    <2> QED
        BY <2>1, <2>2

LEMMA CutsAreContent ==
    ASSUME NEW v \in Content, NEW part \in Cuts(v) PROVE part \in Content
<1>1. PICK k \in 0..(Len(v) - 1) : part = SubSeq(v, 1, k)
    BY DEF Cuts
<1>2. v \in Seq(Blocks) /\ Len(v) \in Nat
    BY DEF Content
<1>3. SubSeq(v, 1, k) \in Seq(Blocks)
    BY <1>2
<1> QED
    BY <1>1, <1>3 DEF Content

\* Every position below a count is that of a chunk.
LEMMA BelowCounts ==
    /\ Counts \subseteq Nat /\ Indices \subseteq Nat /\ 0 \in Counts
    /\ \A n \in Counts, m \in Nat : m < n => m \in Indices /\ m + 1 \in Counts
    /\ \A v \in Versions, m \in Nat :
          m < NumChunks(v) => m \in Indices /\ m + 1 \in Counts
<1>1. \A v \in Versions : NumChunks(v) \in Nat
    BY NumChunksIsNat, ContentAssumption
<1>2. Indices \subseteq Nat
    BY <1>1 DEF Indices
<1>3. \A v \in Versions, m \in Nat : m < NumChunks(v) => m \in Indices
    BY <1>1 DEF Indices
<1>4. ASSUME NEW n \in Counts, NEW m \in Nat, m < n PROVE m \in Indices
    <2>1. PICK j \in Indices : n = j + 1
        BY <1>4 DEF Counts
    <2>2. PICK v \in Versions : j \in 0..(NumChunks(v) - 1)
        BY DEF Indices
    <2>3. m < NumChunks(v)
        BY <1>1, <1>4, <2>1, <2>2
    <2> QED
        BY <1>3, <2>3
<1> QED
    BY <1>2, <1>3, <1>4 DEF Counts

LEMMA Positions ==
    ASSUME TypeOK
    PROVE  /\ index \in Nat /\ count \in Nat /\ totalChunks \in Nat /\ chunkId \in Nat
           /\ count >= 0 /\ totalChunks >= 0
           /\ chunkId < totalChunks =>
                 /\ chunkId \in Indices /\ chunkId + 1 \in Counts
                 /\ chunkId + 1 <= totalChunks
<1>1. /\ index \in Counts /\ count \in Counts /\ totalChunks \in Counts
      /\ chunkId \in Counts
    BY DEF TypeOK
<1>2. /\ index \in Nat /\ count \in Nat /\ totalChunks \in Nat /\ chunkId \in Nat
    BY <1>1, BelowCounts
<1>3. chunkId < totalChunks => chunkId \in Indices /\ chunkId + 1 \in Counts
    BY <1>1, <1>2, BelowCounts
<1> QED
    BY <1>2, <1>3

-----------------------------------------------------------------------------
(* The invariant *)

LEMMA InvInit == Init => SharingInv
<1> SUFFICES ASSUME Init PROVE SharingInv
    OBVIOUS
<1>1. TypeOK
    <2>1. /\ 0 \in Counts /\ 0 <= 0 /\ 0 \in 0..MaxEdits /\ 0 \in 0..MaxFaults
        BY FileAssumption, BelowCounts
    <2> QED
        BY <2>1 DEF Init, TypeOK
<1>2. SplitSoFar /\ HashesVouch
    BY DEF Init, SplitSoFar, HashesVouch
<1> QED
    BY <1>1, <1>2 DEF SharingInv

LEMMA OwnerTypes ==
    ASSUME SharingInv, Edit \/ Split \/ SplitStep PROVE TypeOK'
<1> USE FileAssumption, BelowCounts DEF SharingInv, TypeOK, SplitUnchanged,
        downloadVars, Works, Fails
<1>1. CASE Edit
    BY <1>1 DEF Edit
<1>2. CASE Split
    BY <1>2 DEF Split
<1>3. CASE Read
    <2>1. <<>> \in Content
        BY DEF Content
    <2>2. source \in Versions /\ NumChunks(source) \in Nat /\ index \in Nat
        BY <1>3, NumChunksIsNat, ContentAssumption DEF Read, SplitSoFar
    <2>3. chunks' \in [Indices -> Content \cup {Absent}]
        BY <1>3, <2>1 DEF Read
    <2> QED
        BY <1>3, <2>3 DEF Read, Return
<1>4. CASE Write
    <2>1. /\ source \in Versions /\ source \in Content /\ index < NumChunks(source)
          /\ index \in Nat
        BY <1>4, ContentAssumption DEF Write, SplitSoFar
    <2>2. index + 1 \in Counts /\ Piece(source, index) \in Content
        BY <2>1, PieceIsContent
    <2>3. \A part \in Cuts(Piece(source, index)) : part \in Content
        BY <2>2, CutsAreContent
    <2>4. chunks' \in [Indices -> Content \cup {Absent}]
        BY <1>4, <2>2, <2>3 DEF Write
    <2> QED
        BY <1>4, <2>2, <2>4 DEF Write, Return
<1>5. CASE Describe
    <2>1. input \in Content /\ \A part \in Cuts(input) : part \in Content
        BY ContentAssumption, CutsAreContent
    <2>2. store' \in [hash : Content \cup {Absent}] \cup {Absent}
        BY <1>5, <2>1 DEF Describe
    <2> QED
        <3>1. cut' \in BOOLEAN /\ faults' \in 0..MaxFaults /\ spc' = "done"
              /\ source' = Absent
              /\ UNCHANGED <<input, edits, index, chunks, count, downloadVars>>
            <4>1. Works \/ Fails
                BY <1>5 DEF Describe
            <4>2. faults' \in 0..MaxFaults
                BY <4>1
            <4> QED
                BY <1>5, <4>2 DEF Describe
        <3> QED
            BY <2>2, <3>1
<1> QED
    BY <1>1, <1>2, <1>3, <1>4, <1>5 DEF SplitStep

LEMMA OwnerSplits ==
    ASSUME SharingInv, Edit \/ Split \/ SplitStep PROVE SplitSoFar'
<1> USE BelowCounts DEF SharingInv, SplitSoFar, Complete
<1>0. \A v \in Versions : NumChunks(v) \in Nat
    BY NumChunksIsNat, ContentAssumption
<1>1. CASE Edit
    BY <1>1 DEF Edit
<1>2. CASE Split
    <2>1. spc' = "reading" => source' \in Versions /\ index' = 0
        BY <1>2 DEF Split, TypeOK
    <2>2. spc' \in {"reading", "new"}
        BY <1>2 DEF Split
    <2> QED
        BY <1>0, <2>1, <2>2
<1>3. CASE Read
    <2>1. /\ source' = source /\ source \in Versions /\ index \in Nat
          /\ index <= NumChunks(source)
          /\ \A i \in 0..(index - 1) : Complete(i)
        BY <1>3 DEF Read, TypeOK
    <2>2. \/ spc' = "split" /\ count' = index /\ chunks' = chunks
          \/ /\ spc' = "writing" /\ index' = index /\ index < NumChunks(source)
             /\ chunks' = [chunks EXCEPT ![index] = <<>>]
        BY <1>3 DEF Read, Return
    <2>3. \A i \in 0..(index - 1) : chunks'[i] = chunks[i]
        BY <2>1, <2>2 DEF TypeOK
    <2> QED
        BY <2>1, <2>2, <2>3
<1>4. CASE Write
    <2>1. /\ source' = source /\ source \in Versions /\ index \in Nat
          /\ index < NumChunks(source) /\ index \in Indices
          /\ \A i \in 0..(index - 1) : Complete(i)
        BY <1>4 DEF Write, TypeOK
    <2>2. /\ \E content : chunks' = [chunks EXCEPT ![index] = content]
          /\ \/ /\ chunks'[index] = Piece(source, index)
                   \/ Len(Piece(source, index)) < chunkSize
                /\ index' = index + 1 /\ spc' = "reading"
             \/ spc' = "split" /\ count' = index
        BY <1>4, <2>1 DEF Write, Return, TypeOK
    <2>3. \A i \in 0..(index - 1) : chunks'[i] = chunks[i]
        BY <2>1, <2>2 DEF TypeOK
    <2>4. Len(Piece(source, index)) < chunkSize => index + 1 = NumChunks(source)
        BY <2>1, ShortPieceIsLast, ContentAssumption
    <2> QED
        BY <1>0, <2>1, <2>2, <2>3, <2>4
<1>5. CASE Describe
    BY <1>5 DEF Describe
<1> QED
    BY <1>1, <1>2, <1>3, <1>4, <1>5 DEF SplitStep

LEMMA OwnerHashes ==
    ASSUME SharingInv, Edit \/ Split \/ SplitStep PROVE HashesVouch'
<1> USE DEF SharingInv, HashesVouch, SplitUnchanged, downloadVars
<1>1. CASE Edit \/ Split \/ Read \/ Write
    BY <1>1 DEF Edit, Split, Read, Write
<1>2. CASE Describe
    BY <1>2 DEF Describe, TypeOK
<1> QED
    BY <1>1, <1>2 DEF SplitStep

LEMMA InvDownload == ASSUME SharingInv, DownloadStep PROVE SharingInv'
<1> USE DEF SharingInv, ownerVars, Works, Fails, End
<1>0. Fails \/ Works => faults' \in 0..MaxFaults
    BY FileAssumption DEF TypeOK
<1>1. SplitSoFar'
    <2>1. UNCHANGED <<spc, source, index, chunks, count>>
        BY DEF DownloadStep, Call, Fetch, MergeOpen, MergeCopy, VerifyMerged
    <2> QED
        BY <2>1 DEF SplitSoFar, Complete
<1>2. CASE Call
    <2>1. /\ UNCHANGED <<ownerVars, local, output, faults, cut>>
          /\ dpc' = "fetching" /\ totalChunks' = count /\ chunkId' = 0
          /\ result' = "none"
        BY <1>2 DEF Call
    <2>2. count \in Counts /\ count >= 0 /\ 0 \in Counts
        BY BelowCounts, Positions DEF TypeOK
    <2>3. TypeOK'
        BY <2>1, <2>2 DEF TypeOK
    <2>4. HashesVouch'
        BY <2>1 DEF HashesVouch
    <2> QED
        BY <1>1, <2>3, <2>4
<1>3. CASE Fetch
    <2>1. chunkId \in Indices /\ chunkId + 1 \in Counts /\ chunkId + 1 <= totalChunks
        BY <1>3, Positions DEF Fetch
    <2>2. local' \in [Indices -> Content \cup {Absent}]
        BY BelowCounts, FileAssumption, <1>0, <1>3, <2>1 DEF Fetch, TypeOK
    <2>3. chunkId' \in Counts /\ chunkId' <= totalChunks
        BY BelowCounts, FileAssumption, <1>0, <1>3, <2>1 DEF Fetch, TypeOK
    <2>4. TypeOK'
        <3>1. /\ dpc' \in {"fetching", "idle"} /\ result' \in {result, "false"}
              /\ faults' \in 0..MaxFaults
              /\ UNCHANGED <<ownerVars, totalChunks, output, cut>>
            BY <1>0, <1>3 DEF Fetch
        <3> QED
            BY <2>2, <2>3, <3>1 DEF TypeOK
    <2>5. HashesVouch'
        BY <1>3 DEF Fetch, HashesVouch
    <2> QED
        BY <1>1, <2>4, <2>5
<1>4. CASE MergeOpen
    <2>0. <<>> \in Content
        BY DEF Content
    <2>1. <<>> \in Content /\ <<>> # Absent
        BY <2>0, ContentAssumption
    <2>2. TypeOK'
        <3>1. /\ dpc' \in {"merging", "idle"} /\ result' \in {result, "false"}
              /\ output' \in {<<>>, output}
              /\ faults' \in 0..MaxFaults /\ chunkId' = 0
              /\ UNCHANGED <<ownerVars, totalChunks, local, cut>>
            BY <1>0, <1>4 DEF MergeOpen
        <3>2. totalChunks >= 0 /\ 0 \in Counts
            BY BelowCounts, Positions
        <3> QED
            BY <2>1, <3>1, <3>2 DEF TypeOK
    <2>3. HashesVouch'
        BY <1>4, <2>1 DEF MergeOpen, HashesVouch
    <2> QED
        BY <1>1, <2>2, <2>3
<1>5. CASE MergeCopy
    <2>1. chunkId \in Indices /\ chunkId + 1 \in Counts /\ chunkId + 1 <= totalChunks
        BY <1>5, Positions DEF MergeCopy
    <2>2. output \in Content
        BY <1>5 DEF MergeCopy, TypeOK, HashesVouch
    <2>3. \A v \in Content : output \o v \in Content
        BY <2>2 DEF Content
    <2>4. local[chunkId] # Absent =>
             /\ local[chunkId] \in Content
             /\ \A part \in Cuts(local[chunkId]) : part \in Content
        BY <2>1, CutsAreContent DEF TypeOK
    <2>5. output' \in Content /\ output' # Absent
        BY <1>5, <2>2, <2>3, <2>4, ContentAssumption DEF MergeCopy
    <2>6. TypeOK'
        <3>1. /\ dpc' \in {"merging", "idle"} /\ result' \in {result, "false"}
              /\ faults' \in 0..MaxFaults /\ chunkId' \in {chunkId, chunkId + 1}
              /\ UNCHANGED <<ownerVars, totalChunks, local, cut>>
            BY <1>0, <1>5 DEF MergeCopy
        <3> QED
            BY <2>1, <2>5, <3>1 DEF TypeOK
    <2>7. HashesVouch'
        BY <1>5, <2>5 DEF MergeCopy, HashesVouch
    <2> QED
        BY <1>1, <2>6, <2>7
<1>6. CASE VerifyMerged
    <2>1. TypeOK'
        BY BelowCounts, FileAssumption, <1>0, <1>6 DEF VerifyMerged, TypeOK
    <2>2. output # Absent /\ output' = output /\ store' = store /\ dpc' = "idle"
        BY <1>6 DEF VerifyMerged, HashesVouch
    <2>3. cut' = TRUE \/ cut' = cut
        BY <1>6 DEF VerifyMerged
    <2>4. ASSUME ~cut', result' = "true" PROVE output \in Versions
        <3>1. ~cut /\ Matches(output)
            BY <1>6, <2>3, <2>4 DEF VerifyMerged
        <3> QED
            BY <2>2, <3>1 DEF Matches, HashesVouch
    <2> QED
        BY <1>1, <2>1, <2>2, <2>3, <2>4 DEF HashesVouch
<1> QED
    BY <1>2, <1>3, <1>4, <1>5, <1>6 DEF DownloadStep

LEMMA InvNext == SharingInv /\ [Next]_vars => SharingInv'
<1> SUFFICES ASSUME SharingInv, [Next]_vars PROVE SharingInv'
    OBVIOUS
<1>1. CASE Edit \/ Split \/ SplitStep
    BY <1>1, OwnerTypes, OwnerSplits, OwnerHashes DEF SharingInv
<1>2. CASE DownloadStep
    BY <1>2, InvDownload
<1>3. CASE UNCHANGED vars
    BY <1>3 DEF vars, ownerVars, downloadVars, SharingInv, TypeOK, SplitSoFar,
                Complete, HashesVouch
<1> QED
    BY <1>1, <1>2, <1>3 DEF Next

-----------------------------------------------------------------------------
(* What follows *)

LEMMA InvAlways == Spec => []SharingInv
BY InvInit, InvNext, PTL DEF Spec

\* Files, metadata and the positions in the two calls have their types.
THEOREM TypeCorrect == Spec => []TypeOK
BY InvAlways, PTL DEF SharingInv

\* The count a split returns vouches for the chunks before it, also when the
\* split was cut short by a write that failed.
THEOREM CountVouchesForChunks == Spec => []CountedChunksAreComplete
<1>1. SharingInv => CountedChunksAreComplete
    BY DEF SharingInv, SplitSoFar, Complete, CountedChunksAreComplete
<1> QED
    BY <1>1, InvAlways, PTL

\* What a download reports as done is one whole version of the file, whatever
\* the owner did to the file and its chunks meanwhile.
THEOREM ReportedFileIsWhole == Spec => []TrueMeansWhole
<1>1. SharingInv => TrueMeansWhole
    BY DEF SharingInv, HashesVouch, TrueMeansWhole
<1> QED
    BY <1>1, InvAlways, PTL
=============================================================================
