----------------------------- MODULE FileSharing -----------------------------
(***************************************************************************)
(* A file on its way from its owner to another peer, chunk by chunk: it is *)
(* split (splitFileIntoChunks), described (buildAndStoreMetadata), fetched *)
(* by the sequential download (downloadFileFromPeer), merged (mergeChunks) *)
(* and verified (verifyMergedFileHash).  The owner may change the file and *)
(* split it again under the same fileId, also while it is fetched.         *)
(*                                                                         *)
(* Contents are sequences of blocks, and a hash is as good as the content  *)
(* it is of.  A request for a chunk brings the chunk's file as it was at   *)
(* one moment (AcceptedWasServed in ChunkTransfer), or fails.  The number  *)
(* of chunks is what the split has returned: the caller passes it on.      *)
(*                                                                         *)
(* A stream holds back what is less than its buffer until it is closed,    *)
(* and nobody looks whether closing has worked.  A chunk is larger than    *)
(* the buffer (chunkSize is 512 KiB wherever the split is called), the     *)
(* last piece of a file may not be.                                        *)
(***************************************************************************)
EXTENDS Integers, Sequences, SequencesExt

CONSTANTS
    Versions,       \* the contents the owner gives the file
    chunkSize,      \* in blocks
    MaxEdits,       \* bound: times the owner changes the file
    MaxFaults,      \* bound: things that fail
    Absent          \* no file, no metadata, no hash

ASSUME FileAssumption ==
    /\ Versions # {} /\ chunkSize \in Nat \ {0}
    /\ {MaxEdits, MaxFaults} \subseteq Nat

Blocks == UNION {Range(v) : v \in Versions}
Content == Seq(Blocks)

ASSUME ContentAssumption == Versions \subseteq Content /\ Absent \notin Content

VARIABLES
    input, edits,       \* the owner's file
    spc, source, index, \* the split: position, what it has opened, chunkIndex
    chunks,             \* the owner's chunk files
    count,              \* what the split has returned
    store,              \* metadataStore of the process that downloads: fileHash
    dpc, chunkId, totalChunks,  \* the download: position, loop index, argument
    local, output,      \* its chunk files and the merged file
    result,             \* what it has returned
    faults,
    cut                 \* history: a hash is of a file that was not read to its end

ownerVars == <<input, edits, spc, source, index, chunks, count, store>>
downloadVars == <<dpc, chunkId, totalChunks, local, output, result>>
vars == <<ownerVars, downloadVars, faults, cut>>

Shorter(a, b) == IF a < b THEN a ELSE b

\* the blocks that a read of chunkSize gets from the place of the i-th chunk
Piece(content, i) ==
    SubSeq(content, i * chunkSize + 1, Shorter((i + 1) * chunkSize, Len(content)))

NumChunks(content) == (Len(content) + chunkSize - 1) \div chunkSize
Indices == UNION {0..(NumChunks(v) - 1) : v \in Versions}
Counts == {0} \cup {i + 1 : i \in Indices}

\* the first n chunk files, one after the other
Joined(files, n) == FlattenSeq([k \in 1..n |-> files[k - 1]])

Init ==
    /\ input \in Versions /\ edits = 0
    /\ spc = "new" /\ source = Absent /\ index = 0 /\ count = 0
    /\ chunks = [i \in Indices |-> Absent]
    /\ store = Absent
    /\ dpc = "idle" /\ chunkId = 0 /\ totalChunks = 0
    /\ local = [i \in Indices |-> Absent] /\ output = Absent
    /\ result = "none" /\ faults = 0 /\ cut = FALSE

Works == UNCHANGED faults
Fails == faults < MaxFaults /\ faults' = faults + 1

\* what a stream that cannot write, or cannot read on, has got through
Cuts(content) == {SubSeq(content, 1, k) : k \in 0..(Len(content) - 1)}

-----------------------------------------------------------------------------
(* The owner *)

SplitUnchanged == UNCHANGED <<input, edits, store, downloadVars, cut>>

\* the file is replaced by another version
Edit ==
    /\ edits < MaxEdits
    /\ \E v \in Versions \ {input} : input' = v
    /\ edits' = edits + 1
    /\ UNCHANGED <<spc, source, index, chunks, count, store, downloadVars, faults, cut>>

\* splitFileIntoChunks opens the file; if it cannot, its caller gives up
Split ==
    /\ spc \in {"new", "done"}
    /\ \/ Works /\ source' = input /\ index' = 0 /\ spc' = "reading"
       \/ Fails /\ spc' = "new" /\ UNCHANGED <<source, index>>
    /\ UNCHANGED <<chunks, count>> /\ SplitUnchanged

\* it returns chunkIndex, also when it could not write
Return(n) == spc' = "split" /\ count' = n /\ UNCHANGED index

\* the next piece is read, and the chunk's file created
Read ==
    /\ spc = "reading"
    /\ \/ /\ index = NumChunks(source)
          /\ Works /\ Return(index) /\ UNCHANGED chunks
       \/ /\ index < NumChunks(source)
          /\ \/ /\ Works
                /\ chunks' = [chunks EXCEPT ![index] = <<>>]
                /\ spc' = "writing" /\ UNCHANGED <<index, count>>
             \/ Fails /\ Return(index) /\ UNCHANGED chunks
    /\ UNCHANGED source /\ SplitUnchanged

\* Definitions whose name starts with Bad are not the code: each is a plausible
\* slip in the definition that follows it, which some property has to notice.

\* the chunk counts before it is known to be written
BadWrite ==
    /\ spc = "writing"
    /\ \/ /\ Works
          /\ chunks' = [chunks EXCEPT ![index] = Piece(source, index)]
          /\ index' = index + 1 /\ spc' = "reading" /\ UNCHANGED count
       \/ Fails /\ Return(index + 1) /\ UNCHANGED chunks
    /\ UNCHANGED source /\ SplitUnchanged

\* The piece is written.  If that fails the split returns, and some of it may be
\* there; but what is held back until the file is closed is lost unnoticed.
Write ==
    /\ spc = "writing"
    /\ LET piece == Piece(source, index)
           Go == index' = index + 1 /\ spc' = "reading" /\ UNCHANGED count
       IN  \/ /\ Works /\ Go
              /\ chunks' = [chunks EXCEPT ![index] = piece]
           \/ /\ Fails
              /\ \E part \in Cuts(piece) : chunks' = [chunks EXCEPT ![index] = part]
              /\ Return(index) \/ (Len(piece) < chunkSize /\ Go)
    /\ UNCHANGED source /\ SplitUnchanged

\* the whole is what its chunks make
BadDescribe ==
    /\ spc = "split"
    /\ Works /\ store' = [hash |-> Joined(chunks, count)] /\ UNCHANGED cut
    /\ spc' = "done" /\ source' = Absent
    /\ UNCHANGED <<input, edits, index, chunks, count, downloadVars>>

\* buildAndStoreMetadata, in the process that downloads: the hash is of the file,
\* which may have changed since it was split.  If the file cannot be opened the
\* hash stays empty and is stored all the same, and computeFileSha256 takes a
\* read error for the end; if a chunk cannot be hashed nothing is stored.
Describe ==
    /\ spc = "split"
    /\ \/ Works /\ store' = [hash |-> input] /\ UNCHANGED cut
       \/ Fails /\ store' \in {store, [hash |-> Absent]} /\ UNCHANGED cut
       \/ Fails /\ cut' = TRUE /\ \E part \in Cuts(input) : store' = [hash |-> part]
    /\ spc' = "done" /\ source' = Absent
    /\ UNCHANGED <<input, edits, index, chunks, count, downloadVars>>

-----------------------------------------------------------------------------
(* The download *)

End(r) == dpc' = "idle" /\ result' = r

\* downloadFileFromPeer; a count below 0 never comes from a split that returned
Call ==
    /\ dpc = "idle" /\ spc = "done"
    /\ dpc' = "fetching" /\ totalChunks' = count /\ chunkId' = 0
    /\ result' = "none"
    /\ UNCHANGED <<ownerVars, local, output, faults, cut>>

\* a chunk that is there is not fetched again
BadFetch ==
    /\ dpc = "fetching" /\ chunkId < totalChunks
    /\ \/ /\ chunks[chunkId] \notin {Absent, <<>>} \/ local[chunkId] # Absent
          /\ local' = [local EXCEPT ![chunkId] = IF @ = Absent THEN chunks[chunkId] ELSE @]
          /\ chunkId' = chunkId + 1
          /\ Works /\ UNCHANGED <<dpc, result>>
       \/ /\ Fails \/ (chunks[chunkId] \in {Absent, <<>>} /\ Works)
          /\ local' \in {local, [local EXCEPT ![chunkId] = Absent]}
          /\ End("false") /\ UNCHANGED chunkId
    /\ UNCHANGED <<ownerVars, totalChunks, output, cut>>

\* requestChunkFromPeer for the next chunk: a file that is not there or empty is
\* refused, and a request that breaks off removes what was there before
Fetch ==
    /\ dpc = "fetching" /\ chunkId < totalChunks
    /\ \/ /\ chunks[chunkId] \notin {Absent, <<>>}
          /\ local' = [local EXCEPT ![chunkId] = chunks[chunkId]]
          /\ chunkId' = chunkId + 1
          /\ Works /\ UNCHANGED <<dpc, result>>
       \/ /\ Fails \/ (chunks[chunkId] \in {Absent, <<>>} /\ Works)
          /\ local' \in {local, [local EXCEPT ![chunkId] = Absent]}
          /\ End("false") /\ UNCHANGED chunkId
    /\ UNCHANGED <<ownerVars, totalChunks, output, cut>>

\* mergeChunks truncates the output ...
MergeOpen ==
    /\ dpc = "fetching" /\ chunkId = totalChunks
    /\ \/ Works /\ output' = <<>> /\ dpc' = "merging" /\ UNCHANGED result
       \/ Fails /\ End("false") /\ UNCHANGED output
    /\ chunkId' = 0
    /\ UNCHANGED <<ownerVars, totalChunks, local, cut>>

\* ... and appends chunk after chunk.  A read error is taken for the end of the
\* chunk, and the end of the last one is held back until the output is closed:
\* of either the rest may be lost unnoticed.
MergeCopy ==
    /\ dpc = "merging" /\ chunkId < totalChunks
    /\ \/ /\ local[chunkId] # Absent
          /\ output' = output \o local[chunkId]
          /\ chunkId' = chunkId + 1
          /\ Works /\ UNCHANGED <<dpc, result>>
       \/ /\ Fails \/ (local[chunkId] = Absent /\ Works)
          /\ End("false") /\ UNCHANGED <<output, chunkId>>
       \/ /\ Fails /\ local[chunkId] # Absent
          /\ \E part \in Cuts(local[chunkId]) : output' = output \o part
          /\ chunkId' = chunkId + 1
          /\ UNCHANGED <<dpc, result>>
    /\ UNCHANGED <<ownerVars, totalChunks, local, cut>>

Matches(content) == store # Absent /\ store.hash = content

\* verifyMergedFileHash
VerifyMerged ==
    /\ dpc = "merging" /\ chunkId = totalChunks
    /\ \/ /\ Works /\ UNCHANGED cut
          /\ End(IF Matches(output) THEN "true" ELSE "false")
       \/ /\ Fails /\ UNCHANGED cut
          /\ End("false")
       \/ /\ Fails /\ cut' = TRUE
          /\ \E part \in Cuts(output) : End(IF Matches(part) THEN "true" ELSE "false")
    /\ UNCHANGED <<ownerVars, chunkId, totalChunks, local, output>>

-----------------------------------------------------------------------------
SplitStep == Read \/ Write \/ Describe
DownloadStep == Call \/ Fetch \/ MergeOpen \/ MergeCopy \/ VerifyMerged

Next == Edit \/ Split \/ SplitStep \/ DownloadStep

\* A split that is called ends, and the download is called again and again.
Spec == Init /\ [][Next]_vars
             /\ WF_vars(Split /\ spc = "new") /\ WF_vars(SplitStep)
             /\ WF_vars(DownloadStep)

-----------------------------------------------------------------------------
(* Properties *)

\* Types of the files and of the positions in the two calls.
TypeOK ==
    /\ input \in Versions /\ source \in Versions \cup {Absent}
    /\ spc \in {"new", "reading", "writing", "split", "done"}
    /\ dpc \in {"idle", "fetching", "merging"}
    /\ {index, count, totalChunks, chunkId} \subseteq Counts
    /\ chunkId <= totalChunks
    /\ chunks \in [Indices -> Content \cup {Absent}]
    /\ local \in [Indices -> Content \cup {Absent}]
    /\ output \in Content \cup {Absent}
    /\ store \in [hash : Content \cup {Absent}] \cup {Absent}
    /\ result \in {"none", "true", "false"}
    /\ edits \in 0..MaxEdits /\ faults \in 0..MaxFaults /\ cut \in BOOLEAN

\* The chunks a split has counted are the file's first, in order and complete,
\* also when it was cut short by a write that failed and returned as if nothing
\* had (chunkManager.cpp:44): what it has left of that chunk is never counted.
\* The one exception is the last chunk of the file, lost when it was closed.
CountedChunksAreComplete ==
    spc = "split" =>
        \A i \in 0..(count - 1) :
            \/ chunks[i] = Piece(source, i)
            \/ i + 1 = NumChunks(source) /\ Len(Piece(source, i)) < chunkSize

\* A download that returns true has made one whole version of the file: not the
\* first chunks of one that was cut short when it was split or not written to its
\* end, and not chunks of two versions when it was split again in between.  This
\* takes hashes of whole files: where a read error was taken for the end of the
\* file (hashUtils.cpp:40), a split that stopped there is as good as complete.
TrueMeansWhole == result = "true" /\ ~cut => output \in Versions

\* The owner is done, and what is stored describes what is there.
Published ==
    /\ spc = "done" /\ count = NumChunks(input) /\ Joined(chunks, count) = input
    /\ store # Absent /\ store.hash = input

\* When the owner has come to rest and things stop to fail, the download does
\* get the file, whatever earlier calls have left in its directory.
DownloadRecovers == <>[]Published => []<>(result = "true")
=============================================================================
