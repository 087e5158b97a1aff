-------------------------- MODULE ParallelDownload --------------------------
(***************************************************************************)
(* downloadFileFromMultiplePeers in src/peer/peer.cpp and what it calls:   *)
(* the main thread that resumes from the state file, fills the pool, waits,*)
(* checks, merges and hashes; the pool's workers that claim chunks and     *)
(* fetch them from one peer after the other; the chunk files and the state *)
(* file they leave on disk; and the tracker's load counter of each peer.   *)
(* A process may die at any point and the download be started again.       *)
(*                                                                         *)
(* The thread pool is the abstract TaskPool, which ThreadPool implements.  *)
(* A worker's task is one closure; the closure does not use its index, so  *)
(* workers are interchangeable.                                            *)
(***************************************************************************)
EXTENDS ChunkScheduler, Sequences, FiniteSets

CONSTANTS
    Workers,            \* closures the pool can hold, one per processor
    Peers,              \* peers the tracker may list for the file
    PeerLists,          \* results filterUsablePeers may return
    Offers,             \* Offers[p][c]: what asking peer p for chunk c may do
    SharedChunks,       \* chunks of this file already in chunkDir
    MetadataKnown,      \* verifyMergedFileHash finds the file's metadata
    TrackerFaults,      \* ways a call to the tracker may go wrong
    StorageFaults,      \* whether a file may fail to open
    MaxLeaks,           \* bound: load above which no further leak is modelled
    MaxCrashes,         \* bound: process deaths
    MaxReruns           \* bound: calls after one that has returned

ASSUME WorkersAssumption == IsFiniteSet(Workers) /\ Workers # {}
ASSUME PeerListsAssumption == PeerLists \subseteq Seq(Peers)
ASSUME OffersAssumption ==
    Offers \in [Peers -> [Chunks ->
                   (SUBSET {"refused", "broken", "good", "stale"}) \ {{}}]]
ASSUME SharedChunksAssumption == SharedChunks \subseteq Chunks
ASSUME FaultsAssumption ==
    /\ TrackerFaults \subseteq {"reserve", "reserveReply", "release"}
    /\ StorageFaults \in BOOLEAN
    /\ MetadataKnown \in BOOLEAN
ASSUME BoundsAssumption ==
    MaxLeaks \in Nat /\ MaxCrashes \in Nat /\ MaxReruns \in Nat

VARIABLES
    \* the thread pool of this call (TaskPool)
    pending, running, finished, owner,
    \* the main thread
    mainPc, usablePeers, result,
    \* shared by the main thread and the workers
    chunkStatus,
    \* each worker: position, chunk in hand, loop counter, local `ok`
    wpc, cur, attempt, ok,
    \* on disk: downloadDir, the state file, the reconstructed file
    downloads, stateFile, output,
    \* at the tracker: load counter of each peer
    load,
    \* bounds on the environment
    crashes, reruns

Pool == INSTANCE TaskPool WITH Tasks <- Workers

\* The request that worker w is making, as its caller sees it.
Request(w) == INSTANCE ChunkRequest WITH
    phase <- CASE wpc[w] = "connecting" -> "asking"
               [] wpc[w] = "receiving" -> "receiving"
               [] OTHER -> "over",
    file <- downloads[cur[w]],
    ok <- ok[w]

poolVars == <<pending, running, finished, owner>>
mainVars == <<mainPc, usablePeers, result>>
workerVars == <<wpc, cur, attempt, ok>>
diskVars == <<downloads, stateFile, output>>
boundVars == <<crashes, reruns>>
vars == <<schedulerVars, poolVars, mainVars, chunkStatus, workerVars,
          diskVars, load, boundVars>>

Status == {"NOT_STARTED", "IN_PROGRESS", "DONE", "FAILED"}

\* A chunk file: not there, opened and still empty, holding other bytes than
\* the chunk's (some of them, or those of another chunk), holding the chunk.
Content == {"absent", "empty", "wrong", "good"}

MainState == {"start", "submitting", "waiting", "waited", "saving", "checking",
              "verifying", "merging", "copying", "hashing", "closing",
              "returned"}
WorkerState == {"idle", "top", "claimed", "assigning", "reserving",
                "connecting", "receiving", "releasing", "recording", "marking",
                "saving", "returned"}

\* positions in which a worker has a chunk from the scheduler
Holding == {"claimed", "assigning", "reserving", "connecting", "receiving",
            "releasing", "recording", "marking"}
\* positions in which it has a reservation at the tracker
Reserved == {"connecting", "receiving", "releasing"}
\* positions in which it has the state file open
Writing == {"assigning", "saving"}
\* positions in which it holds stateMutex
Locked == Writing \cup {"marking"}

Lowest(a, b) == IF a < b THEN a ELSE b
WorkerCount == Lowest(Len(usablePeers), Lowest(totalChunks, Cardinality(Workers)))
Submitted == pending \cup running \cup finished

\* Definitions whose name starts with Bad are not the code: each is a plausible
\* slip in the definition that follows it, which some property has to notice.

\* failover that asks the first peer over and over
BadPeerOf(w) == usablePeers[(cur[w] % Len(usablePeers)) + 1]

\* chunk i is first tried at peer i % n, attempt k of it at peer (i + k) % n
PeerOf(w) == usablePeers[((cur[w] + attempt[w]) % Len(usablePeers)) + 1]

StateMutexFree == \A w \in Workers : wpc[w] \notin Locked

InDownloadDir(c) == downloads[c] # "absent"
\* localChunkAlreadyExists
ChunkExists(c) == InDownloadDir(c) \/ c \in SharedChunks
\* isChunkPresentAndValid: the file in downloadDir decides if there is one
PresentAndValid(c) == IF InDownloadDir(c) THEN downloads[c] # "empty"
                                          ELSE c \in SharedChunks

NoRecord == [c \in Chunks |-> "NOT_STARTED"]

Init ==
    /\ done = [c \in Chunks |-> FALSE]
    /\ claimed = [c \in Chunks |-> FALSE]
    /\ Pool!PoolInit
    /\ mainPc = "start" /\ usablePeers = <<>> /\ result = FALSE
    /\ chunkStatus = NoRecord
    /\ wpc = [w \in Workers |-> "idle"]
    /\ cur = [w \in Workers |-> 0]
    /\ attempt = [w \in Workers |-> 0]
    /\ ok = [w \in Workers |-> FALSE]
    /\ downloads = [c \in Chunks |-> "absent"]
    /\ stateFile = NoRecord
    /\ output = "absent"
    /\ load = [p \in Peers |-> 0]
    /\ crashes = 0 /\ reruns = 0

-----------------------------------------------------------------------------
(* The main thread *)

\* No chunks, no usable peers, or a state file that cannot be opened.
Reject ==
    /\ mainPc = "start"
    /\ totalChunks = 0 \/ <<>> \in PeerLists \/ StorageFaults
    /\ mainPc' = "returned" /\ result' = FALSE
    /\ UNCHANGED <<schedulerVars, poolVars, usablePeers, chunkStatus,
                   workerVars, diskVars, load, boundVars>>

\* loadDownloadState, the loop that skips what is already there, the pool.
\* A line of the state file that is missing or torn counts as NOT_STARTED.
Begin ==
    /\ mainPc = "start"
    /\ totalChunks > 0
    /\ \E list \in PeerLists \ {<<>>} : usablePeers' = list
    /\ LET skip(c) == stateFile[c] = "DONE" \/ ChunkExists(c)
       IN  /\ chunkStatus' = [c \in Chunks |->
                                IF skip(c) THEN "DONE" ELSE stateFile[c]]
           /\ done' = [c \in Chunks |-> skip(c)]
    /\ mainPc' = "submitting"
    /\ UNCHANGED <<claimed, poolVars, result, workerVars, diskVars, load,
                   boundVars>>

\* pool.addTask
Submit(w) ==
    /\ mainPc = "submitting"
    /\ Cardinality(Submitted) < WorkerCount
    /\ Pool!Submit(w)
    /\ UNCHANGED <<schedulerVars, mainVars, chunkStatus, workerVars, diskVars,
                   load, boundVars>>

\* pool.wait is called ...
Wait ==
    /\ mainPc = "submitting"
    /\ Cardinality(Submitted) >= WorkerCount
    /\ Pool!Wait
    /\ mainPc' = "waiting"
    /\ UNCHANGED <<schedulerVars, usablePeers, result, chunkStatus, workerVars,
                   diskVars, load, boundVars>>

\* ... and returns
WaitReturn ==
    /\ mainPc = "waiting"
    /\ Pool!WaitReturn
    /\ mainPc' = "waited"
    /\ UNCHANGED <<schedulerVars, usablePeers, result, chunkStatus, workerVars,
                   diskVars, load, boundVars>>

\* the final saveDownloadState: the file is truncated when it is opened ...
FinalSave ==
    /\ mainPc = "waited"
    /\ \/ stateFile' = NoRecord /\ mainPc' = "saving"
       \/ StorageFaults /\ UNCHANGED stateFile /\ mainPc' = "checking"
    /\ UNCHANGED <<schedulerVars, poolVars, usablePeers, result,
                   chunkStatus, workerVars, downloads, output, load, boundVars>>

\* ... and complete when it is closed
FinalSaveEnd ==
    /\ mainPc = "saving"
    /\ stateFile' = chunkStatus
    /\ mainPc' = "checking"
    /\ UNCHANGED <<schedulerVars, poolVars, usablePeers, result,
                   chunkStatus, workerVars, downloads, output, load, boundVars>>

\* every failing check leaves through the pool's destructor
GoTo(next) ==
    /\ mainPc' = next
    /\ UNCHANGED <<schedulerVars, poolVars, usablePeers, chunkStatus,
                   workerVars, downloads, stateFile, load, boundVars>>

\* scheduler.allDone, then findMissingChunks
Check ==
    /\ mainPc = "checking"
    /\ LET complete == AllDone /\ \A c \in Chunks : chunkStatus[c] = "DONE"
       IN  GoTo(IF complete THEN "verifying" ELSE "closing")
    /\ UNCHANGED <<result, output>>

\* verifyAllChunksComplete
Verify ==
    /\ mainPc = "verifying"
    /\ LET complete == \A c \in Chunks :
                          chunkStatus[c] = "DONE" /\ PresentAndValid(c)
       IN  GoTo(IF complete THEN "merging" ELSE "closing")
    /\ UNCHANGED <<result, output>>

\* mergeChunks truncates the output ...
MergeOpen ==
    /\ mainPc = "merging"
    /\ \/ output' = "wrong" /\ GoTo("copying")
       \/ StorageFaults /\ UNCHANGED output /\ GoTo("closing")
    /\ UNCHANGED result

\* ... and copies the chunks, from downloadDir only, until one is not there
MergeCopy ==
    /\ mainPc = "copying"
    /\ \/ /\ \E c \in Chunks : ~InDownloadDir(c)
          /\ UNCHANGED output
          /\ GoTo("closing")
       \/ /\ \A c \in Chunks : InDownloadDir(c)
          /\ output' = IF \A c \in Chunks : downloads[c] = "good"
                       THEN "good" ELSE "wrong"
          /\ GoTo("hashing")
    /\ UNCHANGED result

\* the hashes are not compared
BadVerifyMerged ==
    /\ mainPc = "hashing"
    /\ result' = MetadataKnown
    /\ GoTo("closing")
    /\ UNCHANGED output

\* verifyMergedFileHash
VerifyMerged ==
    /\ mainPc = "hashing"
    /\ result' = (MetadataKnown /\ output = "good")
    /\ GoTo("closing")
    /\ UNCHANGED output

\* the pool is destroyed when the function is left
Close ==
    /\ mainPc = "closing"
    /\ \/ Pool!Close /\ UNCHANGED mainPc
       \/ Pool!Closed /\ mainPc' = "returned"
    /\ UNCHANGED <<schedulerVars, usablePeers, result, chunkStatus, workerVars,
                   diskVars, load, boundVars>>

-----------------------------------------------------------------------------
(* A worker: the closure given to addTask *)

\* the main thread, the processes' end and the bounds are not the workers'
WorkerUnchanged == UNCHANGED <<mainVars, output, boundVars>>

Start(w) ==
    /\ Pool!Start(w)
    /\ wpc' = [wpc EXCEPT ![w] = "top"]
    /\ WorkerUnchanged
    /\ UNCHANGED <<schedulerVars, chunkStatus, cur, attempt, ok, downloads,
                   stateFile, load>>

Claim(w) ==
    /\ wpc[w] = "top"
    /\ \E c \in Chunks : /\ GetNextChunk(c)
                         /\ cur' = [cur EXCEPT ![w] = c]
    /\ wpc' = [wpc EXCEPT ![w] = "claimed"]
    /\ attempt' = [attempt EXCEPT ![w] = 0]
    /\ ok' = [ok EXCEPT ![w] = FALSE]
    /\ WorkerUnchanged
    /\ UNCHANGED <<poolVars, chunkStatus, downloads, stateFile, load>>

\* getNextChunk gives -1: the closure returns
Return(w) ==
    /\ wpc[w] = "top"
    /\ NoNextChunk
    /\ Pool!Finish(w)
    /\ wpc' = [wpc EXCEPT ![w] = "returned"]
    /\ WorkerUnchanged
    /\ UNCHANGED <<chunkStatus, cur, attempt, ok, downloads, stateFile, load>>

\* saveDownloadState under stateMutex, up to the truncated file; a file that
\* cannot be opened is left alone, and nobody looks at the returned false
Save(w, during, after) ==
    \/ /\ stateFile' = NoRecord
       /\ wpc' = [wpc EXCEPT ![w] = during]
    \/ /\ StorageFaults
       /\ UNCHANGED stateFile
       /\ wpc' = [wpc EXCEPT ![w] = after]

SaveEnd(w, after) ==
    /\ stateFile' = chunkStatus
    /\ wpc' = [wpc EXCEPT ![w] = after]
    /\ WorkerUnchanged
    /\ UNCHANGED <<schedulerVars, poolVars, chunkStatus, cur, attempt, ok,
                   downloads, load>>

Assign(w) ==
    /\ wpc[w] = "claimed"
    /\ StateMutexFree
    /\ chunkStatus' = [chunkStatus EXCEPT ![cur[w]] = "IN_PROGRESS"]
    /\ Save(w, "assigning", "reserving")
    /\ WorkerUnchanged
    /\ UNCHANGED <<schedulerVars, poolVars, cur, attempt, ok, downloads,
                   load>>

AssignEnd(w) == wpc[w] = "assigning" /\ SaveEnd(w, "reserving")

\* The loop of requestChunkFromAnyPeer goes to its next peer, or gives up.
NextPeer(w) ==
    IF attempt[w] + 1 < Len(usablePeers)
    THEN /\ attempt' = [attempt EXCEPT ![w] = @ + 1]
         /\ wpc' = [wpc EXCEPT ![w] = "reserving"]
    ELSE /\ wpc' = [wpc EXCEPT ![w] = "recording"]
         /\ UNCHANGED attempt

\* the chunk is requested although the reservation failed
BadReserve(w) ==
    /\ wpc[w] = "reserving"
    /\ \/ load' = [load EXCEPT ![PeerOf(w)] = @ + 1]
       \/ "reserve" \in TrackerFaults /\ UNCHANGED load
    /\ wpc' = [wpc EXCEPT ![w] = "connecting"]
    /\ WorkerUnchanged
    /\ UNCHANGED <<schedulerVars, poolVars, chunkStatus, cur, attempt, ok,
                   downloads, stateFile>>

\* reservePeerLoadRemote: the tracker counts, unless it is not reached; an
\* answer that is lost counts as a refusal here and as a request there
Reserve(w) ==
    /\ wpc[w] = "reserving"
    /\ \/ /\ load' = [load EXCEPT ![PeerOf(w)] = @ + 1]
          /\ wpc' = [wpc EXCEPT ![w] = "connecting"]
          /\ UNCHANGED attempt
       \/ /\ "reserve" \in TrackerFaults
          /\ UNCHANGED load
          /\ NextPeer(w)
       \/ /\ "reserveReply" \in TrackerFaults
          /\ load[PeerOf(w)] < MaxLeaks
          /\ load' = [load EXCEPT ![PeerOf(w)] = @ + 1]
          /\ NextPeer(w)
    /\ WorkerUnchanged
    /\ UNCHANGED <<schedulerVars, poolVars, chunkStatus, cur, ok,
                   downloads, stateFile>>

\* requestChunkFromPeer ends before it opens the chunk file: no connection,
\* no header in time, an ERROR or unreadable header
Refused(w) ==
    /\ wpc[w] = "connecting"
    /\ "refused" \in Offers[PeerOf(w)][cur[w]]
    /\ wpc' = [wpc EXCEPT ![w] = "releasing"]
    /\ WorkerUnchanged
    /\ UNCHANGED <<schedulerVars, poolVars, chunkStatus, cur, attempt, ok,
                   downloads, stateFile, load>>

\* receiveChunkData opens the file the chunk will finally be read from ...
OpenChunk(w) ==
    /\ wpc[w] = "connecting"
    /\ Offers[PeerOf(w)][cur[w]] # {"refused"}
    /\ downloads' = [downloads EXCEPT ![cur[w]] = "empty"]
    /\ wpc' = [wpc EXCEPT ![w] = "receiving"]
    /\ WorkerUnchanged
    /\ UNCHANGED <<schedulerVars, poolVars, chunkStatus, cur, attempt, ok,
                   stateFile, load>>

\* ... and writes the bytes into it as they arrive
ReceiveSome(w) ==
    /\ wpc[w] = "receiving"
    /\ downloads[cur[w]] = "empty"
    /\ downloads' = [downloads EXCEPT ![cur[w]] = "wrong"]
    /\ WorkerUnchanged
    /\ UNCHANGED <<schedulerVars, poolVars, chunkStatus, workerVars,
                   stateFile, load>>

\* all bytes are there and hash to the value the sender put in the header:
\* those of the chunk, or those of a damaged copy the sender has
ReceiveAll(w) ==
    /\ wpc[w] = "receiving"
    /\ \/ /\ "good" \in Offers[PeerOf(w)][cur[w]]
          /\ downloads' = [downloads EXCEPT ![cur[w]] = "good"]
       \/ /\ "stale" \in Offers[PeerOf(w)][cur[w]]
          /\ downloads' = [downloads EXCEPT ![cur[w]] = "wrong"]
    /\ ok' = [ok EXCEPT ![w] = TRUE]
    /\ wpc' = [wpc EXCEPT ![w] = "releasing"]
    /\ WorkerUnchanged
    /\ UNCHANGED <<schedulerVars, poolVars, chunkStatus, cur, attempt,
                   stateFile, load>>

\* the hash is not compared, and an early end is taken for the end
BadReceiveBreaks(w) ==
    /\ wpc[w] = "receiving"
    /\ "broken" \in Offers[PeerOf(w)][cur[w]]
    /\ ok' = [ok EXCEPT ![w] = TRUE]
    /\ wpc' = [wpc EXCEPT ![w] = "releasing"]
    /\ WorkerUnchanged
    /\ UNCHANGED <<schedulerVars, poolVars, chunkStatus, cur, attempt, downloads,
                   stateFile, load>>

\* the connection ends early, times out, or the hash differs: file removed
ReceiveBreaks(w) ==
    /\ wpc[w] = "receiving"
    /\ "broken" \in Offers[PeerOf(w)][cur[w]]
    /\ downloads' = [downloads EXCEPT ![cur[w]] = "absent"]
    /\ wpc' = [wpc EXCEPT ![w] = "releasing"]
    /\ WorkerUnchanged
    /\ UNCHANGED <<schedulerVars, poolVars, chunkStatus, cur, attempt, ok,
                   stateFile, load>>

\* the reservation is released on success only
BadReleaseOnFailure(w) ==
    /\ wpc[w] = "releasing"
    /\ \/ /\ ok[w]
          /\ load' = [load EXCEPT ![PeerOf(w)] = IF @ > 0 THEN @ - 1 ELSE 0]
          /\ wpc' = [wpc EXCEPT ![w] = "recording"]
          /\ UNCHANGED attempt
       \/ ~ok[w] /\ NextPeer(w) /\ UNCHANGED load
    /\ WorkerUnchanged
    /\ UNCHANGED <<schedulerVars, poolVars, chunkStatus, cur, ok, downloads,
                   stateFile>>

\* releasePeerLoadRemote: never below zero; a failure is only logged
Release(w) ==
    /\ wpc[w] = "releasing"
    /\ \/ load' = [load EXCEPT ![PeerOf(w)] = IF @ > 0 THEN @ - 1 ELSE 0]
       \/ /\ "release" \in TrackerFaults
          /\ load[PeerOf(w)] < MaxLeaks
          /\ UNCHANGED load
    /\ \/ /\ ok[w]
          /\ wpc' = [wpc EXCEPT ![w] = "recording"]
          /\ UNCHANGED attempt
       \/ ~ok[w] /\ NextPeer(w)
    /\ WorkerUnchanged
    /\ UNCHANGED <<schedulerVars, poolVars, chunkStatus, cur, ok,
                   downloads, stateFile>>

\* the outcome is recorded, and the state file written, outside stateMutex
BadRecordUnlocked(w) ==
    /\ wpc[w] = "recording"
    /\ chunkStatus' = [chunkStatus EXCEPT ![cur[w]] = IF ok[w] THEN "DONE" ELSE "FAILED"]
    /\ wpc' = [wpc EXCEPT ![w] = "marking"]
    /\ WorkerUnchanged
    /\ UNCHANGED <<schedulerVars, poolVars, cur, attempt, ok, downloads, stateFile, load>>

\* the outcome is not looked at
BadRecordDone(w) ==
    /\ wpc[w] = "recording"
    /\ StateMutexFree
    /\ chunkStatus' = [chunkStatus EXCEPT ![cur[w]] = "DONE"]
    /\ wpc' = [wpc EXCEPT ![w] = "marking"]
    /\ WorkerUnchanged
    /\ UNCHANGED <<schedulerVars, poolVars, cur, attempt, ok, downloads, stateFile, load>>

\* stateMutex is taken, and the outcome goes to chunkStatus ...
Record(w) ==
    /\ wpc[w] = "recording"
    /\ StateMutexFree
    /\ chunkStatus' = [chunkStatus EXCEPT ![cur[w]] = IF ok[w] THEN "DONE" ELSE "FAILED"]
    /\ wpc' = [wpc EXCEPT ![w] = "marking"]
    /\ WorkerUnchanged
    /\ UNCHANGED <<schedulerVars, poolVars, cur, attempt, ok, downloads, stateFile, load>>

\* ... then to the scheduler, which has a mutex of its own and is asked for chunks
\* meanwhile, and, still under stateMutex, to the state file
Mark(w) ==
    /\ wpc[w] = "marking"
    /\ IF ok[w] THEN MarkDone(cur[w]) ELSE MarkFailed(cur[w])
    /\ Save(w, "saving", "top")
    /\ WorkerUnchanged
    /\ UNCHANGED <<poolVars, chunkStatus, cur, attempt, ok, downloads, load>>

RecordEnd(w) == wpc[w] = "saving" /\ SaveEnd(w, "top")

-----------------------------------------------------------------------------
(* The end of a process or of a call, and the next call *)

\* what a new call starts with; disk and tracker keep what they have
NewCall ==
    /\ done' = [c \in Chunks |-> FALSE]
    /\ claimed' = [c \in Chunks |-> FALSE]
    /\ pending' = {} /\ running' = {} /\ finished' = {} /\ owner' = "idle"
    /\ mainPc' = "start" /\ usablePeers' = <<>> /\ result' = FALSE
    /\ chunkStatus' = NoRecord
    /\ wpc' = [w \in Workers |-> "idle"]
    /\ cur' = [w \in Workers |-> 0]
    /\ attempt' = [w \in Workers |-> 0]
    /\ ok' = [w \in Workers |-> FALSE]
    /\ UNCHANGED <<downloads, output, load>>

StateFileOpen == mainPc = "saving" \/ \E w \in Workers : wpc[w] \in Writing

\* The process dies.  Of a state file that is being written, some first lines
\* are on disk.
Crash ==
    /\ crashes < MaxCrashes
    /\ mainPc \notin {"start", "returned"}
    /\ crashes' = crashes + 1
    /\ IF StateFileOpen
       THEN \E lines \in 0..totalChunks :
               stateFile' = [c \in Chunks |-> IF c < lines THEN chunkStatus[c]
                                                           ELSE "NOT_STARTED"]
       ELSE UNCHANGED stateFile
    /\ NewCall
    /\ UNCHANGED reruns

\* the user asks for the file again
Rerun ==
    /\ mainPc = "returned"
    /\ reruns < MaxReruns
    /\ reruns' = reruns + 1
    /\ NewCall
    /\ UNCHANGED <<stateFile, crashes>>

\* the download has returned and nobody asks again
Terminated ==
    /\ mainPc = "returned"
    /\ UNCHANGED vars

-----------------------------------------------------------------------------
MainStep ==
    \/ Reject \/ Begin
    \/ \E w \in Workers : Submit(w)
    \/ Wait \/ WaitReturn
    \/ FinalSave \/ FinalSaveEnd
    \/ Check \/ Verify \/ MergeOpen \/ MergeCopy \/ VerifyMerged
    \/ Close

WorkerStep(w) ==
    \/ Start(w) \/ Claim(w) \/ Return(w)
    \/ Assign(w) \/ AssignEnd(w)
    \/ Reserve(w)
    \/ Refused(w) \/ OpenChunk(w)
    \/ ReceiveSome(w) \/ ReceiveAll(w) \/ ReceiveBreaks(w)
    \/ Release(w)
    \/ Record(w) \/ Mark(w) \/ RecordEnd(w)

Next ==
    \/ MainStep
    \/ \E w \in Workers : WorkerStep(w)
    \/ Crash \/ Rerun
    \/ Terminated

SafeSpec == Init /\ [][Next]_vars

\* Threads are scheduled, transfers end (both directions of the socket time
\* out after five seconds) and calls to the tracker return.
Fairness ==
    /\ WF_vars(MainStep)
    /\ \A w \in Workers : WF_vars(WorkerStep(w))

Spec == SafeSpec /\ Fairness

-----------------------------------------------------------------------------
(* Properties *)

\* Types of the locals of downloadFileFromMultiplePeers and its workers.
TypeOK ==
    /\ SchedulerTypeOK
    /\ Pool!PoolTypeOK
    /\ mainPc \in MainState
    /\ usablePeers \in PeerLists \cup {<<>>}
    /\ result \in BOOLEAN
    /\ chunkStatus \in [Chunks -> Status]
    /\ wpc \in [Workers -> WorkerState]
    /\ cur \in [Workers -> Nat]
    /\ attempt \in [Workers -> Nat]
    /\ ok \in [Workers -> BOOLEAN]
    /\ downloads \in [Chunks -> Content]
    /\ stateFile \in [Chunks -> Status]
    /\ output \in {"absent", "wrong", "good"}
    /\ load \in [Peers -> Nat]
    /\ crashes \in Nat /\ reruns \in Nat

\* The scheduler's claimed flags are exactly the chunks workers have in hand,
\* and no chunk is in two hands: two workers never fetch the same chunk into
\* the same file.
ClaimsAreExclusive ==
    /\ \A w \in Workers : wpc[w] \in Holding =>
          cur[w] \in Chunks /\ claimed[cur[w]] /\ ~done[cur[w]]
    /\ \A v, w \in Workers :
          wpc[v] \in Holding /\ wpc[w] \in Holding /\ cur[v] = cur[w] => v = w
    /\ \A c \in Chunks :
          claimed[c] => \E w \in Workers : wpc[w] \in Holding /\ cur[w] = c

\* A worker returns as soon as no chunk is available, though others still work
\* on theirs and may fail.  All the same, when pool.wait returns every chunk is
\* done: the branches "Not all chunks donwloaded" after it are never taken.
AfterWait == {"waited", "saving", "checking", "verifying", "merging",
              "copying", "hashing"}
WaitImpliesAllDone == mainPc \in AfterWait => AllDone

\* The scheduler's done flags and chunkStatus are kept under different mutexes and
\* differ for a while whenever a chunk is recorded.  They say the same to whoever
\* has stateMutex for himself, and once pool.wait has returned, when allDone is
\* asked of the one and findMissingChunks of the other.
StatusAgrees ==
    mainPc \in AfterWait \/ (mainPc # "start" /\ StateMutexFree) =>
        \A c \in Chunks : done[c] <=> chunkStatus[c] = "DONE"

\* The state file has one writer at a time; the main thread's final save, which
\* does not take stateMutex, never meets a worker's.
Writers == {w \in Workers : wpc[w] \in Writing}
OneStateFileWriter ==
    /\ \A v, w \in Writers : v = w
    /\ mainPc = "saving" => Writers = {}

\* The file of a chunk that is marked done is not touched again, whatever the
\* other workers do.
DoneChunkStable ==
    [][\A c \in Chunks : chunkStatus[c] = "DONE" => downloads'[c] = downloads[c]]_vars

\* A request finds no file of its chunk, whatever became of the requests before
\* it, and what becomes of the file until the caller has the answer is what
\* ChunkRequest allows and ChunkTransfer does: no other worker touches it.
RequestsAsSpecified ==
    [][\A w \in Workers :
          /\ wpc[w] \notin Reserved /\ wpc'[w] = "connecting" =>
                Request(w)!RequestInit'
          /\ wpc[w] \in Reserved /\ wpc'[w] \in Reserved =>
                [Request(w)!RequestNext]_(Request(w)!requestVars)]_vars

\* A chunk the state file calls DONE is on disk, through crashes and torn or
\* failed saves, so that skipping it on resume leaves no hole.
PersistedDoneHasFile == \A c \in Chunks : stateFile[c] = "DONE" => ChunkExists(c)

\* Without a crash, and without a peer that hands out damaged copies, what
\* passes verifyAllChunksComplete is the file's true content.
IntactUnlessCrashed ==
    crashes = 0 /\ mainPc \in {"merging", "copying"} =>
        \A c \in Chunks : c \in SharedChunks \/ downloads[c] = "good"

\* true is returned only with the right file in place, whatever crashes,
\* damaged copies and reruns came before.
SuccessMeansIntact ==
    result => /\ output = "good"
              /\ \A c \in Chunks : downloads[c] = "good" /\ chunkStatus[c] = "DONE"

\* The tracker never counts fewer requests of a peer than are under way: no lost
\* call, no lost answer and no crash lets a release take away another worker's
\* reservation.
InFlight(p) == Cardinality({w \in Workers : wpc[w] \in Reserved /\ PeerOf(w) = p})
TransfersAreCounted == \A p \in Peers : load[p] >= InFlight(p)

\* With a tracker that answers and no crash the count is exact, on every path
\* through failover: nothing is left reserved when the download is over.
LoadExact ==
    TrackerFaults = {} /\ crashes = 0 => \A p \in Peers : load[p] = InFlight(p)

\* Failover: as long as some peer of the list delivers each chunk, the download
\* succeeds, however the others fail.
DownloadSucceeds == <>(mainPc = "returned" /\ result)

\* peer.cpp:1067 and 1071: a chunk that passes verifyAllChunksComplete "is
\* present and valid", so the merge reads the file's true content.
VerifiedMeansIntact ==
    mainPc \in {"merging", "copying"} =>
        \A c \in Chunks : c \in SharedChunks \/ downloads[c] = "good"

\* peer.cpp:868-871: when peers fail, pool.wait returns with chunks not done and
\* the download reports "Not all chunks donwloaded".
DownloadReturns == (mainPc = "waiting") ~> (mainPc = "returned")
=============================================================================
