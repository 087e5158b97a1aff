----------------------- MODULE ParallelDownloadProofs -----------------------
(***************************************************************************)
(* Proofs about ParallelDownload, for any number of chunks, workers and    *)
(* peers, any behaviour of the peers, and any number of crashes and faults *)
(* the bounds allow.                                                       *)
(*                                                                         *)
(* The heart is LastOneOut: a worker may return while others hold chunks   *)
(* that can still fail and become available again, but the last worker to  *)
(* return sees no chunk available and nobody else to hold one, so every    *)
(* chunk is done.  It needs ClaimsAreExclusive, and Phases, which ties the *)
(* workers' positions to the sets of the abstract pool.                    *)
(*                                                                         *)
(* The counter of a peer is compared with a set of workers that changes by *)
(* one worker at a time: it grows when a worker is given a reservation and *)
(* shrinks when it gives it back, before it turns to the next peer.  The   *)
(* files are intact because the only chunk file that is neither absent nor *)
(* the chunk is the one some worker is just receiving.                     *)
(***************************************************************************)
EXTENDS TrackedDownload, FoldProofs

\* Where main thread, pool and workers can be at the same time.
Phases ==
    /\ \A w \in Workers :
          /\ w \in running <=> wpc[w] \notin {"idle", "returned"}
          /\ w \in finished <=> wpc[w] = "returned"
          /\ w \in pending => wpc[w] = "idle"
    /\ mainPc \notin {"submitting", "waiting"} => pending = {} /\ running = {}
    /\ mainPc = "start" => finished = {}
    /\ mainPc \in {"waiting"} \cup AfterWait => Submitted # {}
    /\ mainPc \notin {"start", "returned"} =>
          totalChunks > 0 /\ usablePeers # <<>>

LastOneOut == finished # {} /\ running = {} => AllDone

CoreInv == TypeOK /\ Phases /\ ClaimsAreExclusive /\ LastOneOut

\* A worker that is under way has a list of peers to ask, and the peer it asks
\* is one of them.
LEMMA PeerOfIsPeer ==
    ASSUME TypeOK, Phases, NEW w \in Workers, w \in running
    PROVE  PeerOf(w) \in Peers
<1>1. usablePeers # <<>> /\ usablePeers \in Seq(Peers)
    BY PeerListsAssumption DEF Phases, TypeOK
<1> DEFINE n == Len(usablePeers)
           k == cur[w] + attempt[w]
<1>2. n \in Nat /\ n > 0
    BY <1>1
<1>3. k \in Nat
    BY DEF TypeOK
<1> HIDE DEF n, k
<1>4. (k % n) + 1 \in 1..n
    BY <1>2, <1>3
<1>5. usablePeers[(k % n) + 1] \in Peers
    BY <1>1, <1>4 DEF n
<1> QED
    BY <1>5 DEF PeerOf, n, k

\* The pool has room for at least one worker.
LEMMA WorkerCountPositive ==
    ASSUME TypeOK, totalChunks > 0, usablePeers # <<>>
    PROVE  WorkerCount \in Nat /\ WorkerCount > 0
<1>1. usablePeers \in Seq(Peers)
    BY PeerListsAssumption DEF TypeOK
<1>2. Len(usablePeers) \in Nat /\ Len(usablePeers) > 0
    BY <1>1
<1>3. Cardinality(Workers) \in Nat /\ Cardinality(Workers) > 0
    BY WorkersAssumption, FS_CardinalityType, FS_EmptySet
<1>4. totalChunks \in Nat
    BY TotalChunksAssumption
<1> QED
    BY <1>2, <1>3, <1>4 DEF WorkerCount, Lowest

\* The peer index of the core invariant's typing: positions of a worker that is
\* not idle and not returned are positions of a running worker.
LEMMA Underway ==
    ASSUME TypeOK, Phases, NEW w \in Workers,
           wpc[w] \notin {"idle", "returned"}
    PROVE  /\ w \in running
           /\ mainPc \in {"submitting", "waiting"}
           /\ PeerOf(w) \in Peers
<1>1. w \in running /\ mainPc \in {"submitting", "waiting"}
    BY DEF Phases
<1> QED
    BY <1>1, PeerOfIsPeer

-----------------------------------------------------------------------------
\* A new call starts from the initial values.
LEMMA CoreInit == Init => CoreInv
<1> SUFFICES ASSUME Init PROVE CoreInv
    OBVIOUS
<1>1. TypeOK
    BY DEF Init, Pool!PoolInit, TypeOK, SchedulerTypeOK, Pool!PoolTypeOK,
           Pool!OwnerState, MainState, WorkerState, Status, Content, NoRecord
<1>2. Phases
    BY DEF Init, Pool!PoolInit, Phases, AfterWait
<1>3. ClaimsAreExclusive
    BY DEF Init, ClaimsAreExclusive, Holding
<1> QED
    BY <1>1, <1>2, <1>3 DEF CoreInv, LastOneOut, Init, Pool!PoolInit

LEMMA CoreNewCall ==
    ASSUME TypeOK, NewCall, stateFile' \in [Chunks -> Status],
           crashes' \in Nat, reruns' \in Nat
    PROVE  CoreInv'
<1>1. TypeOK'
    BY DEF NewCall, TypeOK, SchedulerTypeOK, Pool!PoolTypeOK,
           Pool!OwnerState, MainState, WorkerState, Status, NoRecord
<1>2. Phases'
    BY DEF NewCall, Phases, AfterWait
<1>3. ClaimsAreExclusive'
    BY DEF NewCall, ClaimsAreExclusive, Holding
<1> QED
    BY <1>1, <1>2, <1>3 DEF CoreInv, LastOneOut, NewCall

-----------------------------------------------------------------------------
(* Typing *)

\* The state file is written with statuses only.
LEMMA SaveTypes ==
    ASSUME TypeOK, NEW w \in Workers, NEW during \in WorkerState,
           NEW after \in WorkerState, Save(w, during, after)
    PROVE  /\ stateFile' \in [Chunks -> Status]
           /\ wpc' \in [Workers -> WorkerState]
<1>1. NoRecord \in [Chunks -> Status]
    BY DEF NoRecord, Status
<1>2. stateFile \in [Chunks -> Status] /\ wpc \in [Workers -> WorkerState]
    BY DEF TypeOK
<1> QED
    BY <1>1, <1>2 DEF Save

\* Going to the next peer keeps the loop's variables typed.
LEMMA NextPeerTypes ==
    ASSUME TypeOK, NEW w \in Workers, NextPeer(w)
    PROVE  /\ attempt' \in [Workers -> Nat]
           /\ wpc' \in [Workers -> WorkerState]
<1>1. attempt[w] + 1 \in Nat
    BY DEF TypeOK
<1>2. CASE attempt[w] + 1 < Len(usablePeers)
    <2>1. /\ attempt' = [attempt EXCEPT ![w] = attempt[w] + 1]
          /\ wpc' = [wpc EXCEPT ![w] = "reserving"]
        BY <1>2 DEF NextPeer
    <2> QED
        BY <1>1, <2>1 DEF TypeOK, WorkerState
<1>3. CASE ~(attempt[w] + 1 < Len(usablePeers))
    <2>1. attempt' = attempt /\ wpc' = [wpc EXCEPT ![w] = "recording"]
        BY <1>3 DEF NextPeer
    <2> QED
        BY <2>1 DEF TypeOK, WorkerState
<1> QED
    BY <1>2, <1>3

LEMMA TypeMain == ASSUME CoreInv, MainStep PROVE TypeOK'
<1> USE DEF CoreInv, TypeOK, SchedulerTypeOK, Pool!PoolTypeOK, Pool!OwnerState,
            MainState, schedulerVars, poolVars, mainVars, workerVars, diskVars,
            boundVars
<1>1. CASE Reject
    BY <1>1 DEF Reject
<1>2. CASE Begin
    <2>1. chunkStatus' \in [Chunks -> Status]
        BY <1>2 DEF Begin, Status
    <2>2. done' \in [Chunks -> BOOLEAN]
        BY <1>2 DEF Begin, ChunkExists, InDownloadDir
    <2> QED
        BY <1>2, <2>1, <2>2 DEF Begin
<1>3. ASSUME NEW w \in Workers, Submit(w) PROVE TypeOK'
    BY <1>3 DEF Submit, Pool!Submit
<1>4. CASE Wait
    BY <1>4 DEF Wait, Pool!Wait
<1>5. CASE WaitReturn
    BY <1>5 DEF WaitReturn, Pool!WaitReturn
<1>6. CASE FinalSave
    BY <1>6 DEF FinalSave, NoRecord, Status
<1>7. CASE FinalSaveEnd
    BY <1>7 DEF FinalSaveEnd
<1>8. CASE Check \/ Verify
    BY <1>8 DEF Check, Verify, GoTo
<1>9. CASE MergeOpen \/ MergeCopy
    BY <1>9 DEF MergeOpen, MergeCopy, GoTo
<1>10. CASE VerifyMerged
    BY <1>10, FaultsAssumption DEF VerifyMerged, GoTo
<1>11. CASE Close
    BY <1>11 DEF Close, Pool!Close, Pool!Closed
<1> QED
    BY <1>1, <1>2, <1>3, <1>4, <1>5, <1>6, <1>7, <1>8, <1>9, <1>10, <1>11
       DEF MainStep

LEMMA TypeWorker ==
    ASSUME CoreInv, NEW w \in Workers, WorkerStep(w) PROVE TypeOK'
<1> USE DEF CoreInv, TypeOK, SchedulerTypeOK, Pool!PoolTypeOK,
            schedulerVars, poolVars, mainVars, workerVars, boundVars,
            WorkerUnchanged
<1>1. CASE Start(w)
    BY <1>1 DEF Start, Pool!Start, WorkerState
<1>2. CASE Claim(w)
    <2>1. PICK c \in Chunks : GetNextChunk(c) /\ cur' = [cur EXCEPT ![w] = c]
        BY <1>2 DEF Claim
    <2>2. c \in Nat
        BY TotalChunksAssumption DEF Chunks
    <2> QED
        BY <1>2, <2>1, <2>2 DEF Claim, GetNextChunk, WorkerState
<1>3. CASE Return(w)
    BY <1>3 DEF Return, NoNextChunk, Pool!Finish, WorkerState
<1>4. CASE Assign(w)
    <2>1. /\ stateFile' \in [Chunks -> Status]
          /\ wpc' \in [Workers -> WorkerState]
        BY <1>4, SaveTypes DEF Assign, WorkerState
    <2> QED
        BY <1>4, <2>1 DEF Assign, Status
<1>5. CASE AssignEnd(w) \/ RecordEnd(w)
    BY <1>5 DEF AssignEnd, RecordEnd, SaveEnd, WorkerState
<1>6. CASE Reserve(w)
    <2>1. PeerOf(w) \in Peers
        BY <1>6, Underway DEF Reserve
    <2>2. load' \in [Peers -> Nat]
        BY <1>6, <2>1 DEF Reserve
    <2>3. attempt' \in [Workers -> Nat] /\ wpc' \in [Workers -> WorkerState]
        BY <1>6, NextPeerTypes DEF Reserve, WorkerState
    <2> QED
        BY <1>6, <2>2, <2>3 DEF Reserve
<1>7. CASE Refused(w)
    BY <1>7 DEF Refused, WorkerState
<1>8. CASE OpenChunk(w) \/ ReceiveSome(w) \/ ReceiveAll(w) \/ ReceiveBreaks(w)
    BY <1>8 DEF OpenChunk, ReceiveSome, ReceiveAll, ReceiveBreaks, WorkerState,
                Content
<1>9. CASE Release(w)
    <2> DEFINE fewer(n) == IF n > 0 THEN n - 1 ELSE 0
    <2>0. \A n \in Nat : fewer(n) \in Nat
        OBVIOUS
    <2>1. load' \in [Peers -> Nat]
        <3>1. CASE load' = [load EXCEPT ![PeerOf(w)] = fewer(@)]
            <4> HIDE DEF fewer
            <4> QED
                BY <2>0, <3>1
        <3>2. CASE load' = load
            BY <3>2
        <3> QED
            BY <1>9, <3>1, <3>2 DEF Release
    <2>2. attempt' \in [Workers -> Nat] /\ wpc' \in [Workers -> WorkerState]
        BY <1>9, NextPeerTypes DEF Release, WorkerState
    <2> QED
        BY <1>9, <2>1, <2>2 DEF Release
<1>10. CASE Record(w)
    BY <1>10 DEF Record, Status, WorkerState
<1>11. CASE Mark(w)
    <2>1. /\ stateFile' \in [Chunks -> Status]
          /\ wpc' \in [Workers -> WorkerState]
        BY <1>11, SaveTypes DEF Mark, WorkerState
    <2> QED
        BY <1>11, <2>1 DEF Mark, MarkDone, MarkFailed
<1> QED
    BY <1>1, <1>2, <1>3, <1>4, <1>5, <1>6, <1>7, <1>8, <1>9, <1>10, <1>11
       DEF WorkerStep

-----------------------------------------------------------------------------
(* Phases, claims, and the last worker out *)

\* Of the workers only w moves, from a busy position to a busy position.
Moves(w) ==
    /\ wpc[w] \notin {"idle", "returned"}
    /\ wpc'[w] \notin {"idle", "returned"}
    /\ \A v \in Workers \ {w} : wpc'[v] = wpc[v] /\ cur'[v] = cur[v]
    /\ UNCHANGED <<poolVars, mainVars>>

\* w keeps its chunk, and the scheduler does not change.
Keeps(w) ==
    /\ Moves(w)
    /\ cur'[w] = cur[w]
    /\ wpc'[w] \in Holding <=> wpc[w] \in Holding
    /\ UNCHANGED schedulerVars

LEMMA FetchingKeeps ==
    ASSUME TypeOK, NEW w \in Workers,
           \/ Assign(w) \/ AssignEnd(w) \/ Reserve(w) \/ Refused(w)
           \/ OpenChunk(w) \/ ReceiveSome(w) \/ ReceiveAll(w)
           \/ ReceiveBreaks(w) \/ Release(w) \/ Record(w) \/ RecordEnd(w)
    PROVE  Keeps(w)
<1> USE DEF TypeOK, Keeps, Moves, Holding, WorkerUnchanged, mainVars, workerVars
<1>1. CASE Assign(w)
    BY <1>1 DEF Assign, Save
<1>2. CASE AssignEnd(w) \/ RecordEnd(w)
    BY <1>2 DEF AssignEnd, RecordEnd, SaveEnd
<1>3. CASE Reserve(w)
    BY <1>3 DEF Reserve, NextPeer
<1>4. CASE Refused(w)
    BY <1>4 DEF Refused
<1>5. CASE OpenChunk(w) \/ ReceiveSome(w)
    BY <1>5 DEF OpenChunk, ReceiveSome
<1>6. CASE ReceiveAll(w) \/ ReceiveBreaks(w)
    BY <1>6 DEF ReceiveAll, ReceiveBreaks
<1>7. CASE Release(w)
    BY <1>7 DEF Release, NextPeer
<1>8. CASE Record(w)
    BY <1>8 DEF Record
<1> QED
    BY <1>1, <1>2, <1>3, <1>4, <1>5, <1>6, <1>7, <1>8

\* A worker that moves is running before and after, so the phases stay.
LEMMA MovesPhases ==
    ASSUME CoreInv, NEW w \in Workers, Moves(w)
    PROVE  Phases' /\ running # {} /\ running' = running
<1>1. w \in running
    BY DEF CoreInv, Phases, Moves
<1>2. \A v \in Workers :
          /\ wpc'[v] \notin {"idle", "returned"} <=> wpc[v] \notin {"idle", "returned"}
          /\ wpc'[v] = "returned" <=> wpc[v] = "returned"
          /\ wpc'[v] = "idle" <=> wpc[v] = "idle"
    BY DEF Moves
<1>3. UNCHANGED <<pending, running, finished, mainPc, usablePeers>>
    BY DEF Moves, poolVars, mainVars
<1>4. Phases'
    BY <1>2, <1>3 DEF CoreInv, Phases, Submitted
<1> QED
    BY <1>1, <1>3, <1>4

LEMMA KeepsCore ==
    ASSUME CoreInv, NEW w \in Workers, Keeps(w), TypeOK' PROVE CoreInv'
<1>1. Phases' /\ running' # {}
    BY MovesPhases DEF Keeps
<1>2. \A v \in Workers :
          (wpc'[v] \in Holding <=> wpc[v] \in Holding) /\ cur'[v] = cur[v]
    BY DEF Keeps, Moves
<1>3. done' = done /\ claimed' = claimed
    BY DEF Keeps, schedulerVars
<1>4. ClaimsAreExclusive'
    BY <1>2, <1>3 DEF CoreInv, ClaimsAreExclusive
<1> QED
    BY <1>1, <1>4 DEF CoreInv, LastOneOut

LEMMA CoreStart ==
    ASSUME CoreInv, NEW w \in Workers, Start(w), TypeOK' PROVE CoreInv'
<1>1. wpc[w] = "idle" /\ wpc'[w] = "top"
    BY DEF CoreInv, TypeOK, Phases, Start, Pool!Start
<1>2. \A v \in Workers \ {w} : wpc'[v] = wpc[v]
    BY DEF CoreInv, TypeOK, Start
<1>3. /\ pending' = pending \ {w} /\ running' = running \cup {w}
      /\ UNCHANGED <<finished, mainPc, usablePeers, done, claimed, cur>>
      /\ w \in pending
    BY DEF Start, Pool!Start, WorkerUnchanged, mainVars, schedulerVars
<1>4. Phases'
    BY <1>1, <1>2, <1>3 DEF CoreInv, Phases, Submitted
<1>5. ClaimsAreExclusive'
    BY <1>1, <1>2, <1>3 DEF CoreInv, ClaimsAreExclusive, Holding
<1> QED
    BY <1>3, <1>4, <1>5 DEF CoreInv, LastOneOut

LEMMA CoreClaim ==
    ASSUME CoreInv, NEW w \in Workers, Claim(w), TypeOK' PROVE CoreInv'
<1>1. PICK c \in Chunks : GetNextChunk(c) /\ cur' = [cur EXCEPT ![w] = c]
    BY DEF Claim
<1>2. Moves(w) /\ wpc[w] = "top" /\ wpc'[w] = "claimed" /\ cur'[w] = c
    BY <1>1 DEF Claim, Moves, CoreInv, TypeOK, WorkerUnchanged, mainVars
<1>3. Phases' /\ running' # {}
    BY <1>2, MovesPhases
<1>4. /\ ~done[c] /\ ~claimed[c] /\ done' = done
      /\ claimed'[c] /\ \A d \in Chunks \ {c} : claimed'[d] = claimed[d]
    BY <1>1 DEF GetNextChunk, Available, CoreInv, TypeOK, SchedulerTypeOK
<1>5. \A v \in Workers : wpc[v] \in Holding => cur[v] \in Chunks \ {c} /\ v # w
    BY <1>2, <1>4 DEF CoreInv, ClaimsAreExclusive, Holding
<1>6. \A v \in Workers \ {w} : wpc'[v] = wpc[v] /\ cur'[v] = cur[v]
    BY <1>2 DEF Moves
<1>7. wpc'[w] \in Holding
    BY <1>2 DEF Holding
<1>8. \A v \in Workers : wpc'[v] \in Holding =>
          cur'[v] \in Chunks /\ claimed'[cur'[v]] /\ ~done'[cur'[v]]
    BY <1>2, <1>4, <1>5, <1>6 DEF CoreInv, ClaimsAreExclusive
<1>9. \A u, v \in Workers :
          wpc'[u] \in Holding /\ wpc'[v] \in Holding /\ cur'[u] = cur'[v] => u = v
    BY <1>2, <1>5, <1>6 DEF CoreInv, ClaimsAreExclusive
<1>10. \A d \in Chunks :
          claimed'[d] => \E v \in Workers : wpc'[v] \in Holding /\ cur'[v] = d
    BY <1>2, <1>4, <1>5, <1>6, <1>7 DEF CoreInv, ClaimsAreExclusive
<1>11. ClaimsAreExclusive'
    BY <1>8, <1>9, <1>10 DEF ClaimsAreExclusive
<1> QED
    BY <1>3, <1>11 DEF CoreInv, LastOneOut

\* A worker returns: if it is the last one, nobody holds a chunk, so no chunk is
\* claimed, and since none is available all are done.
LEMMA CoreReturn ==
    ASSUME CoreInv, NEW w \in Workers, Return(w), TypeOK' PROVE CoreInv'
<1>1. wpc[w] = "top" /\ wpc'[w] = "returned"
    BY DEF CoreInv, TypeOK, Return
<1>2. \A v \in Workers \ {w} : wpc'[v] = wpc[v]
    BY DEF CoreInv, TypeOK, Return
<1>3. /\ running' = running \ {w} /\ finished' = finished \cup {w}
      /\ UNCHANGED <<pending, mainPc, usablePeers, done, claimed, cur>>
      /\ w \in running
    BY DEF Return, NoNextChunk, Pool!Finish, WorkerUnchanged, mainVars,
           schedulerVars
<1>4. Phases'
    <2>1. mainPc \in {"submitting", "waiting"}
        BY <1>3 DEF CoreInv, Phases
    <2> QED
        BY <1>1, <1>2, <1>3, <2>1 DEF CoreInv, Phases, Submitted
<1>5. ClaimsAreExclusive'
    BY <1>1, <1>2, <1>3 DEF CoreInv, ClaimsAreExclusive, Holding
<1>6. ASSUME running' = {} PROVE AllDone
    <2>1. \A v \in Workers : wpc[v] \notin Holding
        BY <1>1, <1>3, <1>6 DEF CoreInv, Phases, Holding
    <2>2. \A c \in Chunks : ~claimed[c]
        BY <2>1 DEF CoreInv, ClaimsAreExclusive
    <2> QED
        BY <2>2 DEF Return, NoNextChunk, Available, AllDone
<1>7. LastOneOut'
    BY <1>3, <1>6 DEF LastOneOut, AllDone
<1> QED
    BY <1>4, <1>5, <1>7 DEF CoreInv

LEMMA CoreMark ==
    ASSUME CoreInv, NEW w \in Workers, Mark(w), TypeOK' PROVE CoreInv'
<1> DEFINE c == cur[w]
<1>1. Moves(w) /\ wpc[w] = "marking" /\ wpc'[w] \in {"saving", "top"}
    BY DEF Mark, Save, Moves, CoreInv, TypeOK, WorkerUnchanged, mainVars
<1>2. Phases' /\ running' # {}
    BY <1>1, MovesPhases
<1>3. c \in Chunks
    BY <1>1 DEF CoreInv, ClaimsAreExclusive, Holding
<1>4. /\ claimed' = [claimed EXCEPT ![c] = FALSE]
      /\ \A d \in Chunks \ {c} : done'[d] = done[d]
      /\ cur' = cur
    BY <1>3 DEF Mark, MarkDone, MarkFailed, CoreInv, TypeOK, SchedulerTypeOK
<1>5. ~claimed'[c] /\ \A d \in Chunks \ {c} : claimed'[d] = claimed[d]
    BY <1>3, <1>4 DEF CoreInv, TypeOK, SchedulerTypeOK
<1>6. \A v \in Workers : wpc'[v] \in Holding =>
          v # w /\ wpc[v] \in Holding /\ cur[v] # c
    BY <1>1 DEF CoreInv, ClaimsAreExclusive, Holding, Moves
<1>7. \A v \in Workers \ {w} : wpc'[v] = wpc[v]
    BY <1>1 DEF Moves
<1>8. ClaimsAreExclusive'
    BY <1>3, <1>4, <1>5, <1>6, <1>7 DEF CoreInv, ClaimsAreExclusive
<1> QED
    BY <1>2, <1>8 DEF CoreInv, LastOneOut

LEMMA CoreWorker ==
    ASSUME CoreInv, NEW w \in Workers, WorkerStep(w) PROVE CoreInv'
<1>1. TypeOK'
    BY TypeWorker
<1>2. CASE \/ Assign(w) \/ AssignEnd(w) \/ Reserve(w) \/ Refused(w)
           \/ OpenChunk(w) \/ ReceiveSome(w) \/ ReceiveAll(w)
           \/ ReceiveBreaks(w) \/ Release(w) \/ Record(w) \/ RecordEnd(w)
    BY <1>1, <1>2, FetchingKeeps, KeepsCore DEF CoreInv
<1>3. CASE Start(w)
    BY <1>1, <1>3, CoreStart
<1>4. CASE Claim(w)
    BY <1>1, <1>4, CoreClaim
<1>5. CASE Return(w)
    BY <1>1, <1>5, CoreReturn
<1>6. CASE Mark(w)
    BY <1>1, <1>6, CoreMark
<1> QED
    BY <1>2, <1>3, <1>4, <1>5, <1>6 DEF WorkerStep

\* The main thread changes neither the workers' positions nor claims, and done
\* only while no worker has returned.
LEMMA CoreMain == ASSUME CoreInv, MainStep PROVE CoreInv'
<1>1. TypeOK'
    BY TypeMain
<1>2. UNCHANGED <<wpc, cur, claimed, running, finished>>
    BY DEF MainStep, Reject, Begin, Submit, Pool!Submit, Wait, Pool!Wait,
           WaitReturn, Pool!WaitReturn, FinalSave, FinalSaveEnd, Check, Verify,
           MergeOpen, MergeCopy, VerifyMerged, GoTo, Close, Pool!Close,
           Pool!Closed, schedulerVars, poolVars, workerVars
<1>3. Phases'
    <2> USE DEF CoreInv, Phases, AfterWait
    <2>1. CASE Reject
        BY <1>2, <2>1 DEF Reject, poolVars, Submitted
    <2>2. CASE Begin
        <3>1. usablePeers' # <<>>
            BY <2>2 DEF Begin
        <3> QED
            BY <1>2, <2>2, <3>1 DEF Begin, poolVars, Submitted
    <2>3. ASSUME NEW w \in Workers, Submit(w) PROVE Phases'
        <3>1. w \notin Submitted /\ pending' = pending \cup {w}
            BY <2>3 DEF Submit, Pool!Submit, Submitted
        <3>2. wpc[w] = "idle"
            BY <3>1 DEF Submitted
        <3> QED
            BY <1>2, <2>3, <3>1, <3>2 DEF Submit, mainVars, Submitted
    <2>4. CASE Wait
        <3>1. WorkerCount \in Nat /\ WorkerCount > 0
            BY <2>4, WorkerCountPositive DEF Wait
        <3>2. Submitted # {}
            BY <2>4, <3>1, FS_EmptySet DEF Wait
        <3> QED
            BY <1>2, <2>4, <3>2 DEF Wait, Pool!Wait, Submitted
    <2>5. CASE WaitReturn
        BY <1>2, <2>5 DEF WaitReturn, Pool!WaitReturn, Pool!Quiet, Submitted
    <2>6. CASE FinalSave \/ FinalSaveEnd
        BY <1>2, <2>6 DEF FinalSave, FinalSaveEnd, poolVars, Submitted
    <2>7. CASE Check \/ Verify
        BY <1>2, <2>7 DEF Check, Verify, GoTo, poolVars, Submitted
    <2>8. CASE MergeOpen \/ MergeCopy \/ VerifyMerged
        BY <1>2, <2>8 DEF MergeOpen, MergeCopy, VerifyMerged, GoTo, poolVars,
                          Submitted
    <2>9. CASE Close
        BY <1>2, <2>9 DEF Close, Pool!Close, Pool!Closed, Submitted
    <2> QED
        BY <2>1, <2>2, <2>3, <2>4, <2>5, <2>6, <2>7, <2>8, <2>9 DEF MainStep
<1>4. CASE Begin
    <2>1. finished = {} /\ running = {}
        BY <1>4 DEF CoreInv, Phases, Begin
    <2>2. \A w \in Workers : wpc[w] \notin Holding
        BY <2>1 DEF CoreInv, Phases, Holding
    <2>3. ClaimsAreExclusive'
        BY <1>2, <2>2 DEF CoreInv, ClaimsAreExclusive
    <2> QED
        BY <1>1, <1>2, <1>3, <2>1, <2>3 DEF CoreInv, LastOneOut
<1>5. CASE ~Begin
    <2>1. done' = done
        BY <1>5 DEF MainStep, Reject, Submit, Wait, WaitReturn, FinalSave,
               FinalSaveEnd, Check, Verify, MergeOpen, MergeCopy, VerifyMerged,
               GoTo, Close, schedulerVars
    <2>2. ClaimsAreExclusive' /\ LastOneOut'
        BY <1>2, <2>1 DEF CoreInv, ClaimsAreExclusive, LastOneOut, AllDone
    <2> QED
        BY <1>1, <1>3, <2>2 DEF CoreInv
<1> QED
    BY <1>4, <1>5

\* What a crash can leave of the state file.
LEMMA CrashTypes ==
    ASSUME TypeOK, Crash PROVE stateFile' \in [Chunks -> Status]
<1>1. CASE StateFileOpen
    <2>1. PICK lines \in 0..totalChunks :
            stateFile' = [c \in Chunks |-> IF c < lines THEN chunkStatus[c]
                                                        ELSE "NOT_STARTED"]
        BY <1>1 DEF Crash
    <2> QED
        BY <2>1 DEF TypeOK, Status
<1>2. CASE ~StateFileOpen
    BY <1>2 DEF Crash, TypeOK
<1> QED
    BY <1>1, <1>2

\* CoreInv is kept by every step.
LEMMA CoreNext == CoreInv /\ [Next]_vars => CoreInv'
<1> SUFFICES ASSUME CoreInv, [Next]_vars PROVE CoreInv'
    OBVIOUS
<1>1. CASE MainStep
    BY <1>1, CoreMain
<1>2. ASSUME NEW w \in Workers, WorkerStep(w) PROVE CoreInv'
    BY <1>2, CoreWorker
<1>3. CASE Crash
    <2>1. stateFile' \in [Chunks -> Status]
        BY <1>3, CrashTypes DEF CoreInv
    <2> QED
        BY <1>3, <2>1, CoreNewCall DEF Crash, CoreInv, TypeOK
<1>4. CASE Rerun
    BY <1>4, CoreNewCall DEF Rerun, CoreInv, TypeOK
<1>5. CASE Terminated \/ UNCHANGED vars
    BY <1>5 DEF Terminated, vars, schedulerVars, poolVars, mainVars, workerVars,
                diskVars, boundVars, CoreInv, TypeOK, SchedulerTypeOK,
                Pool!PoolTypeOK, Phases, Submitted, ClaimsAreExclusive,
                LastOneOut, AllDone
<1> QED
    BY <1>1, <1>2, <1>3, <1>4, <1>5 DEF Next

THEOREM CoreInvariant == SafeSpec => []CoreInv
BY CoreInit, CoreNext, PTL DEF SafeSpec

\* Everything keeps its type: the peer asked is always one of the list, a
\* load counter never goes below zero.
THEOREM TypeCorrect == SafeSpec => []TypeOK
BY CoreInvariant, PTL DEF CoreInv

\* No two workers ever fetch the same chunk, and the scheduler's claims are the
\* chunks in the workers' hands.
THEOREM ClaimsExclusive == SafeSpec => []ClaimsAreExclusive
BY CoreInvariant, PTL DEF CoreInv

\* When pool.wait returns, every chunk is done.
THEOREM WaitComplete == SafeSpec => []WaitImpliesAllDone
<1>1. CoreInv => WaitImpliesAllDone
    <2> SUFFICES ASSUME CoreInv, mainPc \in AfterWait PROVE AllDone
        BY DEF WaitImpliesAllDone
    <2>1. pending = {} /\ running = {}
        BY DEF CoreInv, Phases, AfterWait
    <2>2. finished # {}
        BY <2>1 DEF CoreInv, Phases, Submitted
    <2> QED
        BY <2>1, <2>2 DEF CoreInv, LastOneOut
<1> QED
    BY <1>1, CoreInvariant, PTL

-----------------------------------------------------------------------------
(* The state file's writers *)

\* the workers that have stateMutex
Lockers == {w \in Workers : wpc[w] \in Locked}

\* A worker that has stateMutex, as it does while it writes the state file, is
\* alone with it, and the main thread saves only when no worker is under way.
THEOREM SingleWriter == SafeSpec => []OneStateFileWriter
<1> DEFINE Alone == \A v, w \in Lockers : v = w
<1>1. Init => Alone
    BY DEF Init, Lockers, Locked, Writing
<1>2. CoreInv /\ Alone /\ [Next]_vars => Alone'
    <2> SUFFICES ASSUME CoreInv, Alone, [Next]_vars PROVE Alone'
        OBVIOUS
    <2>1. CASE MainStep
        <3>1. wpc' = wpc
            BY <2>1 DEF MainStep, Reject, Begin, Submit, Wait, WaitReturn,
               FinalSave, FinalSaveEnd, Check, Verify, MergeOpen, MergeCopy,
               VerifyMerged, GoTo, Close, workerVars
        <3> QED
            BY <3>1 DEF Lockers
    <2>2. ASSUME NEW w \in Workers, Assign(w) \/ Record(w) PROVE Alone'
        <3>1. Lockers = {}
            BY <2>2 DEF Assign, Record, StateMutexFree, Lockers
        <3>2. \A v \in Workers \ {w} : wpc'[v] = wpc[v]
            BY <2>2 DEF Assign, Record, Save, CoreInv, TypeOK
        <3> QED
            BY <3>1, <3>2 DEF Lockers
    <2>3. ASSUME NEW w \in Workers, WorkerStep(w), ~(Assign(w) \/ Record(w))
          PROVE  Alone'
        <3>1. wpc'[w] \notin Locked \/ wpc[w] \in Locked
            BY <2>3 DEF WorkerStep, Start, Claim, Return, AssignEnd, RecordEnd,
               SaveEnd, Reserve, NextPeer, Refused, OpenChunk, ReceiveSome,
               ReceiveAll, ReceiveBreaks, Release, Mark, Save, workerVars, Locked,
               Writing, CoreInv, TypeOK
        <3>2. \A v \in Workers \ {w} : wpc'[v] = wpc[v]
            BY <2>3 DEF WorkerStep, Start, Claim, Return, AssignEnd, RecordEnd,
               SaveEnd, Reserve, NextPeer, Refused, OpenChunk, ReceiveSome,
               ReceiveAll, ReceiveBreaks, Release, Mark, Save, workerVars, CoreInv,
               TypeOK
        <3>3. Lockers' \subseteq Lockers
            BY <3>1, <3>2 DEF Lockers
        <3> QED
            BY <3>3
    <2>4. CASE Crash \/ Rerun
        BY <2>4 DEF Crash, Rerun, NewCall, Lockers, Locked, Writing
    <2>5. CASE Terminated \/ UNCHANGED vars
        BY <2>5 DEF Terminated, vars, workerVars, Lockers
    <2> QED
        BY <2>1, <2>2, <2>3, <2>4, <2>5 DEF Next
<1>3. CoreInv /\ Alone => OneStateFileWriter
    <2> SUFFICES ASSUME CoreInv, mainPc = "saving" PROVE Writers = {}
        BY DEF OneStateFileWriter, Writers, Lockers, Locked
    <2>1. running = {}
        BY DEF CoreInv, Phases
    <2> QED
        BY <2>1 DEF CoreInv, Phases, Writers, Writing
<1> HIDE DEF Alone
<1> QED
    BY <1>1, <1>2, <1>3, CoreInvariant, PTL DEF SafeSpec

-----------------------------------------------------------------------------
(* What is done stays done *)

\* Outside of the pool's time no worker is under way.
LEMMA AtRest ==
    ASSUME CoreInv, mainPc \notin {"submitting", "waiting"}
    PROVE  \A w \in Workers : wpc[w] \in {"idle", "returned"}
BY DEF CoreInv, Phases

Receives(w) == OpenChunk(w) \/ ReceiveSome(w) \/ ReceiveAll(w) \/ ReceiveBreaks(w)

\* A worker changes its own position and locals, and the file of its own chunk.
LEMMA OwnStep ==
    ASSUME CoreInv, NEW w \in Workers, WorkerStep(w)
    PROVE  /\ \A v \in Workers \ {w} :
                  wpc'[v] = wpc[v] /\ cur'[v] = cur[v] /\ ok'[v] = ok[v]
           /\ \A c \in Chunks : c # cur[w] => downloads'[c] = downloads[c]
           /\ ~Receives(w) => downloads' = downloads
<1> USE DEF CoreInv, TypeOK, workerVars, Receives
<1>1. CASE Receives(w)
  BY <1>1 DEF OpenChunk, ReceiveSome, ReceiveAll, ReceiveBreaks
<1>2. CASE ~Receives(w)
  <2>1. downloads' = downloads
    BY <1>2 DEF WorkerStep, Start, Claim, Return, Assign, AssignEnd, Reserve,
       Refused, Release, Record, Mark, RecordEnd, SaveEnd
  <2>2. ASSUME NEW v \in Workers \ {w} PROVE wpc'[v] = wpc[v]
    BY <1>2 DEF WorkerStep, Start, Claim, Return, Assign, AssignEnd, Reserve,
       Refused, Release, Record, Mark, RecordEnd, Save, SaveEnd, NextPeer
  <2>3. ASSUME NEW v \in Workers \ {w} PROVE cur'[v] = cur[v] /\ ok'[v] = ok[v]
    BY <1>2 DEF WorkerStep, Start, Claim, Return, Assign, AssignEnd, Reserve,
       Refused, Release, Record, Mark, RecordEnd, SaveEnd
  <2> QED
    BY <2>1, <2>2, <2>3
<1> QED
  BY <1>1, <1>2

\* w has recorded its chunk as done, and is about to tell the scheduler.
BeingMarked(c) == \E w \in Workers : wpc[w] = "marking" /\ cur[w] = c /\ ok[w]

\* chunkStatus is ahead of the scheduler by the chunks that are being marked.
StatusFollows ==
    \A c \in Chunks : chunkStatus[c] = "DONE" <=> done[c] \/ BeingMarked(c)

\* A chunk that is in hand, and not recorded yet, is not done.
LEMMA HeldNotDone ==
    ASSUME CoreInv, StatusFollows, NEW w \in Workers,
           wpc[w] \in Holding, wpc[w] # "marking"
    PROVE  cur[w] \in Chunks /\ ~done[cur[w]] /\ chunkStatus[cur[w]] # "DONE"
<1>1. cur[w] \in Chunks /\ ~done[cur[w]]
    BY DEF CoreInv, ClaimsAreExclusive
<1>2. ~BeingMarked(cur[w])
    BY DEF CoreInv, ClaimsAreExclusive, Holding, BeingMarked
<1> QED
    BY <1>1, <1>2 DEF StatusFollows

\* A step in which nobody marks a chunk, nor comes to.
LEMMA MarkedKept ==
    ASSUME NEW w \in Workers, wpc[w] # "marking", wpc'[w] # "marking",
           \A v \in Workers \ {w} :
               wpc'[v] = wpc[v] /\ cur'[v] = cur[v] /\ ok'[v] = ok[v]
    PROVE  \A c : BeingMarked(c)' <=> BeingMarked(c)
BY DEF BeingMarked

LEMMA FollowsWorker ==
    ASSUME CoreInv, StatusFollows, NEW w \in Workers, WorkerStep(w)
    PROVE  StatusFollows'
<1>1. \A v \in Workers \ {w} :
          wpc'[v] = wpc[v] /\ cur'[v] = cur[v] /\ ok'[v] = ok[v]
    BY OwnStep
<1>2. CASE Assign(w)
    <2>1. cur[w] \in Chunks /\ ~done[cur[w]] /\ chunkStatus[cur[w]] # "DONE"
        BY <1>2, HeldNotDone DEF Assign, Holding
    <2>2. wpc[w] # "marking" /\ wpc'[w] # "marking"
        BY <1>2 DEF Assign, Save, CoreInv, TypeOK
    <2>3. \A c : BeingMarked(c)' <=> BeingMarked(c)
        BY <1>1, <2>2, MarkedKept
    <2>4. /\ done' = done
          /\ \A c \in Chunks : chunkStatus'[c] = "DONE" <=> chunkStatus[c] = "DONE"
        BY <1>2, <2>1 DEF Assign, CoreInv, TypeOK, schedulerVars
    <2> QED
        BY <2>3, <2>4 DEF StatusFollows
<1>3. CASE Record(w)
    <2> DEFINE d == cur[w]
    <2>1. d \in Chunks /\ ~done[d] /\ chunkStatus[d] # "DONE"
        BY <1>3, HeldNotDone DEF Record, Holding
    <2>2. /\ wpc[w] = "recording" /\ wpc'[w] = "marking" /\ done' = done
          /\ cur' = cur /\ ok' = ok
          /\ chunkStatus'[d] = "DONE" <=> ok[w]
          /\ \A c \in Chunks \ {d} : chunkStatus'[c] = chunkStatus[c]
        BY <1>3, <2>1 DEF Record, CoreInv, TypeOK, schedulerVars
    <2>3. \A c : c # d => (BeingMarked(c)' <=> BeingMarked(c))
        BY <1>1, <2>2 DEF BeingMarked
    <2>4. ~BeingMarked(d)
        BY <2>1 DEF StatusFollows
    <2>5. BeingMarked(d)' <=> ok[w]
        BY <1>1, <2>2, <2>4 DEF BeingMarked
    <2> QED
        BY <2>1, <2>2, <2>3, <2>5 DEF StatusFollows
<1>4. CASE Mark(w)
    <2>0. cur[w] \in Chunks /\ ~done[cur[w]]
        BY <1>4 DEF Mark, CoreInv, ClaimsAreExclusive, Holding
    <2>1. PICK d \in Chunks : d = cur[w] /\ ~done[d]
        BY <2>0
    <2>2. /\ wpc[w] = "marking" /\ wpc'[w] # "marking"
          /\ chunkStatus' = chunkStatus
        BY <1>4 DEF Mark, Save, CoreInv, TypeOK
    <2>3. /\ done'[d] <=> ok[w]
          /\ \A c \in Chunks \ {d} : done'[c] = done[c]
        BY <1>4, <2>1 DEF Mark, MarkDone, MarkFailed, CoreInv, TypeOK,
                          SchedulerTypeOK
    <2>4. \A c : c # d => (BeingMarked(c)' <=> BeingMarked(c))
        BY <1>1, <2>1, <2>2 DEF BeingMarked
    <2>5. \A v \in Workers : wpc[v] = "marking" /\ cur[v] = d => v = w
        BY <2>1, <2>2 DEF CoreInv, ClaimsAreExclusive, Holding
    <2>6. (BeingMarked(d) <=> ok[w]) /\ ~BeingMarked(d)'
        BY <1>1, <2>1, <2>2, <2>5 DEF BeingMarked
    <2>7. chunkStatus'[d] = "DONE" <=> done'[d] \/ BeingMarked(d)'
        BY <2>1, <2>2, <2>3, <2>6 DEF StatusFollows
    <2>8. ASSUME NEW c \in Chunks, c # d
          PROVE  chunkStatus'[c] = "DONE" <=> done'[c] \/ BeingMarked(c)'
        BY <2>2, <2>3, <2>4, <2>8 DEF StatusFollows
    <2> QED
        BY <2>7, <2>8 DEF StatusFollows
<1>5. CASE ~(Assign(w) \/ Record(w) \/ Mark(w))
    <2>1. UNCHANGED <<done, chunkStatus>>
        BY <1>5 DEF WorkerStep, Start, Claim, GetNextChunk, Return, NoNextChunk,
           AssignEnd, RecordEnd, SaveEnd, Reserve, Refused, OpenChunk,
           ReceiveSome, ReceiveAll, ReceiveBreaks, Release, schedulerVars
    <2>2. wpc[w] # "marking"
        BY <1>5 DEF WorkerStep, Start, Pool!Start, Phases, Claim, Return,
           AssignEnd, RecordEnd, Reserve, Refused, OpenChunk, ReceiveSome,
           ReceiveAll, ReceiveBreaks, Release, CoreInv
    <2>3. wpc'[w] # "marking"
        BY <1>5, <2>2 DEF WorkerStep, Start, Claim, Return, AssignEnd, RecordEnd,
           SaveEnd, Reserve, NextPeer, Refused, OpenChunk, ReceiveSome,
           ReceiveAll, ReceiveBreaks, Release, workerVars, CoreInv, TypeOK
    <2>4. \A c : BeingMarked(c)' <=> BeingMarked(c)
        BY <1>1, <2>2, <2>3, MarkedKept
    <2> QED
        BY <2>1, <2>4 DEF StatusFollows
<1> QED
    BY <1>2, <1>3, <1>4, <1>5

LEMMA StatusInvariant == SafeSpec => []StatusFollows
<1>1. Init => StatusFollows
    BY DEF Init, StatusFollows, BeingMarked, NoRecord
<1>2. CoreInv /\ StatusFollows /\ [Next]_vars => StatusFollows'
    <2> SUFFICES ASSUME CoreInv, StatusFollows, [Next]_vars PROVE StatusFollows'
        OBVIOUS
    <2>1. CASE Begin
        <3>1. \A w \in Workers : wpc'[w] # "marking"
            BY <2>1, AtRest DEF Begin, workerVars
        <3> QED
            BY <2>1, <3>1 DEF Begin, StatusFollows, BeingMarked
    <2>2. CASE MainStep /\ ~Begin
        <3>1. UNCHANGED <<done, chunkStatus, wpc, cur, ok>>
            BY <2>2 DEF MainStep, Reject, Submit, Wait, WaitReturn, FinalSave,
               FinalSaveEnd, Check, Verify, MergeOpen, MergeCopy, VerifyMerged,
               GoTo, Close, schedulerVars, workerVars
        <3> QED
            BY <3>1 DEF StatusFollows, BeingMarked
    <2>3. ASSUME NEW w \in Workers, WorkerStep(w) PROVE StatusFollows'
        BY <2>3, FollowsWorker
    <2>4. CASE Crash \/ Rerun
        BY <2>4 DEF Crash, Rerun, NewCall, NoRecord, StatusFollows, BeingMarked
    <2>5. CASE Terminated \/ UNCHANGED vars
        BY <2>5 DEF Terminated, vars, schedulerVars, workerVars, StatusFollows,
                    BeingMarked
    <2> QED
        BY <2>1, <2>2, <2>3, <2>4, <2>5 DEF Next
<1> QED
    BY <1>1, <1>2, CoreInvariant, PTL DEF SafeSpec

\* A recorded chunk is in chunkStatus before the scheduler has it (peer.cpp:836 and
\* 838), and only its worker is in between, with stateMutex locked: whoever has the
\* mutex to himself, and everybody once pool.wait has returned, finds the same
\* chunks done in both.
THEOREM StatusAgreement == SafeSpec => []StatusAgrees
<1>1. CoreInv /\ StatusFollows => StatusAgrees
    <2> SUFFICES ASSUME CoreInv, StatusFollows,
                        mainPc \in AfterWait \/ StateMutexFree,
                        NEW c \in Chunks
                 PROVE  done[c] <=> chunkStatus[c] = "DONE"
        BY DEF StatusAgrees
    <2>1. ASSUME NEW w \in Workers PROVE wpc[w] # "marking"
        <3>1. CASE mainPc \in AfterWait
            BY <2>1, <3>1, AtRest DEF AfterWait
        <3>2. CASE StateMutexFree
            BY <2>1, <3>2 DEF StateMutexFree, Locked
        <3> QED
            BY <3>1, <3>2
    <2>2. ~BeingMarked(c)
        BY <2>1 DEF BeingMarked
    <2> QED
        BY <2>2 DEF StatusFollows
<1> QED
    BY <1>1, CoreInvariant, StatusInvariant, PTL

\* The file of a chunk marked done is never written again by this call: the only
\* worker that could is the one holding the chunk, and a held chunk is not done.
THEOREM DoneStable == SafeSpec => DoneChunkStable
<1> DEFINE Stable == \A c \in Chunks :
                        chunkStatus[c] = "DONE" => downloads'[c] = downloads[c]
<1>1. CoreInv /\ StatusFollows /\ [Next]_vars => [Stable]_vars
    <2> SUFFICES ASSUME CoreInv, StatusFollows, Next PROVE Stable
        OBVIOUS
    <2>1. CASE MainStep
        BY <2>1 DEF MainStep, Reject, Begin, Submit, Wait, WaitReturn,
           FinalSave, FinalSaveEnd, Check, Verify, MergeOpen, MergeCopy,
           VerifyMerged, GoTo, Close, diskVars
    <2>2. ASSUME NEW w \in Workers,
                 \/ OpenChunk(w) \/ ReceiveSome(w) \/ ReceiveAll(w)
                 \/ ReceiveBreaks(w)
          PROVE  Stable
        <3>1. wpc[w] \in Holding /\ wpc[w] # "marking"
            BY <2>2 DEF OpenChunk, ReceiveSome, ReceiveAll, ReceiveBreaks, Holding
        <3>2. cur[w] \in Chunks /\ chunkStatus[cur[w]] # "DONE"
            BY <3>1, HeldNotDone
        <3>3. \A c \in Chunks : c # cur[w] => downloads'[c] = downloads[c]
            BY <2>2 DEF OpenChunk, ReceiveSome, ReceiveAll, ReceiveBreaks,
                        CoreInv, TypeOK
        <3> QED
            BY <3>2, <3>3
    <2>3. ASSUME NEW w \in Workers, WorkerStep(w),
                 ~ \/ OpenChunk(w) \/ ReceiveSome(w) \/ ReceiveAll(w)
                   \/ ReceiveBreaks(w)
          PROVE  Stable
        BY <2>3 DEF WorkerStep, Start, Claim, Return, Assign, AssignEnd,
           RecordEnd, SaveEnd, Reserve, Refused, Release, Record, Mark
    <2>4. CASE Crash \/ Rerun \/ Terminated
        BY <2>4 DEF Crash, Rerun, NewCall, Terminated, vars, diskVars
    <2> QED
        BY <2>1, <2>2, <2>3, <2>4 DEF Next
<1> QED
    BY <1>1, CoreInvariant, StatusInvariant, PTL DEF SafeSpec, DoneChunkStable

-----------------------------------------------------------------------------
(* The state file and the chunk files *)

Fetching == {"claimed", "assigning", "reserving", "connecting", "receiving"}

\* `ok` is true only of a worker whose chunk file is complete.
OkMeansFile ==
    \A w \in Workers :
        /\ wpc[w] \in Fetching => ~ok[w]
        /\ wpc[w] \in {"releasing", "recording", "marking"} /\ ok[w] =>
              InDownloadDir(cur[w])

DoneHasFile == \A c \in Chunks : chunkStatus[c] = "DONE" => ChunkExists(c)

\* During a call the state file never says DONE of a chunk that is not.
FileBehindStatus ==
    mainPc \notin {"start", "returned"} =>
        \A c \in Chunks : stateFile[c] = "DONE" => chunkStatus[c] = "DONE"

DiskInv ==
    OkMeansFile /\ DoneHasFile /\ FileBehindStatus /\ PersistedDoneHasFile

LEMMA DiskMain ==
    ASSUME CoreInv, DiskInv, MainStep PROVE DiskInv'
<1> USE DEF DiskInv, OkMeansFile, DoneHasFile, FileBehindStatus,
            PersistedDoneHasFile, ChunkExists, InDownloadDir
<1>1. CASE Begin
    BY <1>1 DEF Begin, workerVars, diskVars
<1>2. CASE FinalSave \/ FinalSaveEnd
    BY <1>2 DEF FinalSave, FinalSaveEnd, workerVars, NoRecord
<1>3. CASE MainStep /\ ~Begin /\ ~(FinalSave \/ FinalSaveEnd)
    <2>1. UNCHANGED <<wpc, ok, cur, downloads, chunkStatus, stateFile>>
        BY <1>3 DEF MainStep, Reject, Submit, Wait, WaitReturn, Check, Verify,
           MergeOpen, MergeCopy, VerifyMerged, GoTo, Close, diskVars, workerVars
    <2>2. mainPc' \in {"start", "returned"} \/ mainPc \notin {"start", "returned"}
        BY <1>3 DEF MainStep, Reject, Submit, Wait, WaitReturn, Check, Verify,
           MergeOpen, MergeCopy, VerifyMerged, GoTo, Close, mainVars
    <2> QED
        BY <2>1, <2>2
<1> QED
    BY <1>1, <1>2, <1>3

\* Steps of a worker that leave the chunk files alone.
LEMMA DiskWorkerFile ==
    ASSUME CoreInv, StatusFollows, DiskInv, NEW w \in Workers,
           \/ Start(w) \/ Claim(w) \/ Return(w) \/ Assign(w) \/ AssignEnd(w)
           \/ Reserve(w) \/ Refused(w) \/ Release(w) \/ Record(w) \/ Mark(w)
           \/ RecordEnd(w)
    PROVE  DiskInv'
<1> USE DEF DiskInv, OkMeansFile, DoneHasFile, FileBehindStatus,
            PersistedDoneHasFile, ChunkExists, InDownloadDir, Fetching,
            CoreInv, TypeOK, WorkerUnchanged, mainVars
<1>1. CASE Start(w) \/ Return(w)
    BY <1>1 DEF Start, Return
<1>2. CASE Claim(w)
    BY <1>2 DEF Claim
<1>3. CASE Assign(w)
    <2>1. \A c \in Chunks : chunkStatus'[c] = "DONE" => chunkStatus[c] = "DONE"
        BY <1>3 DEF Assign
    <2>2. cur[w] \in Chunks /\ chunkStatus[cur[w]] # "DONE"
        BY <1>3, HeldNotDone DEF Assign, Holding
    <2>3. OkMeansFile'
        BY <1>3 DEF Assign, Save
    <2>4. \A c \in Chunks : stateFile'[c] = "DONE" => stateFile[c] = "DONE"
        BY <1>3 DEF Assign, Save, NoRecord
    <2>5. \A c \in Chunks : chunkStatus[c] = "DONE" => chunkStatus'[c] = "DONE"
        BY <1>3, <2>2 DEF Assign
    <2> QED
        BY <1>3, <2>1, <2>3, <2>4, <2>5 DEF Assign
<1>4. CASE AssignEnd(w) \/ RecordEnd(w)
    BY <1>4 DEF AssignEnd, RecordEnd, SaveEnd
<1>5. CASE Reserve(w)
    BY <1>5 DEF Reserve, NextPeer
<1>6. CASE Refused(w)
    BY <1>6 DEF Refused
<1>7. CASE Release(w)
    BY <1>7 DEF Release, NextPeer
<1>8. CASE Record(w)
    <2>1. cur[w] \in Chunks /\ chunkStatus[cur[w]] # "DONE"
        BY <1>8, HeldNotDone DEF Record, Holding
    <2>2. \A c \in Chunks : chunkStatus[c] = "DONE" => chunkStatus'[c] = "DONE"
        BY <1>8, <2>1 DEF Record
    <2>3. DoneHasFile'
        BY <1>8 DEF Record
    <2>4. OkMeansFile'
        BY <1>8 DEF Record
    <2> QED
        BY <1>8, <2>2, <2>3, <2>4 DEF Record
<1>9. CASE Mark(w)
    <2>1. \A c \in Chunks : stateFile'[c] = "DONE" => stateFile[c] = "DONE"
        BY <1>9 DEF Mark, Save, NoRecord
    <2>2. OkMeansFile'
        BY <1>9 DEF Mark, Save
    <2> QED
        BY <1>9, <2>1, <2>2 DEF Mark
<1> QED
    BY <1>1, <1>2, <1>3, <1>4, <1>5, <1>6, <1>7, <1>8, <1>9

\* Steps of a worker that write or remove the file of the chunk it holds.
LEMMA DiskWorkerReceive ==
    ASSUME CoreInv, StatusFollows, DiskInv, NEW w \in Workers,
           \/ OpenChunk(w) \/ ReceiveSome(w) \/ ReceiveAll(w) \/ ReceiveBreaks(w)
    PROVE  DiskInv'
<1> USE DEF CoreInv, TypeOK
<1>1. wpc[w] \in Fetching /\ wpc[w] \in Holding /\ w \in running
    BY DEF OpenChunk, ReceiveSome, ReceiveAll, ReceiveBreaks, Fetching, Holding,
           Phases
<1>2. cur[w] \in Chunks /\ chunkStatus[cur[w]] # "DONE"
    BY <1>1, HeldNotDone DEF Fetching
<1>3. mainPc \notin {"start", "returned"}
    BY <1>1 DEF Phases
<1>4. stateFile[cur[w]] # "DONE"
    BY <1>2, <1>3 DEF DiskInv, FileBehindStatus
<1>5. /\ UNCHANGED <<chunkStatus, stateFile, cur, mainPc>>
      /\ \A c \in Chunks \ {cur[w]} : downloads'[c] = downloads[c]
      /\ \A v \in Workers \ {w} : wpc'[v] = wpc[v] /\ ok'[v] = ok[v]
    BY DEF OpenChunk, ReceiveSome, ReceiveAll, ReceiveBreaks, WorkerUnchanged,
           mainVars, workerVars
<1>6. DoneHasFile' /\ FileBehindStatus' /\ PersistedDoneHasFile'
    BY <1>2, <1>4, <1>5 DEF DiskInv, DoneHasFile, FileBehindStatus,
       PersistedDoneHasFile, ChunkExists, InDownloadDir
<1>7. /\ wpc'[w] \in Fetching => ~ok'[w]
      /\ wpc'[w] \in {"releasing", "recording", "marking"} /\ ok'[w] => InDownloadDir(cur[w])'
    BY <1>1, <1>2 DEF OpenChunk, ReceiveSome, ReceiveAll, ReceiveBreaks,
       DiskInv, OkMeansFile, Fetching, InDownloadDir, workerVars
<1>8. \A v \in Workers \ {w} : wpc[v] \in {"releasing", "recording", "marking"} =>
          cur[v] \in Chunks /\ cur[v] # cur[w]
    BY <1>1 DEF ClaimsAreExclusive, Holding
<1>9. OkMeansFile'
    BY <1>5, <1>7, <1>8 DEF DiskInv, OkMeansFile, InDownloadDir
<1> QED
    BY <1>6, <1>9 DEF DiskInv

LEMMA DiskInvariant == SafeSpec => []DiskInv
<1>1. Init => DiskInv
    BY DEF Init, DiskInv, OkMeansFile, DoneHasFile, FileBehindStatus,
           PersistedDoneHasFile, NoRecord, Fetching
<1>2. CoreInv /\ StatusFollows /\ DiskInv /\ [Next]_vars => DiskInv'
    <2> SUFFICES ASSUME CoreInv, StatusFollows, DiskInv, [Next]_vars
                 PROVE  DiskInv'
        OBVIOUS
    <2>1. CASE MainStep
        BY <2>1, DiskMain
    <2>2. ASSUME NEW w \in Workers, WorkerStep(w) PROVE DiskInv'
        BY <2>2, DiskWorkerFile, DiskWorkerReceive DEF WorkerStep
    <2>3. CASE Crash
        <3>1. \A c \in Chunks : stateFile'[c] = "DONE" =>
                  stateFile[c] = "DONE" \/ chunkStatus[c] = "DONE"
            BY <2>3 DEF Crash
        <3> QED
            BY <2>3, <3>1 DEF Crash, NewCall, DiskInv, OkMeansFile, DoneHasFile,
               FileBehindStatus, PersistedDoneHasFile, ChunkExists,
               InDownloadDir, NoRecord, Fetching
    <2>4. CASE Rerun
        BY <2>4 DEF Rerun, NewCall, DiskInv, OkMeansFile, DoneHasFile,
           FileBehindStatus, PersistedDoneHasFile, ChunkExists, InDownloadDir,
           NoRecord, Fetching
    <2>5. CASE Terminated \/ UNCHANGED vars
        BY <2>5 DEF Terminated, vars, mainVars, workerVars, diskVars, DiskInv,
           OkMeansFile, DoneHasFile, FileBehindStatus, PersistedDoneHasFile,
           ChunkExists, InDownloadDir
    <2> QED
        BY <2>1, <2>2, <2>3, <2>4, <2>5 DEF Next
<1> QED
    BY <1>1, <1>2, CoreInvariant, StatusInvariant, PTL DEF SafeSpec

\* Only a chunk that is done is ever in the state file as DONE, whole, torn or
\* stale, and a done chunk has a file.
THEOREM PersistedHasFile == SafeSpec => []PersistedDoneHasFile
<1>1. DiskInv => PersistedDoneHasFile
    BY DEF DiskInv
<1> QED
    BY <1>1, DiskInvariant, PTL

-----------------------------------------------------------------------------
(* Workers and the phases of a call *)

\* A worker that takes a step is one the pool has started, or starts.
LEMMA WorkersAtWork ==
    ASSUME CoreInv, NEW w \in Workers, WorkerStep(w)
    PROVE  mainPc \in {"submitting", "waiting"} /\ mainPc' = mainPc
<1>1. mainPc' = mainPc
  BY DEF WorkerStep, Start, Claim, Return, Assign, AssignEnd, Reserve, Refused,
     OpenChunk, ReceiveSome, ReceiveAll, ReceiveBreaks, Release, Record, Mark, RecordEnd,
     SaveEnd, WorkerUnchanged, mainVars
<1>2. CASE Start(w)
  BY <1>1, <1>2 DEF Start, Pool!Start, CoreInv, Phases
<1>3. CASE ~Start(w)
  <2>1. wpc[w] \notin {"idle", "returned"}
    BY <1>3 DEF WorkerStep, Claim, Return, Assign, AssignEnd, Reserve, Refused,
       OpenChunk, ReceiveSome, ReceiveAll, ReceiveBreaks, Release, Record, Mark, RecordEnd
  <2> QED
    BY <1>1, <2>1 DEF CoreInv, Phases
<1> QED
  BY <1>2, <1>3

-----------------------------------------------------------------------------
(* The load counters *)

\* the workers with a reservation of peer p
Flight(p) == {w \in Workers : wpc[w] \in Reserved /\ PeerOf(w) = p}

Counted ==
    \A p \in Peers :
        /\ load[p] >= InFlight(p)
        /\ TrackerFaults = {} /\ crashes = 0 => load[p] = InFlight(p)

LEMMA FlightIsFinite ==
    \A p : IsFiniteSet(Flight(p)) /\ InFlight(p) = Cardinality(Flight(p))
           /\ InFlight(p) \in Nat
<1> SUFFICES ASSUME NEW p
             PROVE  /\ IsFiniteSet(Flight(p)) /\ InFlight(p) = Cardinality(Flight(p))
                    /\ InFlight(p) \in Nat
  OBVIOUS
<1>1. Flight(p) \in SUBSET Workers
  BY DEF Flight
<1>2. IsFiniteSet(Flight(p))
  BY <1>1, WorkersAssumption, FS_Subset
<1>3. InFlight(p) = Cardinality(Flight(p))
  BY DEF InFlight, Flight
<1> QED
  BY <1>2, <1>3, FS_CardinalityType

\* the same in the next state
LEMMA FlightIsFiniteNext ==
    \A p : IsFiniteSet(Flight(p)') /\ InFlight(p)' = Cardinality(Flight(p)')
<1> SUFFICES ASSUME NEW p
             PROVE  IsFiniteSet(Flight(p)') /\ InFlight(p)' = Cardinality(Flight(p)')
  OBVIOUS
<1>1. Flight(p)' \in SUBSET Workers
  BY DEF Flight
<1>2. IsFiniteSet(Flight(p)')
  BY <1>1, WorkersAssumption, FS_Subset
<1> QED
  BY <1>2 DEF InFlight, Flight

LEMMA SamePeer ==
    ASSUME NEW w, cur'[w] = cur[w], attempt'[w] = attempt[w],
           usablePeers' = usablePeers
    PROVE  PeerOf(w)' = PeerOf(w)
BY DEF PeerOf

\* The other workers keep theirs.
OthersKeep(w) ==
    /\ usablePeers' = usablePeers
    /\ \A v \in Workers \ {w} :
          wpc'[v] = wpc[v] /\ cur'[v] = cur[v] /\ attempt'[v] = attempt[v]

LEMMA OthersFlight ==
    ASSUME NEW w \in Workers, OthersKeep(w), NEW p
    PROVE  Flight(p)' \ {w} = Flight(p) \ {w}
<1>1. \A v \in Workers \ {w} : wpc'[v] = wpc[v] /\ PeerOf(v)' = PeerOf(v)
  BY SamePeer DEF OthersKeep
<1> QED
  BY <1>1 DEF Flight

LEMMA FlightKept ==
    ASSUME Counted, NEW w \in Workers, OthersKeep(w), load' = load,
           crashes' = crashes,
           \/ wpc[w] \notin Reserved /\ wpc'[w] \notin Reserved
           \/ /\ wpc[w] \in Reserved /\ wpc'[w] \in Reserved
              /\ cur'[w] = cur[w] /\ attempt'[w] = attempt[w]
    PROVE  Counted'
<1>1. ASSUME NEW p PROVE Flight(p)' = Flight(p)
  <2>1. Flight(p)' \ {w} = Flight(p) \ {w}
    BY OthersFlight
  <2>2. w \in Flight(p)' <=> w \in Flight(p)
    BY SamePeer DEF Flight, OthersKeep
  <2> QED
    BY <2>1, <2>2
<1>2. \A p : InFlight(p)' = InFlight(p)
  BY <1>1, FlightIsFinite, FlightIsFiniteNext
<1> QED
  BY <1>2 DEF Counted

\* A worker is given a reservation, and the tracker counts it.
LEMMA FlightGrows ==
    ASSUME Counted, TypeOK, NEW w \in Workers, OthersKeep(w),
           PeerOf(w) \in Peers, crashes' = crashes,
           load' = [load EXCEPT ![PeerOf(w)] = @ + 1],
           wpc[w] \notin Reserved, wpc'[w] \in Reserved,
           cur'[w] = cur[w], attempt'[w] = attempt[w]
    PROVE  Counted'
<1>0. PICK q \in Peers : q = PeerOf(w)
  OBVIOUS
<1>1. w \in Flight(q)' /\ w \notin Flight(q)
  BY <1>0, SamePeer DEF Flight, OthersKeep
<1>2. \A p : p # q => w \notin Flight(p) /\ w \notin Flight(p)'
  BY <1>0, SamePeer DEF Flight, OthersKeep
<1>3. \A p : Flight(p)' \ {w} = Flight(p) \ {w}
  BY OthersFlight
<1>4. Flight(q)' = Flight(q) \cup {w}
  <2>1. Flight(q)' \ {w} = Flight(q) \ {w}
    BY <1>3
  <2> QED
    BY <1>1, <2>1
<1>5. \A p : p # q => Flight(p)' = Flight(p)
  BY <1>2, <1>3
<1>6. InFlight(q)' = InFlight(q) + 1
  BY <1>1, <1>4, FlightIsFinite, FlightIsFiniteNext, FS_AddElement
<1>7. \A p : p # q => InFlight(p)' = InFlight(p)
  BY <1>5, FlightIsFinite, FlightIsFiniteNext
<1>8. /\ load'[q] = load[q] + 1 /\ load[q] \in Nat
      /\ \A p \in Peers : p # q => load'[p] = load[p]
  BY <1>0 DEF TypeOK
<1> SUFFICES ASSUME NEW p \in Peers
             PROVE  /\ load'[p] >= InFlight(p)'
                    /\ TrackerFaults = {} /\ crashes = 0 => load'[p] = InFlight(p)'
  BY DEF Counted
<1>9. InFlight(p) \in Nat
  BY FlightIsFinite
<1>10. CASE p = q
  <2>1. InFlight(p)' = InFlight(p) + 1 /\ load'[p] = load[p] + 1 /\ load[p] \in Nat
    BY <1>6, <1>8, <1>10
  <2>2. /\ load[p] >= InFlight(p)
        /\ TrackerFaults = {} /\ crashes = 0 => load[p] = InFlight(p)
    BY DEF Counted
  <2> QED
    BY <1>9, <2>1, <2>2
<1>11. CASE p # q
  BY <1>7, <1>8, <1>11 DEF Counted
<1> QED
  BY <1>10, <1>11

\* A worker gives its reservation back; unless the call is lost the tracker has
\* something to take away, because it counts this very worker.
LEMMA FlightShrinks ==
    ASSUME Counted, TypeOK, NEW w \in Workers, OthersKeep(w),
           PeerOf(w) \in Peers, crashes' = crashes,
           \/ load' = [load EXCEPT ![PeerOf(w)] = IF @ > 0 THEN @ - 1 ELSE 0]
           \/ TrackerFaults # {} /\ load' = load,
           wpc[w] \in Reserved, wpc'[w] \notin Reserved
    PROVE  Counted'
<1>0. PICK q \in Peers : q = PeerOf(w)
  OBVIOUS
<1>1. w \in Flight(q) /\ \A p : w \notin Flight(p)'
  BY <1>0 DEF Flight
<1>2. \A p : p # q => w \notin Flight(p)
  BY <1>0 DEF Flight
<1>3. \A p : Flight(p)' \ {w} = Flight(p) \ {w}
  BY OthersFlight
<1>4. Flight(q)' = Flight(q) \ {w}
  <2>1. Flight(q)' \ {w} = Flight(q) \ {w} /\ w \notin Flight(q)'
    BY <1>1, <1>3
  <2> QED
    BY <2>1
<1>5. \A p : p # q => Flight(p)' = Flight(p)
  BY <1>1, <1>2, <1>3
<1>6. InFlight(q)' = InFlight(q) - 1 /\ InFlight(q) > 0
  <2>1. InFlight(q)' = InFlight(q) - 1
    BY <1>1, <1>4, FlightIsFinite, FlightIsFiniteNext, FS_RemoveElement
  <2>2. InFlight(q) # 0 /\ InFlight(q) \in Nat
    BY <1>1, FlightIsFinite, FS_EmptySet
  <2> QED
    BY <2>1, <2>2
<1>7. load[q] \in Nat /\ load[q] > 0
  <2>1. load[q] \in Nat /\ load[q] >= InFlight(q)
    BY DEF TypeOK, Counted
  <2>2. InFlight(q) \in Nat
    BY FlightIsFinite
  <2> QED
    BY <1>6, <2>1, <2>2
<1>8. /\ \/ load'[q] = load[q] - 1
         \/ load'[q] = load[q] /\ TrackerFaults # {}
      /\ \A p \in Peers : p # q => load'[p] = load[p]
  BY <1>0, <1>7 DEF TypeOK
<1>9. \A p : p # q => InFlight(p)' = InFlight(p)
  BY <1>5, FlightIsFinite, FlightIsFiniteNext
<1> SUFFICES ASSUME NEW p \in Peers
             PROVE  /\ load'[p] >= InFlight(p)'
                    /\ TrackerFaults = {} /\ crashes = 0 => load'[p] = InFlight(p)'
  BY DEF Counted
<1>10. InFlight(p) \in Nat
  BY FlightIsFinite
<1>11. CASE p = q
  <2>1. /\ InFlight(p)' = InFlight(p) - 1 /\ load[p] \in Nat
        /\ \/ load'[p] = load[p] - 1
           \/ load'[p] = load[p] /\ TrackerFaults # {}
    BY <1>6, <1>7, <1>8, <1>11
  <2>2. /\ load[p] >= InFlight(p)
        /\ TrackerFaults = {} /\ crashes = 0 => load[p] = InFlight(p)
    BY DEF Counted
  <2> QED
    BY <1>10, <2>1, <2>2
<1>12. CASE p # q
  BY <1>8, <1>9, <1>12 DEF Counted
<1> QED
  BY <1>11, <1>12

\* The tracker counts a request that the caller takes for refused.
LEMMA LoadLeaks ==
    ASSUME Counted, TypeOK, NEW w \in Workers, OthersKeep(w),
           PeerOf(w) \in Peers, TrackerFaults # {},
           load' = [load EXCEPT ![PeerOf(w)] = @ + 1] \/ load' = load,
           wpc[w] \notin Reserved, wpc'[w] \notin Reserved
    PROVE  Counted'
<1>1. \A p : w \notin Flight(p) /\ w \notin Flight(p)'
  BY DEF Flight
<1>2. \A p : Flight(p)' \ {w} = Flight(p) \ {w}
  BY OthersFlight
<1>3. \A p : Flight(p)' = Flight(p)
  BY <1>1, <1>2
<1>4. \A p : InFlight(p)' = InFlight(p) /\ InFlight(p) \in Nat
  BY <1>3, FlightIsFinite, FlightIsFiniteNext
<1>5. \A p \in Peers : load[p] \in Nat /\ load'[p] \in {load[p], load[p] + 1}
  BY DEF TypeOK
<1> SUFFICES ASSUME NEW p \in Peers PROVE load'[p] >= InFlight(p)'
  BY DEF Counted
<1> QED
  BY <1>4, <1>5 DEF Counted

\* Nobody has a reservation.
LEMMA NoFlight ==
    ASSUME \A w \in Workers : wpc[w] \notin Reserved
    PROVE  \A p : InFlight(p) = 0
<1>1. \A p : Flight(p) = {}
  BY DEF Flight
<1> QED
  BY <1>1, FlightIsFinite, FS_EmptySet

LEMMA NoFlightNext ==
    ASSUME \A w \in Workers : wpc'[w] \notin Reserved
    PROVE  \A p : InFlight(p)' = 0
<1>1. \A p : Flight(p)' = {}
  BY DEF Flight
<1> QED
  BY <1>1, FlightIsFiniteNext, FS_EmptySet

\* A new call finds no worker with a reservation, whatever the tracker says.
LEMMA CountedAtRest ==
    ASSUME TypeOK, Counted, load' = load,
           \A w \in Workers : wpc'[w] \notin Reserved,
           \/ crashes' # 0
           \/ /\ \A w \in Workers : wpc[w] \notin Reserved
              /\ crashes' = crashes
    PROVE  Counted'
<1>1. \A p : InFlight(p)' = 0
  BY NoFlightNext
<1> SUFFICES ASSUME NEW p \in Peers
             PROVE  /\ load'[p] >= 0
                    /\ TrackerFaults = {} /\ crashes' = 0 => load'[p] = 0
  BY <1>1 DEF Counted
<1>2. load'[p] \in Nat
  BY DEF TypeOK
<1>3. ASSUME TrackerFaults = {}, crashes' = 0 PROVE load'[p] = 0
  <2>1. InFlight(p) = 0
    BY <1>3, NoFlight
  <2> QED
    BY <1>3, <2>1 DEF Counted
<1> QED
  BY <1>2, <1>3

LEMMA CountedMain == ASSUME CoreInv, Counted, MainStep PROVE Counted'
<1>1. UNCHANGED <<wpc, cur, attempt, load, crashes>>
  BY DEF MainStep, Reject, Begin, Submit, Wait, WaitReturn, FinalSave, FinalSaveEnd,
     Check, Verify, MergeOpen, MergeCopy, VerifyMerged, GoTo, Close, workerVars,
     boundVars
<1>2. CASE mainPc \notin {"submitting", "waiting"}
  <2>1. \A w \in Workers : wpc[w] \notin Reserved
    BY <1>2, AtRest DEF Reserved
  <2> QED
    BY <1>1, <2>1, CountedAtRest DEF CoreInv
<1>3. CASE mainPc \in {"submitting", "waiting"}
  <2>1. usablePeers' = usablePeers
    BY <1>3 DEF MainStep, Reject, Begin, Submit, Wait, WaitReturn, FinalSave,
       FinalSaveEnd, Check, Verify, MergeOpen, MergeCopy, VerifyMerged, Close, mainVars
  <2>2. PICK w : w \in Workers
    BY WorkersAssumption
  <2> QED
    BY <1>1, <2>1, <2>2, FlightKept DEF OthersKeep
<1> QED
  BY <1>2, <1>3

LEMMA CountedWorker ==
    ASSUME CoreInv, Counted, NEW w \in Workers, WorkerStep(w) PROVE Counted'
<1> USE DEF CoreInv, TypeOK, OthersKeep, Reserved, WorkerUnchanged, mainVars,
            workerVars, boundVars
<1>1. CASE Start(w) \/ Claim(w) \/ Return(w)
  <2>1. OthersKeep(w) /\ UNCHANGED <<load, crashes>>
    BY <1>1 DEF Start, Claim, Return
  <2>2. wpc[w] \in {"idle", "top"} /\ wpc'[w] \in {"top", "claimed", "returned"}
    BY <1>1 DEF Start, Pool!Start, Claim, Return, Phases
  <2> QED
    BY <2>1, <2>2, FlightKept
<1>2. CASE Assign(w) \/ AssignEnd(w) \/ Record(w) \/ Mark(w) \/ RecordEnd(w)
  <2>1. OthersKeep(w) /\ UNCHANGED <<load, crashes>>
    BY <1>2 DEF Assign, AssignEnd, Record, Mark, RecordEnd, Save, SaveEnd
  <2>2. /\ wpc[w] \in {"claimed", "assigning", "recording", "marking", "saving"}
        /\ wpc'[w] \in {"assigning", "reserving", "marking", "saving", "top"}
    BY <1>2 DEF Assign, AssignEnd, Record, Mark, RecordEnd, Save, SaveEnd
  <2> QED
    BY <2>1, <2>2, FlightKept
<1>3. CASE Refused(w) \/ OpenChunk(w) \/ ReceiveSome(w) \/ ReceiveAll(w)
           \/ ReceiveBreaks(w)
  <2>1. OthersKeep(w) /\ UNCHANGED <<load, crashes, cur, attempt>>
    BY <1>3 DEF Refused, OpenChunk, ReceiveSome, ReceiveAll, ReceiveBreaks
  <2>2. wpc[w] \in Reserved /\ wpc'[w] \in Reserved
    BY <1>3 DEF Refused, OpenChunk, ReceiveSome, ReceiveAll, ReceiveBreaks
  <2> QED
    BY <2>1, <2>2, FlightKept
<1>4. ASSUME NextPeer(w), wpc[w] \in {"reserving", "releasing"}
      PROVE  /\ wpc'[w] \notin Reserved
             /\ \A v \in Workers \ {w} : wpc'[v] = wpc[v] /\ attempt'[v] = attempt[v]
  BY <1>4 DEF NextPeer
<1>5. CASE Reserve(w)
  <2>1. /\ wpc[w] = "reserving" /\ PeerOf(w) \in Peers
        /\ UNCHANGED <<cur, usablePeers, crashes>>
    BY <1>5, Underway DEF Reserve
  <2>2. CASE /\ load' = [load EXCEPT ![PeerOf(w)] = @ + 1]
             /\ wpc' = [wpc EXCEPT ![w] = "connecting"]
             /\ UNCHANGED attempt
    <3>1. OthersKeep(w) /\ wpc'[w] \in Reserved
      BY <2>1, <2>2
    <3> QED
      BY <2>1, <2>2, <3>1, FlightGrows
  <2>3. CASE /\ TrackerFaults # {}
             /\ load' = [load EXCEPT ![PeerOf(w)] = @ + 1] \/ load' = load
             /\ NextPeer(w)
    <3>1. OthersKeep(w) /\ wpc'[w] \notin Reserved
      BY <1>4, <2>1, <2>3
    <3> QED
      BY <2>1, <2>3, <3>1, LoadLeaks
  <2> QED
    BY <1>5, <2>2, <2>3 DEF Reserve
<1>6. CASE Release(w)
  <2>1. /\ wpc[w] = "releasing" /\ PeerOf(w) \in Peers
        /\ UNCHANGED <<cur, usablePeers, crashes>>
    BY <1>6, Underway DEF Release
  <2>2. OthersKeep(w) /\ wpc'[w] \notin Reserved
    BY <1>4, <1>6, <2>1 DEF Release
  <2>3. \/ load' = [load EXCEPT ![PeerOf(w)] = IF @ > 0 THEN @ - 1 ELSE 0]
        \/ TrackerFaults # {} /\ load' = load
    BY <1>6 DEF Release
  <2> QED
    BY <2>1, <2>2, <2>3, FlightShrinks
<1> QED
  BY <1>1, <1>2, <1>3, <1>5, <1>6 DEF WorkerStep

LEMMA CountedNext == CoreInv /\ Counted /\ [Next]_vars => Counted'
<1> SUFFICES ASSUME CoreInv, Counted, [Next]_vars PROVE Counted'
  OBVIOUS
<1>1. CASE MainStep
  BY <1>1, CountedMain
<1>2. ASSUME NEW w \in Workers, WorkerStep(w) PROVE Counted'
  BY <1>2, CountedWorker
<1>3. CASE Crash
  <2>1. \A w \in Workers : wpc'[w] \notin Reserved
    BY <1>3 DEF Crash, NewCall, Reserved
  <2>2. crashes' # 0 /\ load' = load
    BY <1>3 DEF Crash, NewCall, CoreInv, TypeOK
  <2> QED
    BY <2>1, <2>2, CountedAtRest DEF CoreInv
<1>4. CASE Rerun
  <2>1. \A w \in Workers : wpc'[w] \notin Reserved
    BY <1>4 DEF Rerun, NewCall, Reserved
  <2>2. crashes' = crashes /\ load' = load
    BY <1>4 DEF Rerun, NewCall
  <2>3. \A w \in Workers : wpc[w] \notin Reserved
    BY <1>4, AtRest DEF Rerun, Reserved
  <2> QED
    BY <2>1, <2>2, <2>3, CountedAtRest DEF CoreInv
<1>5. CASE Terminated \/ UNCHANGED vars
  <2>1. UNCHANGED <<wpc, cur, attempt, usablePeers, load, crashes>>
    BY <1>5 DEF Terminated, vars, workerVars, mainVars, boundVars
  <2>2. PICK w : w \in Workers
    BY WorkersAssumption
  <2> QED
    BY <2>1, <2>2, FlightKept DEF OthersKeep
<1> QED
  BY <1>1, <1>2, <1>3, <1>4, <1>5 DEF Next

LEMMA CountedInvariant == SafeSpec => []Counted
<1>1. Init => Counted
  <2> SUFFICES ASSUME Init PROVE Counted
    OBVIOUS
  <2>1. \A p : InFlight(p) = 0
    BY NoFlight DEF Init, Reserved
  <2> QED
    BY <2>1 DEF Init, Counted
<1> QED
  BY <1>1, CountedNext, CoreInvariant, PTL DEF SafeSpec

\* reservePeerLoadRemote and releasePeerLoadRemote: however calls and answers get
\* lost and whenever the process dies, the tracker never counts fewer requests of
\* a peer than are under way, so no release takes away another's reservation.
THEOREM TransfersCounted == SafeSpec => []TransfersAreCounted
<1>1. Counted => TransfersAreCounted
  BY DEF Counted, TransfersAreCounted
<1> QED
  BY <1>1, CountedInvariant, PTL

\* With a tracker that answers, and no crash, the count is exact on every path
\* through failover.
THEOREM CountIsExact == SafeSpec => []LoadExact
<1>1. Counted => LoadExact
  BY DEF Counted, LoadExact
<1> QED
  BY <1>1, CountedInvariant, PTL

-----------------------------------------------------------------------------
(* The result *)

\* The reconstructed file is good only if it was copied from good chunk files, and
\* nobody touches them once it has been made.
Merged ==
    /\ mainPc = "hashing" /\ output = "good" =>
          \A c \in Chunks : downloads[c] = "good"
    /\ result => mainPc \in {"closing", "returned"} /\ SuccessMeansIntact

\* What the workers write, they write while the main thread waits.
LEMMA MergedWorker ==
    ASSUME CoreInv, Merged, NEW w \in Workers, WorkerStep(w) PROVE Merged'
<1>1. mainPc \in {"submitting", "waiting"} /\ mainPc' = mainPc
  BY WorkersAtWork
<1>2. result' = result
  BY DEF WorkerStep, Start, Claim, Return, Assign, AssignEnd, Reserve, Refused,
     OpenChunk, ReceiveSome, ReceiveAll, ReceiveBreaks, Release, Record, Mark, RecordEnd,
     SaveEnd, WorkerUnchanged, mainVars
<1> QED
  BY <1>1, <1>2 DEF Merged

LEMMA MergedMain ==
    ASSUME CoreInv, StatusAgrees, WaitImpliesAllDone, Merged, MainStep
    PROVE  Merged'
<1>1. CASE Reject \/ Begin \/ (\E w \in Workers : Submit(w)) \/ Wait \/ WaitReturn
           \/ FinalSave \/ FinalSaveEnd \/ Check \/ Verify \/ MergeOpen
  <2>1. /\ mainPc \notin {"hashing", "closing", "returned"} /\ mainPc' # "hashing"
        /\ result' => result
    BY <1>1 DEF Reject, Begin, Submit, Wait, WaitReturn, FinalSave, FinalSaveEnd,
       Check, Verify, MergeOpen, GoTo, mainVars
  <2> QED
    BY <2>1 DEF Merged
<1>2. CASE MergeCopy
  <2>1. mainPc = "copying" /\ result' = result /\ downloads' = downloads
    BY <1>2 DEF MergeCopy, GoTo
  <2>2. mainPc' = "hashing" /\ output' = "good" =>
            \A c \in Chunks : downloads[c] = "good"
    BY <1>2 DEF MergeCopy, GoTo
  <2> QED
    BY <2>1, <2>2 DEF Merged
<1>3. CASE VerifyMerged
  <2>1. /\ mainPc = "hashing" /\ mainPc' = "closing"
        /\ result' => output = "good"
        /\ UNCHANGED <<output, downloads, chunkStatus>>
    BY <1>3 DEF VerifyMerged, GoTo
  <2>2. \A c \in Chunks : chunkStatus[c] = "DONE"
    BY <2>1 DEF WaitImpliesAllDone, AfterWait, AllDone, StatusAgrees
  <2> QED
    BY <2>1, <2>2 DEF Merged, SuccessMeansIntact
<1>4. CASE Close
  <2>1. /\ mainPc = "closing" /\ mainPc' \in {"closing", "returned"}
        /\ UNCHANGED <<result, output, downloads, chunkStatus>>
    BY <1>4 DEF Close, diskVars
  <2> QED
    BY <2>1 DEF Merged, SuccessMeansIntact
<1> QED
  BY <1>1, <1>2, <1>3, <1>4 DEF MainStep

LEMMA MergedNext ==
    CoreInv /\ StatusAgrees /\ WaitImpliesAllDone /\ Merged /\ [Next]_vars => Merged'
<1> SUFFICES ASSUME CoreInv, StatusAgrees, WaitImpliesAllDone, Merged, [Next]_vars
             PROVE  Merged'
  OBVIOUS
<1>1. CASE MainStep
  BY <1>1, MergedMain
<1>2. ASSUME NEW w \in Workers, WorkerStep(w) PROVE Merged'
  BY <1>2, MergedWorker
<1>3. CASE Crash \/ Rerun
  BY <1>3 DEF Crash, Rerun, NewCall, Merged
<1>4. CASE Terminated \/ UNCHANGED vars
  BY <1>4 DEF Terminated, vars, mainVars, diskVars, Merged, SuccessMeansIntact
<1> QED
  BY <1>1, <1>2, <1>3, <1>4 DEF Next

\* downloadFileFromMultiplePeers returns true only with the right file in place,
\* whatever crashes, damaged copies, torn state files and reruns came before.
THEOREM SuccessIsIntact == SafeSpec => []SuccessMeansIntact
<1>1. Init => Merged
  BY DEF Init, Merged
<1>2. Merged => SuccessMeansIntact
  BY DEF Merged, SuccessMeansIntact
<1> QED
  BY <1>1, <1>2, MergedNext, CoreInvariant, StatusAgreement, WaitComplete, PTL
     DEF SafeSpec

-----------------------------------------------------------------------------
(* The chunk files *)

\* no peer hands out a damaged copy under the hash of that copy
NoDamagedCopies ==
    \A p \in Peers : \A c \in Chunks : "stale" \notin Offers[p][c]

\* Without a crash a chunk file is absent or complete, or just being received.
Clean ==
    crashes = 0 =>
        \A c \in Chunks :
            \/ downloads[c] \in {"absent", "good"}
            \/ \E w \in Workers : wpc[w] = "receiving" /\ cur[w] = c

LEMMA CleanMain == ASSUME Clean, MainStep PROVE Clean'
<1>1. UNCHANGED <<wpc, cur, downloads, crashes>>
  BY DEF MainStep, Reject, Begin, Submit, Wait, WaitReturn, FinalSave, FinalSaveEnd,
     Check, Verify, MergeOpen, MergeCopy, VerifyMerged, GoTo, Close, workerVars,
     boundVars, diskVars
<1> QED
  BY <1>1 DEF Clean

\* A worker writes only the file of the chunk it holds, and leaves it as it should.
LEMMA CleanWorker ==
    ASSUME NoDamagedCopies, CoreInv, Clean, NEW w \in Workers, WorkerStep(w)
    PROVE  Clean'
<1> USE DEF CoreInv, TypeOK, WorkerUnchanged, mainVars, workerVars, boundVars
<1>1. CASE OpenChunk(w) \/ ReceiveSome(w) \/ ReceiveAll(w) \/ ReceiveBreaks(w)
  <2>1. cur[w] \in Chunks /\ PeerOf(w) \in Peers
    BY <1>1, Underway DEF OpenChunk, ReceiveSome, ReceiveAll, ReceiveBreaks,
       ClaimsAreExclusive, Holding
  <2>2. PICK d \in Chunks : d = cur[w]
    BY <2>1
  <2>3. /\ UNCHANGED <<cur, crashes>>
        /\ \A c \in Chunks : c # d => downloads'[c] = downloads[c]
        /\ \A v \in Workers : v # w => wpc'[v] = wpc[v]
    BY <1>1, <2>2 DEF OpenChunk, ReceiveSome, ReceiveAll, ReceiveBreaks
  <2>4. \/ downloads'[d] \in {"absent", "good"}
        \/ wpc'[w] = "receiving"
    <3>1. "stale" \notin Offers[PeerOf(w)][cur[w]]
      BY <2>1 DEF NoDamagedCopies
    <3> QED
      BY <1>1, <2>2, <3>1 DEF OpenChunk, ReceiveSome, ReceiveAll, ReceiveBreaks
  <2> SUFFICES ASSUME crashes = 0, NEW c \in Chunks,
                      downloads'[c] \notin {"absent", "good"}
               PROVE  \E v \in Workers : wpc'[v] = "receiving" /\ cur'[v] = c
    BY <2>3 DEF Clean
  <2>5. CASE c = d
    BY <2>2, <2>3, <2>4, <2>5
  <2>6. CASE c # d
    <3>1. PICK v \in Workers : wpc[v] = "receiving" /\ cur[v] = c
      BY <2>3, <2>6 DEF Clean
    <3>2. v # w
      BY <2>2, <2>6, <3>1
    <3> QED
      BY <2>3, <3>1, <3>2
  <2> QED
    BY <2>5, <2>6
<1>2. CASE WorkerStep(w) /\ ~(OpenChunk(w) \/ ReceiveSome(w) \/ ReceiveAll(w)
                             \/ ReceiveBreaks(w))
  <2>1. /\ UNCHANGED <<downloads, crashes>> /\ wpc[w] # "receiving"
        /\ \A v \in Workers : v # w => wpc'[v] = wpc[v] /\ cur'[v] = cur[v]
    <3>1. UNCHANGED <<downloads, crashes>>
      BY <1>2 DEF WorkerStep, Start, Claim, Return, Assign, AssignEnd, Reserve,
         Refused, Release, Record, Mark, RecordEnd, SaveEnd
    <3>2. wpc[w] # "receiving"
      BY <1>2 DEF WorkerStep, Start, Pool!Start, Phases, Claim, Return, Assign,
         AssignEnd, Reserve, Refused, Release, Record, Mark, RecordEnd
    <3>3. ASSUME NEW v \in Workers, v # w PROVE wpc'[v] = wpc[v]
      BY <1>2, <3>3 DEF WorkerStep, Start, Claim, Return, Assign, AssignEnd, Reserve,
         Refused, Release, Record, Mark, RecordEnd, Save, SaveEnd, NextPeer
    <3>4. ASSUME NEW v \in Workers, v # w PROVE cur'[v] = cur[v]
      BY <1>2, <3>4 DEF WorkerStep, Start, Claim, Return, Assign, AssignEnd, Reserve,
         Refused, Release, Record, Mark, RecordEnd, SaveEnd
    <3> QED
      BY <3>1, <3>2, <3>3, <3>4
  <2> SUFFICES ASSUME crashes = 0, NEW c \in Chunks,
                      downloads[c] \notin {"absent", "good"}
               PROVE  \E v \in Workers : wpc'[v] = "receiving" /\ cur'[v] = c
    BY <2>1 DEF Clean
  <2>2. PICK v \in Workers : wpc[v] = "receiving" /\ cur[v] = c
    BY DEF Clean
  <2> QED
    BY <2>1, <2>2
<1> QED
  BY <1>1, <1>2

LEMMA CleanNext ==
    ASSUME NoDamagedCopies
    PROVE  CoreInv /\ Clean /\ [Next]_vars => Clean'
<1> SUFFICES ASSUME CoreInv, Clean, [Next]_vars PROVE Clean'
  OBVIOUS
<1>1. CASE MainStep
  BY <1>1, CleanMain
<1>2. ASSUME NEW w \in Workers, WorkerStep(w) PROVE Clean'
  BY <1>2, CleanWorker
<1>3. CASE Crash
  BY <1>3 DEF Crash, Clean, CoreInv, TypeOK
<1>4. CASE Rerun
  <2>1. \A w \in Workers : wpc[w] # "receiving"
    BY <1>4, AtRest DEF Rerun
  <2>2. UNCHANGED <<downloads, crashes>>
    BY <1>4 DEF Rerun, NewCall
  <2> QED
    BY <2>1, <2>2 DEF Clean
<1>5. CASE Terminated \/ UNCHANGED vars
  BY <1>5 DEF Terminated, vars, workerVars, diskVars, boundVars, Clean
<1> QED
  BY <1>1, <1>2, <1>3, <1>4, <1>5 DEF Next

\* As long as the process does not die and no peer serves a damaged copy, what
\* passes verifyAllChunksComplete, which looks at the size only, is intact: a
\* transfer that fails leaves no file behind.
THEOREM IntactWithoutCrash ==
    ASSUME NoDamagedCopies
    PROVE  SafeSpec => []IntactUnlessCrashed
<1>1. Init => Clean
  BY DEF Init, Clean
<1>2. CoreInv /\ StatusAgrees /\ WaitImpliesAllDone /\ DiskInv /\ Clean
          => IntactUnlessCrashed
  <2> SUFFICES ASSUME CoreInv, StatusAgrees, WaitImpliesAllDone, DiskInv, Clean,
                      crashes = 0, mainPc \in {"merging", "copying"},
                      NEW c \in Chunks, c \notin SharedChunks
               PROVE  downloads[c] = "good"
    BY DEF IntactUnlessCrashed
  <2>1. chunkStatus[c] = "DONE"
    BY DEF WaitImpliesAllDone, AfterWait, AllDone, StatusAgrees
  <2>2. downloads[c] # "absent"
    BY <2>1 DEF DiskInv, DoneHasFile, ChunkExists, InDownloadDir
  <2>3. \A w \in Workers : wpc[w] # "receiving"
    BY AtRest
  <2> QED
    BY <2>2, <2>3 DEF Clean
<1> QED
  BY <1>1, <1>2, CleanNext, CoreInvariant, StatusAgreement, WaitComplete,
     DiskInvariant, PTL DEF SafeSpec

-----------------------------------------------------------------------------
(* The requests *)

\* w has written the file of its chunk, and does not know yet that it failed.
Written(w) ==
    \/ wpc[w] = "receiving"
    \/ wpc[w] \in {"releasing", "recording", "marking"} /\ ok[w]

\* A chunk that is not done and that nobody has written has no file.
NoLeftovers ==
    mainPc \in {"submitting", "waiting"} =>
        \A c \in Chunks :
            \/ done[c] \/ downloads[c] = "absent"
            \/ \E w \in Workers : Written(w) /\ cur[w] = c

\* What w has written stays so until the chunk is done or the file removed.
LEMMA WrittenStays ==
    ASSUME CoreInv, NEW w \in Workers, WorkerStep(w), Written(w)
    PROVE  (Written(w)' /\ cur'[w] = cur[w]) \/ done'[cur[w]] \/ ReceiveBreaks(w)
<1> USE DEF CoreInv, TypeOK, SchedulerTypeOK, Written, workerVars
<1>1. cur[w] \in Chunks
  BY DEF ClaimsAreExclusive, Holding
<1>2. CASE ReceiveSome(w) \/ ReceiveAll(w)
  BY <1>2 DEF ReceiveSome, ReceiveAll
<1>3. CASE Release(w)
  BY <1>3 DEF Release
<1>4. CASE Record(w)
  BY <1>4 DEF Record
<1>5. CASE Start(w)
  BY <1>5 DEF Start, Pool!Start, Phases
<1>6. CASE Mark(w)
  BY <1>1, <1>6 DEF Mark, MarkDone
<1>7. CASE ~(Start(w) \/ ReceiveSome(w) \/ ReceiveAll(w) \/ ReceiveBreaks(w)
             \/ Release(w) \/ Record(w) \/ Mark(w))
  BY <1>7 DEF WorkerStep, Claim, Return, Assign, AssignEnd, Reserve, Refused,
     OpenChunk, RecordEnd
<1> QED
  BY <1>2, <1>3, <1>4, <1>5, <1>6, <1>7

LEMMA LeftoversWorker ==
    ASSUME CoreInv, NoLeftovers, NEW w \in Workers, WorkerStep(w)
    PROVE  NoLeftovers'
<1> SUFFICES ASSUME NEW c \in Chunks, ~done'[c], downloads'[c] # "absent"
             PROVE  \E v \in Workers : Written(v)' /\ cur'[v] = c
  BY DEF NoLeftovers
<1>1. mainPc \in {"submitting", "waiting"}
  BY WorkersAtWork
<1>2. ~done[c]
  <2>1. CASE Mark(w)
    BY <2>1 DEF Mark, MarkDone, MarkFailed, CoreInv, TypeOK, SchedulerTypeOK
  <2>2. CASE ~Mark(w)
    <3>1. done' = done
      BY <2>2 DEF WorkerStep, Start, Claim, GetNextChunk, Return, NoNextChunk, Assign,
         AssignEnd, Reserve, Refused, OpenChunk, ReceiveSome, ReceiveAll,
         ReceiveBreaks, Release, Record, RecordEnd, SaveEnd, schedulerVars
    <3> QED
      BY <3>1
  <2> QED
    BY <2>1, <2>2
<1>3. CASE Receives(w) /\ cur[w] = c
  BY <1>3 DEF Receives, OpenChunk, ReceiveSome, ReceiveAll, ReceiveBreaks, Written,
     CoreInv, TypeOK, workerVars
<1>4. CASE ~(Receives(w) /\ cur[w] = c)
  <2>1. downloads'[c] = downloads[c]
    BY <1>4, OwnStep
  <2>2. PICK v \in Workers : Written(v) /\ cur[v] = c
    BY <1>1, <1>2, <2>1 DEF NoLeftovers
  <2>3. CASE v = w
    BY <1>4, <2>2, <2>3, WrittenStays DEF Receives
  <2>4. CASE v # w
    BY <2>2, <2>4, OwnStep DEF Written
  <2> QED
    BY <2>3, <2>4
<1> QED
  BY <1>3, <1>4

LEMMA LeftoversMain ==
    ASSUME CoreInv, NoLeftovers, MainStep PROVE NoLeftovers'
<1>1. CASE Begin
  BY <1>1 DEF Begin, NoLeftovers, ChunkExists, InDownloadDir, diskVars
<1>2. CASE ~Begin
  <2>1. UNCHANGED <<done, downloads, wpc, cur, ok>>
    BY <1>2 DEF MainStep, Reject, Submit, Wait, WaitReturn, FinalSave, FinalSaveEnd,
       Check, Verify, MergeOpen, MergeCopy, VerifyMerged, GoTo, Close, schedulerVars,
       workerVars, diskVars
  <2>2. mainPc' \in {"submitting", "waiting"} => mainPc \in {"submitting", "waiting"}
    BY <1>2 DEF MainStep, Reject, Submit, Wait, WaitReturn, FinalSave, FinalSaveEnd,
       Check, Verify, MergeOpen, MergeCopy, VerifyMerged, GoTo, Close, mainVars
  <2> QED
    BY <2>1, <2>2 DEF NoLeftovers, Written
<1> QED
  BY <1>1, <1>2

LEMMA LeftoversInvariant == SafeSpec => []NoLeftovers
<1>1. Init => NoLeftovers
  BY DEF Init, NoLeftovers
<1>2. CoreInv /\ NoLeftovers /\ [Next]_vars => NoLeftovers'
  <2> SUFFICES ASSUME CoreInv, NoLeftovers, [Next]_vars PROVE NoLeftovers'
    OBVIOUS
  <2>1. CASE MainStep
    BY <2>1, LeftoversMain
  <2>2. ASSUME NEW w \in Workers, WorkerStep(w) PROVE NoLeftovers'
    BY <2>2, LeftoversWorker
  <2>3. CASE Crash \/ Rerun
    BY <2>3 DEF Crash, Rerun, NewCall, NoLeftovers
  <2>4. CASE Terminated \/ UNCHANGED vars
    BY <2>4 DEF Terminated, vars, schedulerVars, mainVars, workerVars, diskVars,
       NoLeftovers, Written
  <2> QED
    BY <2>1, <2>2, <2>3, <2>4 DEF Next
<1> QED
  BY <1>1, <1>2, CoreInvariant, PTL DEF SafeSpec

\* A request starts without a file of its chunk: its worker alone holds the chunk,
\* and has written nothing of it.
LEMMA RequestStarts ==
    ASSUME CoreInv, DiskInv, NoLeftovers, NEW w \in Workers, Next,
           wpc[w] \notin Reserved, wpc'[w] = "connecting"
    PROVE  Request(w)!RequestInit'
<1>1. Reserve(w)
  <2>1. wpc'[w] # wpc[w]
    BY DEF Reserved
  <2>2. CASE MainStep
    BY <2>1, <2>2 DEF MainStep, Reject, Begin, Submit, Wait, WaitReturn, FinalSave,
       FinalSaveEnd, Check, Verify, MergeOpen, MergeCopy, VerifyMerged, GoTo, Close,
       workerVars
  <2>3. ASSUME NEW v \in Workers, WorkerStep(v) PROVE Reserve(w)
    <3>1. v = w
      BY <2>1, <2>3, OwnStep
    <3> QED
      BY <2>3, <3>1 DEF WorkerStep, Start, Claim, Return, Assign, AssignEnd, Refused,
         OpenChunk, ReceiveSome, ReceiveAll, ReceiveBreaks, Release, Record, Mark,
         RecordEnd, Save, SaveEnd, NextPeer, CoreInv, TypeOK, workerVars, Reserved
  <2>4. CASE Crash \/ Rerun
    BY <2>4 DEF Crash, Rerun, NewCall
  <2>5. CASE Terminated
    BY <2>1, <2>5 DEF Terminated, vars, workerVars
  <2> QED
    BY <2>2, <2>3, <2>4, <2>5 DEF Next
<1>2. wpc[w] = "reserving" /\ UNCHANGED <<cur, ok, downloads>>
  BY <1>1 DEF Reserve
<1>3. ~ok[w] /\ ~Written(w)
  BY <1>2 DEF DiskInv, OkMeansFile, Fetching, Written
<1>4. cur[w] \in Chunks /\ ~done[cur[w]]
  BY <1>2 DEF CoreInv, ClaimsAreExclusive, Holding
<1>5. ASSUME NEW v \in Workers, Written(v), cur[v] = cur[w] PROVE FALSE
  <2>1. v = w
    BY <1>2, <1>5 DEF Written, CoreInv, ClaimsAreExclusive, Holding
  <2> QED
    BY <1>3, <1>5, <2>1
<1>6. mainPc \in {"submitting", "waiting"}
  BY <1>1, WorkersAtWork DEF WorkerStep
<1>7. downloads[cur[w]] = "absent"
  BY <1>4, <1>5, <1>6 DEF NoLeftovers
<1>8. ok'[w] = FALSE
  BY <1>2, <1>3 DEF CoreInv, TypeOK
<1> QED
  BY <1>2, <1>7, <1>8 DEF Request!RequestInit

\* A step of the worker itself, while it has the reservation.
LEMMA RequestSteps ==
    ASSUME CoreInv, NEW w \in Workers, WorkerStep(w),
           wpc[w] \in Reserved, wpc'[w] \in Reserved
    PROVE  Request(w)!RequestNext
<1> USE DEF CoreInv, TypeOK, workerVars
<1>1. cur[w] \in Chunks
  BY DEF ClaimsAreExclusive, Holding, Reserved
<1>2. CASE Refused(w)
  <2>1. Request(w)!Refused
    BY <1>2 DEF Refused, Request!Refused
  <2> QED
    BY <2>1 DEF Request!RequestNext
<1>3. CASE OpenChunk(w)
  <2>1. Request(w)!OpenChunk
    BY <1>1, <1>3 DEF OpenChunk, Request!OpenChunk
  <2> QED
    BY <2>1 DEF Request!RequestNext
<1>4. CASE ReceiveSome(w)
  <2>1. Request(w)!ReceiveSome
    BY <1>1, <1>4 DEF ReceiveSome, Request!ReceiveSome
  <2> QED
    BY <2>1 DEF Request!RequestNext
<1>5. CASE ReceiveAll(w)
  <2>1. Request(w)!ReceiveAll
    BY <1>1, <1>5 DEF ReceiveAll, Request!ReceiveAll
  <2> QED
    BY <2>1 DEF Request!RequestNext
<1>6. CASE ReceiveBreaks(w)
  <2>1. Request(w)!ReceiveBreaks
    BY <1>1, <1>6 DEF ReceiveBreaks, Request!ReceiveBreaks
  <2> QED
    BY <2>1 DEF Request!RequestNext
<1>7. \/ Refused(w) \/ OpenChunk(w) \/ ReceiveSome(w) \/ ReceiveAll(w)
      \/ ReceiveBreaks(w)
  BY DEF WorkerStep, Start, Pool!Start, Phases, Claim, Return, Assign, AssignEnd,
     Reserve, Release, Record, Mark, RecordEnd, NextPeer, Reserved
<1> QED
  BY <1>2, <1>3, <1>4, <1>5, <1>6, <1>7

\* Every request of every worker is one of ChunkRequest, whatever the other workers,
\* the main thread and earlier requests for the same chunk have done.
THEOREM RequestsSpecified == SafeSpec => RequestsAsSpecified
<1> DEFINE Specified ==
               \A w \in Workers :
                   /\ wpc[w] \notin Reserved /\ wpc'[w] = "connecting" =>
                         Request(w)!RequestInit'
                   /\ wpc[w] \in Reserved /\ wpc'[w] \in Reserved =>
                         [Request(w)!RequestNext]_(Request(w)!requestVars)
<1>1. CoreInv /\ DiskInv /\ NoLeftovers /\ [Next]_vars => [Specified]_vars
  <2> SUFFICES ASSUME CoreInv, DiskInv, NoLeftovers, Next, NEW w \in Workers
               PROVE  /\ wpc[w] \notin Reserved /\ wpc'[w] = "connecting" =>
                            Request(w)!RequestInit'
                      /\ wpc[w] \in Reserved /\ wpc'[w] \in Reserved =>
                            [Request(w)!RequestNext]_(Request(w)!requestVars)
    OBVIOUS
  <2>1. wpc[w] \notin Reserved /\ wpc'[w] = "connecting" => Request(w)!RequestInit'
    BY RequestStarts
  <2>2. ASSUME wpc[w] \in Reserved, wpc'[w] \in Reserved
        PROVE  [Request(w)!RequestNext]_(Request(w)!requestVars)
    <3>1. SUFFICES ASSUME ~WorkerStep(w)
                   PROVE  UNCHANGED <<wpc[w], cur[w], ok[w], downloads[cur[w]]>>
      BY <2>2, RequestSteps DEF Request!requestVars
    <3>2. cur[w] \in Chunks
      BY <2>2 DEF CoreInv, ClaimsAreExclusive, Holding, Reserved
    <3>3. CASE MainStep
      BY <3>3 DEF MainStep, Reject, Begin, Submit, Wait, WaitReturn, FinalSave,
         FinalSaveEnd, Check, Verify, MergeOpen, MergeCopy, VerifyMerged, GoTo, Close,
         workerVars, diskVars
    <3>4. ASSUME NEW v \in Workers, WorkerStep(v)
          PROVE  UNCHANGED <<wpc[w], cur[w], ok[w], downloads[cur[w]]>>
      <4>1. v # w
        BY <3>1, <3>4
      <4>2. Receives(v) => cur[v] # cur[w]
        BY <2>2, <4>1 DEF Receives, OpenChunk, ReceiveSome, ReceiveAll,
           ReceiveBreaks, CoreInv, ClaimsAreExclusive, Holding, Reserved
      <4> QED
        BY <3>2, <3>4, <4>1, <4>2, OwnStep
    <3>5. CASE Crash \/ Rerun
      BY <2>2, <3>5 DEF Crash, Rerun, NewCall, Reserved
    <3>6. CASE Terminated
      BY <3>6 DEF Terminated, vars, workerVars, diskVars
    <3> QED
      BY <3>3, <3>4, <3>5, <3>6 DEF Next
  <2> QED
    BY <2>1, <2>2
<1> QED
  BY <1>1, CoreInvariant, DiskInvariant, LeftoversInvariant, PTL
     DEF SafeSpec, RequestsAsSpecified

-----------------------------------------------------------------------------
(* The pool *)

\* What the pool asks of its owner never holds the main thread up: it is open while
\* tasks are submitted and has room for as many as are wanted, it is in wait()
\* exactly while the main thread is, and it can be destroyed from every exit.
PoolTakesAll ==
    /\ mainPc = "submitting" =>
          /\ owner = "idle"
          /\ Cardinality(Submitted) < WorkerCount => \E w \in Workers : w \notin Submitted
    /\ mainPc = "waiting" <=> owner = "waiting"
    /\ mainPc \in AfterWait => owner = "idle"
    /\ mainPc = "closing" => owner \in {"idle", "closing"}

\* where the main thread has the pool
PoolFollows ==
    /\ mainPc \in {"start", "submitting"} \cup AfterWait => owner = "idle"
    /\ mainPc = "waiting" <=> owner = "waiting"
    /\ mainPc = "closing" => owner \in {"idle", "closing"}

LEMMA FollowsInvariant == SafeSpec => []PoolFollows
<1>1. Init => PoolFollows
  BY DEF Init, Pool!PoolInit, PoolFollows, AfterWait
<1>2. CoreInv /\ PoolFollows /\ [Next]_vars => PoolFollows'
  <2> SUFFICES ASSUME CoreInv, PoolFollows, [Next]_vars PROVE PoolFollows'
    OBVIOUS
  <2> USE DEF PoolFollows, AfterWait
  <2>1. CASE Wait \/ WaitReturn \/ Close
    BY <2>1 DEF Wait, Pool!Wait, WaitReturn, Pool!WaitReturn, Close, Pool!Close,
       Pool!Closed
  <2>2. CASE MainStep /\ ~(Wait \/ WaitReturn \/ Close)
    BY <2>2 DEF MainStep, Reject, Begin, Submit, Pool!Submit, FinalSave, FinalSaveEnd,
       Check, Verify, MergeOpen, MergeCopy, VerifyMerged, GoTo, poolVars, mainVars
  <2>3. ASSUME NEW w \in Workers, WorkerStep(w) PROVE UNCHANGED <<mainPc, owner>>
    <3>1. mainPc' = mainPc
      BY <2>3, WorkersAtWork
    <3>2. owner' = owner
      BY <2>3 DEF WorkerStep, Start, Pool!Start, Claim, Return, Pool!Finish, Assign,
         AssignEnd, Reserve, Refused, OpenChunk, ReceiveSome, ReceiveAll,
         ReceiveBreaks, Release, Record, Mark, RecordEnd, SaveEnd, poolVars
    <3> QED
      BY <3>1, <3>2
  <2>4. CASE Crash \/ Rerun
    BY <2>4 DEF Crash, Rerun, NewCall
  <2>5. CASE Terminated \/ UNCHANGED vars
    BY <2>5 DEF Terminated, vars, mainVars, poolVars
  <2> QED
    BY <2>1, <2>2, <2>3, <2>4, <2>5 DEF Next
<1> QED
  BY <1>1, <1>2, CoreInvariant, PTL DEF SafeSpec

\* What addTask, wait and the destructor take for granted is so when they are called.
THEOREM PoolNeverRefuses == SafeSpec => []PoolTakesAll
<1>1. CoreInv /\ PoolFollows => PoolTakesAll
  <2> SUFFICES ASSUME CoreInv, PoolFollows, mainPc = "submitting",
                      Cardinality(Submitted) < WorkerCount
               PROVE  \E w \in Workers : w \notin Submitted
    BY DEF PoolFollows, PoolTakesAll
  <2>1. Submitted \subseteq Workers
    BY DEF Submitted, CoreInv, TypeOK, Pool!PoolTypeOK
  <2>2. WorkerCount <= Cardinality(Workers)
    <3>1. totalChunks > 0 /\ usablePeers # <<>>
      BY DEF CoreInv, Phases
    <3>2. usablePeers \in Seq(Peers)
      BY <3>1, PeerListsAssumption DEF CoreInv, TypeOK
    <3>3. Len(usablePeers) \in Nat
      BY <3>2
    <3>4. Cardinality(Workers) \in Nat
      BY WorkersAssumption, FS_CardinalityType
    <3> DEFINE n == Len(usablePeers)
               k == Cardinality(Workers)
    <3> HIDE DEF n, k
    <3>5. Lowest(n, Lowest(totalChunks, k)) <= k
      BY <3>3, <3>4, TotalChunksAssumption DEF Lowest, n, k
    <3> QED
      BY <3>5 DEF WorkerCount, n, k
  <2>3. Submitted # Workers
    BY <2>2, WorkersAssumption, FS_CardinalityType, WorkerCountPositive
       DEF CoreInv, Phases
  <2> QED
    BY <2>1, <2>3
<1> QED
  BY <1>1, CoreInvariant, FollowsInvariant, PTL

-----------------------------------------------------------------------------
(* The peers that are asked *)

\* A tracked download is a download.
LEMMA TrackedIsDownload == SafeTrackedSpec => SafeSpec
BY PTL DEF SafeTrackedSpec, TrackedInit, SafeSpec

\* The peers the workers ask are, at any time, those of some answer of the tracker:
\* each server that other peers run, once and in the tracker's order, and never
\* the downloader itself.
THEOREM ListIsServers == SafeTrackedSpec => []UsablePeersAreServers
<1>1. TrackedInit => PeerLists = Fetched
  BY DEF TrackedInit
<1>2. TypeOK /\ PeerLists = Fetched => UsablePeersAreServers
  <2> SUFFICES ASSUME TypeOK, PeerLists = Fetched, usablePeers # <<>>
               PROVE  \E answer \in Answers : IsUsableList(usablePeers, Self, answer)
    BY DEF UsablePeersAreServers
  <2>1. PICK answer \in Answers : usablePeers = FilterUsablePeers(Self, Listed(answer))
    BY DEF TypeOK, Fetched
  <2>2. answer \in Seq(ToSet(answer)) /\ \A o \in ToSet(answer) : o.port \in Int
    BY AnswersAssumption
  <2>3. IsUsableList(usablePeers, Self, answer)
    BY <2>1, <2>2, ListIsUsable
  <2> QED
    BY <2>3
<1>3. PeerLists = Fetched /\ [Next]_vars => (PeerLists = Fetched)'
  OBVIOUS
<1> QED
  BY <1>1, <1>2, <1>3, TrackedIsDownload, TypeCorrect, PTL DEF SafeTrackedSpec
=============================================================================
