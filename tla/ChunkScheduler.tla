--------------------------- MODULE ChunkScheduler ---------------------------
(***************************************************************************)
(* src/peer/chunkScheduler.cpp: which chunk a worker of a parallel         *)
(* download takes next.  Each method runs entirely under the scheduler's   *)
(* own mutex, so each is one atomic step.                                  *)
(*                                                                         *)
(* The module has no next-state relation of its own: ParallelDownload.tla  *)
(* extends it and calls these methods from its workers.                    *)
(***************************************************************************)
EXTENDS Integers

CONSTANT totalChunks    \* number of chunks of the file being downloaded

ASSUME TotalChunksAssumption == totalChunks \in Nat

VARIABLES
    done,               \* vector<bool>: the chunk needs no more work
    claimed             \* vector<bool>: some worker has it in hand

schedulerVars == <<done, claimed>>

Chunks == 0..(totalChunks - 1)

SchedulerTypeOK ==
    /\ done \in [Chunks -> BOOLEAN]
    /\ claimed \in [Chunks -> BOOLEAN]

Available(c) == ~done[c] /\ ~claimed[c]

\* Definitions whose name starts with Bad are not the code: each is a plausible
\* slip in the definition that follows it, which some property has to notice.

\* the chunk is not marked as taken
BadGetNextChunk(c) ==
    /\ Available(c)
    /\ \A lower \in Chunks : lower < c => ~Available(lower)
    /\ UNCHANGED schedulerVars

\* getNextChunk returns the lowest chunk nobody has in hand ...
GetNextChunk(c) ==
    /\ Available(c)
    /\ \A lower \in Chunks : lower < c => ~Available(lower)
    /\ claimed' = [claimed EXCEPT ![c] = TRUE]
    /\ UNCHANGED done

\* ... or -1
NoNextChunk ==
    /\ \A c \in Chunks : ~Available(c)
    /\ UNCHANGED schedulerVars

MarkDone(c) ==
    /\ done' = [done EXCEPT ![c] = TRUE]
    /\ claimed' = [claimed EXCEPT ![c] = FALSE]

\* the chunk stays taken
BadMarkFailed(c) == UNCHANGED schedulerVars

\* the chunk goes back to where getNextChunk finds it
MarkFailed(c) ==
    /\ claimed' = [claimed EXCEPT ![c] = FALSE]
    /\ UNCHANGED done

AllDone == \A c \in Chunks : done[c]
=============================================================================
