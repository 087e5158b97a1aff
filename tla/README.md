# A formal model of the P2P file sharing system

TLA+ modules that model the concurrent core of the C++ peer (`src/src/peer`) and of the Go
tracker (`src/service`), TLC configurations that check them on small instances, and TLAPS
proofs of their main invariants for every value of the constants. Paths below are relative
to the repository; `peer.cpp` is `src/src/peer/peer.cpp`, `store.go` is `src/service/store.go`.

## 1. The system

A file is split into numbered chunks. A **peer** keeps chunk files on disk, serves them over
TCP (`GET <fileId> <chunkId>` answered by a `CHUNK` header and the bytes) and downloads chunks
from other peers in parallel. A **tracker** (Go, HTTP) knows which peer has which files, in
Redis and again in Postgres, and counts for each peer the chunk requests that are under way.

| Component | State | Operations | Interacts with |
|---|---|---|---|
| Thread pool (`threadPool.cpp`) | queue, `activeTasks`, `stop`, threads | `addTask`, `wait`, `worker`, destructor | runs the download workers and the server's connections |
| Chunk scheduler (`chunkScheduler.cpp`) | `done`, `claimed` per chunk, one mutex | `getNextChunk`, `markDone`, `markFailed`, `allDone` | shared by all workers of a download |
| Parallel download (`downloadFileFromMultiplePeers`) | `chunkStatus` under `stateMutex`, chunk files, state file, output | resume, submit, wait, check, verify, merge, hash | pool, scheduler, failover, file pipeline |
| Failover (`requestChunkFromAnyPeer`) | loop position | reserve, request, release, next peer | tracker (HTTP), chunk transfer |
| Chunk transfer, client side (`requestChunkFromPeer`, `receiveChunkData`) | socket, chunk file | connect, header, receive, hash, remove | other peer |
| Chunk server (`startPeerServer`, `handlePeerRequest`) | listening socket, pool, a descriptor per connection and per open file | accept, serve one chunk per connection | disk, pool, socket helpers |
| Tracker registry (`store.go`, `handlers.go`) | Redis: record per peer, set of peers per file | register, heartbeat, lookup, expiry | peers, Postgres |
| Load counters (`store.go:214-242`) | Redis: integer per peer | reserve, release, copy at registration | workers of every downloading peer |
| Postgres store (`postgres.go`) | tables of peers, files, chunk owners | upserts, queries | tracker handlers |
| File pipeline (`src/src/file`) | chunk files, metadata map | split, merge, hash, verify | download |
| Wire protocol (`src/src/protocol`) | none | build and parse | transfer, server |
| Peer filter (`filterUsablePeers`) | none | drop unusable endpoints | download |
| Tracker client (`registerPeerWithService`, `sendHeartbeatToService`, lookups) | none | HTTP calls | tracker; called by the manual tests |
| Sequential download (`downloadFileFromPeer`) | loop index, chunk files, output | one peer, chunks in order, merge, hash | transfer, file pipeline |
| Socket helpers (`socketUtils.cpp`) | descriptors of the process | create, accept, connect, send all, close, time-outs | server, transfer |
| One-shot client and server (`client.cpp`, `server.cpp`) | locals | one whole file | |

What is hard: workers race on the scheduler, the status vector and the state file under three
different mutexes; the process may die anywhere and resume from what is on disk; every call to
the tracker may be lost on the way in or out; the tracker's handlers are sequences of
separate Redis commands that interleave with each other and with key expiry; the threads of the
server share one table of descriptors, whose numbers are reused; and a file may be split again,
or its disk fail without a word, while it is on its way.

What makes each component correct is stated in section 4, and `PROJECT.json` lists each hazard
at its line with the properties that cover it.

## 2. Modules

| Module | Models | Built on |
|---|---|---|
| `TaskPool` | what a pool promises: a task runs once, `wait` and the destructor return only when all submitted tasks have finished | |
| `ThreadPool` | `threadPool.cpp` step by step: each locked block, each notification, each join | implements `TaskPool` |
| `ThreadPoolProofs` | proofs about `ThreadPool` | |
| `ChunkScheduler` | the scheduler's operations, as actions on its two vectors | |
| `ParallelDownload` | a whole download: main thread, workers, failover, chunk files, state file, load counters, crash and rerun | `ChunkScheduler`, `TaskPool` and `ChunkRequest` (INSTANCE) |
| `TrackedDownload` | a download whose peers come from answers of the tracker | `ParallelDownload`, `PeerList` |
| `ParallelDownloadProofs` | proofs about `ParallelDownload` and `TrackedDownload`: claims, status, requests, load counters, files, the peers asked | `FoldProofs` |
| `ChunkRequest` | what one request for a chunk does to the chunk file, as its caller sees it | |
| `WireProtocol` | REQUEST, CHUNK and ERROR: how they are built, what may arrive of them, how they are parsed | |
| `ChunkTransfer` | both ends of one connection: request, header, bytes, time-outs, hash | `WireProtocol`; implements `ChunkRequest` |
| `ChunkTransferProofs` | proofs about `ChunkTransfer`, with its refinement of `ChunkRequest` | `FoldProofs` |
| `PeerServer` | the accept loop, the tasks of all connections, descriptors, the server's end | `TaskPool` (INSTANCE) |
| `PeerServerProofs` | proofs about `PeerServer` | |
| `FileSharing` | split, metadata, sequential download, merge and verification, with a file that changes | takes requests to be as `ChunkTransfer` shows |
| `FileSharingProofs` | proofs about `FileSharing` | |
| `PeerList` | from the tracker's answer to the peers a download asks | |
| `FoldProofs` | proofs about the two folds over sequences: the number in a message, the list of peers | `WireProtocol`, `PeerList` |
| `PeerRegistry` | register, heartbeat and lookup as Redis and Postgres commands, time, expiry | |
| `PeerRegistryProofs` | proofs about `PeerRegistry` | |
| `PeerLoad` | the load counter as Redis commands | |
| `PeerLoadProofs` | proofs about `PeerLoad` | |
| `MCThreadPool`, `MCParallelDownload`, `MCChunkTransfer`, `MCPeerServer`, `MCFileSharing`, `MCPeerRegistry`, `MCPeerLoad` | definitions for TLC's instances | |

The download uses the abstract `TaskPool`, not the threads and condition variables: that this
loses nothing is the refinement theorem `PoolRefines`. Operators named `Bad...` are not the
code. Each is a plausible slip in the definition that follows it, kept so that every property
can be seen to notice one.

### 2.1 ThreadPool

State: the members of `threadPool.h`, the position and local `task` of each thread, the
position of the owning thread, and the history set `finished`. A block executed with `mtx`
held is one action, since nothing in such a block waits. Separate actions: `AddTask` and
`NotifyOne` (`notify_one` is outside the block), `Take`, `Run`, `Retire`, `SetStop`,
`NotifyAll`, `Join`. A thread in `cv.wait` is `asleep`; a test of the predicate and falling
asleep are one step because `wait` releases the mutex atomically. Both condition variables may
wake up spuriously. One thread owns the pool, as in the code: it is a local variable of the
function that submits, waits and leaves.

### 2.2 ParallelDownload

`mainPc` follows `downloadFileFromMultiplePeers` line by line; `wpc[w]` follows the closure
given to `addTask` and, inside it, `requestChunkFromAnyPeer`, `reservePeerLoadRemote`,
`requestChunkFromPeer`, `receiveChunkData` and `releasePeerLoadRemote`.

* A chunk file is `absent`, `empty`, `wrong` or `good`. `receiveChunkData` writes under the
  final name, so `OpenChunk` makes the file empty, `ReceiveSome` makes it wrong, and only
  `ReceiveAll` makes it good. The received bytes are hashed against the sender's own hash, so a
  sender with a damaged copy delivers `wrong` (outcome `stale`).
* `Offers[p][c]` says what asking peer `p` for chunk `c` may lead to: `refused` (no
  connection, no usable header), `broken` (ends early or hash differs: file removed), `good`,
  `stale`.
* The state file is truncated when opened and complete when closed, two actions, so that a
  crash can leave any first part of it. Unreadable lines count as `NOT_STARTED`, as
  `stringToChunkStatus` does.
* A chunk is recorded in two steps under `stateMutex`: `Record` sets `chunkStatus` (`peer.cpp:836`),
  `Mark` tells the scheduler, whose mutex is its own (`peer.cpp:838`), and opens the state file. In
  between other workers may ask the scheduler, and the two views differ.
* `TrackerFaults`: a reservation that is not made (`reserve`), one that is made but whose answer
  is lost (`reserveReply`), a release that is lost. Expiry of the counter is in `PeerLoad`.
* `Crash` keeps disk and tracker and starts the call anew, `Rerun` does so after a return.
* `chunkDir` is a constant set `SharedChunks`.

### 2.3 ChunkTransfer

One connection. `cpc` follows `requestChunkFromPeer` with `readChunkHeader` and
`receiveChunkData`, `spc` the task `startPeerServer` submits, with `handlePeerRequest` and
`sendChunkFileInBuffers`.

* The content of a file is a sequence of blocks; the true content is `Chunk`, and `Junk` is a
  block of no chunk. A hash is represented by the content it is of. `Contents` are all sequences
  of the blocks the instance has; the assumptions say that the constants are among them, that the
  chunk is not empty and has no `Junk`.
* `wire` holds what is on its way to the client, `Capacity` pieces at most. TCP cuts anywhere: a
  `recv` takes any non-empty part, the header's line may come in two, and the first blocks
  may come with its end (`payload`). The server's one `recv` gets any part of the request
  (`Pieces`), which `ParseMessage` reads; `whole` remembers whether it got all of it, newline
  included. A socket closed with bytes unread resets the connection, and what was on its way may
  be lost (`NothingToReceive`).
* Messages are sequences of words (`WireProtocol`): the parser takes words from a stream, so white
  space and wording are left out, but not where a number is cut, since its first digits are a
  number again. `Requests` holds what is asked for: a number that can be cut, one above
  `kMaxChunkId`, and a name that `isSafeFileId` refuses. The `chunkId` is an `int`; a number in a
  message, that of a `size_t` included, has at most twenty digits (`Numeral`).
* `size`, `hashed` and the bytes sent are read from the file at three moments. The serving peer
  may be downloading the same chunk into the same file meanwhile (`FetchStep`, at most
  `MaxFetches` times), so that it grows, or is removed while open (`held`).
* The client's sockets time out, so `NoHeader` and `ReceiveEnds` are possible whenever nothing
  has arrived. The server's never do.
* `PushLost`: the first send to a connection the client has closed succeeds, a later one fails
  or raises SIGPIPE.

The requests of `ParallelDownload` are those of `ChunkRequest` as well (`Request(w)`, property
`RequestsAsSpecified`), so what the download takes a request to do is what a transfer has been shown to
do. One difference remains: `ReceiveAll` takes the last write and the comparison of the hashes for one
step. After a crash between them the file is there with all its bytes, which is `good` or `wrong` as after
`ReceiveAll`, or `wrong` as after `ReceiveSome`.

### 2.4 PeerServer

`main` follows `startPeerServer`, `handler[c]` the task it submits for the connection of client
`c`: `handlePeerRequest`, `serveRequestedChunk`, `computeFileSha256`, `sendChunkFileInBuffers` and
`closeSocket`. `client[c]` is the other end, in `requestChunkFromPeer` or `connectToPeer`. What is
said between them is in `ChunkTransfer`; here an answer is a header and some blocks.

* `table` says what each descriptor stands for. The lowest free number is given out next, and
  `close(n)` closes whatever `n` is by then. `acceptClient` closes the listening socket when
  accept fails (`AcceptFails`), and `startPeerServer` closes the same number once more
  (`CloseAgain`, `peer.cpp:86`): a task may have been given the number for a chunk file in
  between, which then reads to an early end (`EndOfFile`). No new connection can have it, because
  only the accept loop accepts; this is why `ConnectionsKept` holds.
* Accept may fail for want of descriptors or for any other reason, at any time. The server then
  waits for the pool's destructor and returns `false`.
* A send to a connection its client has closed may end the process (`death = "signal"`), and so
  may `file_size` of a file that has gone (`death = "exception"`). The properties say what holds up
  to there.

### 2.5 FileSharing

`spc` follows the owner's `splitFileIntoChunks` and `buildAndStoreMetadata`, `dpc` the download in
`downloadFileFromPeer` with `mergeChunks` and `verifyMergedFileHash`. The owner may replace the
file and split it again under the same `fileId` between any two steps. Files are sequences of
blocks, `chunkSize` blocks to a chunk.

* A split that cannot open, read or write on ends, and returns the number of chunks it has; its
  caller cannot tell this from a shorter file. The last chunk, being shorter than a stream's buffer
  can be, may be lost when its stream is closed, which nobody looks at; likewise the end of the
  merged file. `mergeChunks` takes a read error in any chunk for its end and goes on with the next
  (`chunkManager.cpp:96-109`).
* `computeFileSha256` takes a read error for the end of the file. `cut` records that this has
  happened.
* `store` is the `metadataStore` of the process that downloads. The hash in it is of the file at the
  time of `buildAndStoreMetadata`, not of what was split.

### 2.6 PeerList

`Listed` is what `requestPeersForFileService` takes over from an answer, `FilterUsablePeers` the
function of that name, `IsUsableList` what their composition should give, stated without a loop.
`TrackedDownload` is the download whose lists are what `filterUsablePeers` leaves of the tracker's answers
(`Fetched`), and says that the peers its workers ask are of that kind at every moment. Run
`download_failover` is of that specification, with every answer of up to four objects.

### 2.7 PeerRegistry and PeerLoad

One action per Redis command, because handlers run concurrently and no command is grouped in a
transaction. `req[p]` is the handler that works for peer `p`, with its local variables, and
`look[f]` the lookup of file `f`.

Time is counted in ticks, `TTL` of them per `peerRecordTTL`. A record has the `age` of its
`lastSeen`, which the program compares (`isPeerFresh`), and the remaining `life` Redis counts.
`lastSeen` is cut to a full second before Redis starts to count, so there is a moment in which
a record is stale and still there; the model has it, and one of the findings lives there. A
registration stamps twice: `registerHandler` for what goes to Postgres (`handlers.go:37`), and
`upsertPeer`, on a copy of the struct, for what goes to Redis (`store.go:101`). `Register` and `Upsert`
are the two, and `req[p]` has the age of both stamps, `since` and `age`.

Assumptions of `PeerRegistry`: a peer sends its next request when the last is answered (the
heartbeat loops of `trackerTest.cpp`, `peerTest.cpp` and `parallelDownloadTest.cpp` do), one
lookup per file is under way at a time. What holds depends on the surroundings, so a behaviour has a
`regime`, chosen in its first state: whether live peers are heard before they are stale and no tick
falls into a request (`punctual`), what each peer may do (`lifecycle`: stay, stop, return), whose
commands may fail (`faults`) and which lists of files a peer registers (`shares`). Each property
names the regimes it is about: `Settled` ones are punctual, their peers stay and Redis does not fail.
The history variable `lapsed` remembers the sets that listed a peer when its record expired, together
with those a registration under way was about to join; a set the peer registers again is taken out.
`behind` remembers how far the row of a peer was stamped before its record, 0 after a heartbeat.

`PeerLoad` takes the key `peer:<id>:load` out of `upsertPeer` and `touchPeer`: it shares no other key with
the registry. Its history variable `expired` tells whether the key has been dropped since the start, and
`raced` whether a request came between the GET and the SET of a registration that had found a counter.
That is the one way in which the count goes wrong by itself, and run `load_copied` shows it; every
registration may find a counter, the first one too.

## 3. Runs

All runs check deadlock. `Terminated`, `Destroyed` and `Over` are the states in which the program has
stopped; nothing else may stop.

| Run | Instance | Checks |
|---|---|---|
| `thread_pool` | 3 threads, 3 tasks, fair | counter, no lost wake-up of `cv` or `doneCv`, destructor drains; every task runs, `wait` and destructor return, `ThreadPool` implements `TaskPool` |
| `download_crash` | 2 workers, 2 peers, 2 chunks, all faults of tracker and disk, 1 crash, 1 rerun, a peer with damaged copies | exclusive claims, `wait` implies all done, the two views of status agree for whoever has `stateMutex` and after the wait, state file has one writer and says DONE only of a file, finished chunks untouched, each request is a `ChunkRequest`, requests counted, `true` only for the right file |
| `download_failover` | 3 chunks, 2 workers; answers of up to 4 objects: a server under two ids that always fails, one that delivers, the downloader itself, an object without a port; fair | the lists that `filterUsablePeers` leaves are right; the download succeeds, what it merges is intact, the load ends exact |
| `transfer` | a chunk of 2 blocks, 6 possible files on the server, 3 requests, 1 download of the server's own, failing writes, the client fair | what is accepted is the file as it was when hashed, and of another chunk only if the request was cut in its number; the request returns whatever the server does; the server's task ends though it has no time-out; the outcomes are those of `ChunkRequest` |
| `server` | 2 threads, 2 requesters, 1 probe, 4 descriptors, backlog 2, fair threads and clients | no close hits another's connection, no descriptor is left over, every connection ends, a server whose accept fails returns with nothing under way |
| `sharing` | 4 versions of 0 to 3 blocks, chunks of 2, 1 change, 2 faults, fair | a split counts complete chunks; `true` means one whole version; the download gets the file when things stop to fail |
| `registry` | 2 peers, 2 files, `TTL = 2`, fair, in four regimes: `Steady` (punctual, peers stay), `Leaving` (peers stop, Postgres may fail), `Returning` (a peer comes back with other files), `Failing` (any delay, Redis commands may fail) | a punctual peer is found under its files; a peer is listed for a file it has given up only where `lapsed` says; the stores agree, a row is behind its record by no more than its stamp is; a stopped peer is forgotten |
| `load` | 6 requests, 2 registrations that may find a counter, key may expire | where no request comes between a registration's GET and SET: exact until it expires, never too high, never stuck below zero |

Runs that find a disagreement between the code and what its comments say:

| Run | Finding |
|---|---|
| `download_resume` | a crash in a transfer leaves a partial chunk under its final name; resume skips it and `verifyAllChunksComplete` calls it "present and valid" |
| `download_unserved` | a chunk nobody delivers is retried for ever; the branch that reports missing chunks is never reached |
| `registry_swept` | a late heartbeat makes a peer fresh that is in no set: `touchPeer` only extends sets |
| `load_copied` | a registration's GET and SET of the counter lose what is released in between |

**Bounds.** Two workers are enough for every race on scheduler, status and state file, since
each is between two closures or a closure and the main thread. With two chunks a worker can find
nothing to claim while the other's chunk may still fail, and take it when it does; with three the
failover of one chunk meets one that is held and one that is done. Two peers give a failing and a good one, and a
failover that wraps around. `MaxLeaks` bounds the counter above which no further loss of a
release is taken; it is 2, because the worker whose release is lost still counts for one. One crash reaches every kind of left-over file; the rerun lets a call start
with them. Three threads are needed for two sleepers to compete for one notification while a
third is busy. `TTL = 2` distinguishes fresh, about to expire and stale; two peers let one keep
alive a set that another has left. Two blocks give a transfer a first, a last and a missing block,
room for three pieces lets more arrive with the header than it announced and still blocks the server, and with one
download of its own the server's file can appear, grow and vanish between any two of its steps. The
limits of the parser are 100 and 2 in place of 1000000 and 64 MiB: one request is on each side of the first,
a file of three blocks above the second. Four descriptors are one less than three connections
and the listener need with a file open, so accept and `ifstream` both find none; two threads leave a connection
in the queue. The versions of `sharing` are an empty file, one full chunk, and two that
end in a part of one and can be mixed; two faults let one cut the split short and a second cut a hash.
The four regimes of `registry` differ in more than one respect each: a property is tested against every regime its
premise admits. Ticks fall between the two stamps of a registration in `Failing`; in punctual regimes no tick
falls into any request.
Symmetry is used on interchangeable workers and requests, and never with liveness. Larger values of the constants are the proofs' concern.

**Fairness.** Threads are scheduled and tasks return (`WF` of each thread's step). A transfer
ends because both directions of its socket time out (`SO_RCVTIMEO` and `SO_SNDTIMEO` of five
seconds, `socketUtils.cpp:117-150`): `ChunkTransfer` shows it (`RequestReturns`) with fairness of the
client only. The server's task ends because the client's does and closes the socket:
`HandlerEnds` states its own need of a server that is scheduled. Calls to the tracker are *assumed* to return: `peer.cpp`
sets no timeout on those sockets, so a tracker that accepts and stays silent stops a worker,
and no liveness property of the download survives that. In `PeerServer` the loop starts, accepts
what waits, closes and returns (`WF` of each of these; nothing makes accept fail), the tasks are scheduled, and the clients go
on once connected, because theirs are the time-outs; the server has none, and with a client that
neither speaks nor closes `ServerProgresses` fails. In `FileSharing` a split that has begun ends and
the download is called again, as its user would; faults are bounded. In `PeerRegistry` time passes,
Redis expires keys, the heartbeat loops go on, handlers end and lookups keep coming.

`download_failover` holds only when every chunk is served by someone. If one is not, not even
the other chunks are sure to arrive: `getNextChunk` hands out the lowest free chunk, so workers
may come back to the unserved one for ever.

**Variants** that no run keeps, with what TLC answers:

* `registry` with `FindableWhenFresh` in place of `FindableWhenPunctual` is violated in `Leaving`, where nobody is late: between `SADD` and `EXPIRE`
  (`store.go:124-125`) the set of a file can reach the end of the life another peer gave it, and
  the new member is lost with it. The window is that of two commands; `FindableWhenPunctual` is
  about regimes in which peers stay.
* `registry` without `lapsed` violates `ListedPeersHaveFile`: a peer whose record has
  expired registers again with other files, no old record tells `upsertPeer` which sets to leave
  (`store.go:104-108`), and `peerForFile` returns it for a file it has given up, since it does
  not look at the files of the record. The property says that this is the only way.
* `download_failover` with `SharedChunks = {0}` never succeeds: a chunk in `chunkDir` is skipped
  (`peer.cpp:773`) and verified, and `mergeChunks` looks in `downloadDir` only. The proofs hold for
  every `SharedChunks`.
* `transfer` with the invariant `spc # "dead"`, and `server` with `death = "none"`, are violated. A client that has timed out closes its
  socket, and the second send to it raises SIGPIPE, which is not ignored (`socketUtils.cpp:95-110`
  sends without `MSG_NOSIGNAL`); or the file vanishes before `file_size`, which throws out of the
  task (`peer.cpp:271`). Both end the process of the serving peer, whose `handlePeerRequest` means
  not to "kill the whole server because one request was bad" (`peer.cpp:97`).
* `transfer` with the invariant `ok => output = Chunk` is violated: a damaged or partly downloaded
  file is served with its own size and hash, and so is another chunk after a request that came in
  pieces: chunk 1 for a request of chunk 12, whose header says 1, which the client does not compare
  (`peer.cpp:163`). `AcceptedWasAsked` says that nothing else is. It is the outcome `stale` of `ParallelDownload`; the check of the merged file's hash
  (`SuccessMeansIntact`) is what stands between it and the user.
* After a crash between the creation of a chunk file and its first byte, every later call skips
  the empty file (`chunkExists`) and fails its verification (`file_size` of 0).
* `sharing` without `~cut` violates `TrueMeansWhole`: the hash of the original is cut by a read
  error at the place where the split was cut by a write error, and a part of the file passes for it.
* The process of `src/tests/peer2Test.cpp` downloads a file it has not split. Its `metadataStore` is
  empty, `verifyMergedFileHash` returns false (`metadataManager.cpp:98`), and "Download and
  reconstruction passed" (`peer2Test.cpp:30`) is never printed, although the file is there. The
  parallel download has it as `MetadataKnown = FALSE`.
* An empty file splits into no chunks. The sequential download makes an empty file of it and verifies
  it; the parallel one refuses `totalChunks <= 0`.

## 4. Properties

Each property is stated at the end of its module with the reason for it. Type invariants say little
that the other properties do not need anyway: no run is spent on them, and all of them are proved. What
is interesting in one is told in section 5. The central properties:

* *Pool:* `NoStrandedTask`, `NoMissedCompletion`, `NoSleeperAtJoin`, `DestroyedAfterDrain`,
  `PoolProgresses`, `ImplementsTaskPool`.
* *Download:* `ClaimsAreExclusive`, `WaitImpliesAllDone` (a worker returns while others may still
  fail their chunk), `StatusAgrees`, `OneStateFileWriter` (the final save does not take
  `stateMutex`), `DoneChunkStable`, `RequestsAsSpecified` (a request finds no left-over of an earlier
  one, and no other worker touches its file), `PersistedDoneHasFile`, `SuccessMeansIntact`,
  `IntactUnlessCrashed`, `TransfersAreCounted`, `LoadExact`, `DownloadSucceeds`.
* *Peer list:* `UsablePeersAreServers`.
* *Transfer:* `AcceptedWasServed`, `AcceptedWasAsked`, `RequestReturns`, `HandlerEnds`,
  `ImplementsChunkRequest`.
* *Server:* `ConnectionsKept`, `NoDescriptorLeak`, `ReturnsDrained`, `ServerProgresses`.
* *File:* `CountedChunksAreComplete`, `TrueMeansWhole`, `DownloadRecovers`.
* *Registry:* `FindableWhenPunctual`, `ListedPeersHaveFile`, `StoresAgree`,
  `PostgresKnowsLivePeers`, `StoppedPeerForgotten`.
* *Load:* `CountsActive`, `NeverOverCounts`, `NegativeIsBeingClamped`.

## 5. Proofs

Eight modules hold the proofs. They assume only the named assumptions of the modules: typed constants,
finite sets of threads, workers, clients and requests, and values for "nothing" (`Absent`, `None`)
that are none of the values they stand beside. Two theorems have hypotheses of their own:
`IntactWithoutCrash`, which says so in its name and statement, and `ListIsUsable`, for which an
answer is a sequence of objects whose ports are integers. Each safety property of a
passing run, every invariant and every action property, is stated by one theorem.

* `ThreadPoolProofs`. `PoolInv` is inductive and implies every safety property of the module.
  Beyond the properties it says that a thread holds a task exactly when it is running or
  retiring one and that the set of such threads is what `activeTasks` counts; `NoStrandedTask`
  is inductive only together with the position of the owner, and `NoMissedCompletion` only
  because `Retire` tests and notifies in the block that lowers the counter. With `OnceEach` (no
  task is in two places) every step maps to a step of `TaskPool` or leaves it unchanged:
  `PoolRefines`.
* `ParallelDownloadProofs`. `CoreInv` adds to types and claims `Phases` (which positions of the
  main thread and the workers can meet) and `LastOneOut`: while a chunk is not done, either a
  worker holds it, or some worker has still to look at the scheduler, or the call has not
  submitted its workers yet. It is the reason for `WaitImpliesAllDone`: a worker leaves only when
  every chunk is done or claimed by somebody else, and the one that holds a chunk looks again after it. `DiskInv`
  carries `PersistedDoneHasFile` through torn saves and crashes. `NoLeftovers` is what
  `RequestsAsSpecified` adds to it: while workers are under way, a chunk that is not done has a file only
  if some worker has written it and has not yet seen its request fail. So a file is there because the
  chunk counted as done on resume, or because its one holder is at it, and a request, which only the
  holder makes, starts with none (`RequestStarts`).

  `Counted` compares the tracker's count of a peer with the set of workers
  that have a reservation there. The set changes by the one worker that takes a step; what makes the
  difference between `>=` and `=` is a lost answer or a crash, and a release never takes the count
  below the others' reservations because the one who releases is still in the set. `Merged` takes
  `SuccessMeansIntact` from the merge, which reads the chunk files, over the comparison of hashes to
  the return: only the workers write those files, and `Phases` says that none is under way then.
  `StatusAgrees` needs what holds while they differ: the one chunk whose flags are apart is that of
  the worker that is `marking`, and no other worker can be, because it has the mutex. `Clean` is what `IntactUnlessCrashed` needs while workers are under way: a file that is neither
  absent nor the chunk is being received by the worker that holds the chunk. Together with
  `StatusAgrees`, `WaitImpliesAllDone` and `DiskInv` it gives the property once they have ended. The
  hypothesis `NoDamagedCopies` is the property's own: no peer delivers a complete file that is not
  the chunk. `PoolNeverRefuses` says of the pool what the model of its calls presupposes: it is
  open, has room and is quiet whenever the main thread needs it to be, so the guards of `TaskPool`
  keep no step from happening that the code would take.
* `PeerLoadProofs`. `LoadInv` bounds the counter by the requests under way from above and by the
  releases that have still to clamp it from below, and says the same of the value a registration has read
  and is about to write, as long as no request has come in between (`Covered`); cardinalities
  change by one with each command (`Moves`).
* `ChunkTransferProofs`. `TransferInv` follows a byte stream. `InOrder`: nothing is on the wire before the
  file has been hashed, then one line, then blocks only. `Agreed`: once the client has its header,
  the hash in it is that of `hashed`. This needs the place of the hash among the words of the header:
  it is the fifth because the `fileId` is one word, and it is one word because
  `isSafeFileId` lets no request be sent with another. `Filled`: what the client has written
  and what remains add up to what was announced, which is also why `remaining`, a `size_t` in the
  code, never wraps, and why `TypeOK` is worth a theorem here. `Readable`: the file that is sent has
  a content. `RequestImplemented` maps the position of the client and its file to `ChunkRequest`
  (`Phase`, `ChunkFile`), each action of `ChunkTransfer` to an action of it or a stutter.
  `AcceptedIsAsked` follows the request instead: `Understood` says that the number whose file is
  hashed and sent is the one asked for if the request came whole, and else the one asked for or its
  first digits.
* `FoldProofs`. `FoldLeft` is a recursive function of sets of indices that is chosen. `FoldExists`
  shows that there is one, and `SegmentInduction`, which is the well-foundedness of the numbers applied
  to a set of counterexamples, goes along the sequence: it needs no induction theorem with an operator
  for a parameter. With it the digits that `to_string` makes are read back by `stoll`
  (`WholeNumeral`), the first of them as the number without its last digits (`CutNumeral`), and
  `ListIsUsable` holds: for every answer of the tracker `filterUsablePeers` keeps each server that other
  peers run, once, in the order of the answer. `ListIsServers` carries this to the peers that a
  `TrackedDownload` asks at any moment.
* `PeerServerProofs`. `ServerInv` says what numbers mean. `Numbered`: a number kept by a task stands
  for its connection or its file, with one exception, the number of the listening socket after the
  loop has ended. `Owned`: whatever is in the table has its user. `Phases`: where loop, pool and
  tasks can be together. `ConnectionsKept` is `Numbered` without the exception: accept has been the
  only source of connections, and it does not run any more when the number is closed again.
  `UsesPool` shows that the server's use of its pool is a behaviour of `TaskPool`, and `PoolNeverRefuses`
  that the preconditions of the pool never keep it from accepting or ending; the latter needs
  `PoolOpen`, by which what waits for accept waits there once.
* `FileSharingProofs`. `SplitSoFar` carries the chunks a split has written through its loop, the last one
  included, which may be cut; `HashesVouch` says that a hash of a file read to its end is of a
  version. The lemmas are about division: which piece is the last, and which is full.
* `PeerRegistryProofs`. One invariant per property, each of which says what becomes of it half-way through
  a handler. `RowsKeepUp`: the row is behind the record by no more than `behind`, but for the moment between
  the two writes, and what a handler is about to write is not older than what is there. `HandlersAgree`: from
  the answer on, record, row and a heartbeat's copy of the record name the same files.
  `SetsAreKnown`: a set that lists a peer is named by its record, or by a registration under way that has
  read it, or was lost sight of when the record expired. `SetsAreKept`: where all is settled, the set
  of a file lives at least as long as the record of each of its peers, and no time passes before the
  sets a handler has still to extend are extended.

Two properties were corrected by their proofs. `FindableWhenPunctual` was said of all punctual regimes and
is true only of those in which Redis does not fail; no regime of the run is punctual with such failures. `lapsed`
left out the set a registration was about to limit when the record expired.

Only model-checked: liveness (`PoolProgresses`, `DownloadSucceeds`, `RequestReturns`, `HandlerEnds`,
`ServerProgresses`, `DownloadRecovers`, `StoppedPeerForgotten`), which is out of TLAPS' reach here.

## 6. Not modelled

* The text of HTTP requests and replies, JSON, file and directory layout, logging. The tracker
  client's calls are in the models as what they make the tracker do and how they fail.
* CONNECT and COMPLETE, which no peer sends, and what characters a `fileId` has beyond the blank.
* The Postgres tables of files and chunk owners: one upsert or query each, which no peer calls. The
  order of `peerForFileBalanced`, whose comparison reads counters that change while it sorts
  (`store.go:249`): the lists of `PeerList` come in every order.
* Hosts that connect and stay silent; see the fairness of `PeerServer`.
* `client.cpp`, `server.cpp`, `fileTransfer.cpp` (one-shot transfer), health and
  key-value endpoints of the tracker.
* Exceptions that leave a task (they end the process, as `Crash` does).

## 7. Plan

1. *Done:* pool and scheduler; the download that composes them; their invariants and
   proofs, and the refinement of `TaskPool`; the registry and the load counter of the tracker
   with the proof about the counter; one transfer from both ends on the wire protocol, with its
   refinement of `ChunkRequest` checked; the server; the file pipeline with the sequential download;
   the list of peers.
2. *Done, proofs:* all safety properties of the runs; the refinements of `TaskPool` and `ChunkRequest`,
   and that the modules which build on these two use them as they are meant.
3. *Modelling left:* a download process without metadata and the chunks of `chunkDir`
   (`peer.cpp:894`) are constants of `ParallelDownload` that no run varies; the proofs hold for all
   their values.
4. *Proofs left:* the liveness properties, should a prover for them become available.
