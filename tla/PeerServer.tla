------------------------------ MODULE PeerServer ------------------------------
(***************************************************************************)
(* The chunk server of a peer (startPeerServer in src/src/peer/peer.cpp):  *)
(* an accept loop that hands every connection to a thread pool, the tasks  *)
(* that serve them, and the descriptors all of this goes through.  The     *)
(* clients run requestChunkFromPeer or connectToPeer.                      *)
(*                                                                         *)
(* A descriptor is a number, and the lowest that is free is given out      *)
(* next: close(n) closes whatever n stands for by then.  Descriptors 0 to  *)
(* 2 and those of other activities of the process are left out.  What is   *)
(* said on a connection is in ChunkTransfer; here an answer is a header    *)
(* and some blocks, and it matters only who gets it and when it ends.      *)
(***************************************************************************)
EXTENDS Integers, Sequences, FiniteSets, FiniteSetsExt

CONSTANTS
    Requesters,     \* clients in requestChunkFromPeer
    Probes,         \* clients in connectToPeer
    Threads,        \* size of the pool
    Fds,            \* numbers of the descriptors the process may have
    Backlog,        \* connections that wait for accept
    None

Clients == Requesters \cup Probes

ASSUME ServerAssumption ==
    /\ Requesters \cap Probes = {} /\ IsFiniteSet(Clients)
    /\ Fds \subseteq Nat /\ Fds # {} /\ IsFiniteSet(Fds)
    /\ {Threads, Backlog} \subseteq Nat \ {0}
    /\ None \notin Fds

VARIABLES
    main,               \* where startPeerServer is
    death,              \* what ended the process, if anything has
    table,              \* what each descriptor stands for
    backlog,            \* connections made and not yet accepted
    client,             \* where each client is
    sock,               \* serverToClientSocketFd of each accepted connection
    handler, file,      \* where its task is, descriptor of its chunk file
    lost,               \* a send has gone to a connection the client has closed
    pending, running, finished, owner   \* the pool

poolVars == <<pending, running, finished, owner>>
taskVars == <<sock, handler, file, lost>>
vars == <<main, death, table, backlog, client, taskVars, poolVars>>

Pool == INSTANCE TaskPool WITH Tasks <- Clients

Listener == [kind |-> "listener", of |-> None]
Socket(c) == [kind |-> "socket", of |-> c]
File(c) == [kind |-> "file", of |-> c]

Entry == {None, Listener} \cup {Socket(c) : c \in Clients} \cup {File(c) : c \in Clients}

ASSUME NoneAssumption ==
    None # Listener /\ \A c \in Clients : None # Socket(c) /\ None # File(c)

Free == {d \in Fds : table[d] = None}
Lowest == Min(Free)
\* the server starts with no descriptor of its own
ServerFd == Min(Fds)

Alive == death = "none"
Listening == Alive /\ table[ServerFd] = Listener
Connected(c) == client[c] \in {"connected", "asked"}
\* the server has closed the connection, or the system has for it
Ended(c) ==
    \/ ~Alive \/ handler[c] = "ended"
    \/ handler[c] = "none" /\ sock[c] = None /\ ~Listening

Init ==
    /\ main = "starting" /\ death = "none"
    /\ table = [d \in Fds |-> None] /\ backlog = <<>>
    /\ client = [c \in Clients |-> "new"]
    /\ sock = [c \in Clients |-> None] /\ file = [c \in Clients |-> None]
    /\ handler = [c \in Clients |-> "none"]
    /\ lost = [c \in Clients |-> FALSE]
    /\ Pool!PoolInit

-----------------------------------------------------------------------------
(* The clients *)

ClientUnchanged == UNCHANGED <<main, death, table, taskVars, poolVars>>

\* connectToServer; a queue that is full makes it wait
Connect(c) ==
    /\ client[c] = "new" /\ Listening /\ Len(backlog) < Backlog
    /\ client' = [client EXCEPT ![c] = "connected"]
    /\ backlog' = Append(backlog, c)
    /\ ClientUnchanged

Refused(c) ==
    /\ client[c] = "new" /\ (~Listening \/ Len(backlog) = Backlog)
    /\ client' = [client EXCEPT ![c] = "closed"]
    /\ ClientUnchanged /\ UNCHANGED backlog

\* Definitions whose name starts with Bad are not the code: each is a plausible
\* slip in the definition that follows it, which some property has to notice.

\* the socket is kept, to look again later
BadProbe(c) ==
    /\ c \in Probes /\ client[c] = "connected"
    /\ client' = [client EXCEPT ![c] = IF Ended(c) THEN "closed" ELSE @]
    /\ ClientUnchanged /\ UNCHANGED backlog

\* connectToPeer closes what it has opened
Probe(c) ==
    /\ c \in Probes /\ client[c] = "connected"
    /\ client' = [client EXCEPT ![c] = "closed"]
    /\ ClientUnchanged /\ UNCHANGED backlog

\* sendAll of the request, which may find the connection closed
Ask(c) ==
    /\ c \in Requesters /\ client[c] = "connected"
    /\ \/ client' = [client EXCEPT ![c] = "asked"]
       \/ Ended(c) /\ client' = [client EXCEPT ![c] = "closed"]
    /\ ClientUnchanged /\ UNCHANGED backlog

\* all the header announces has come, or the end of the connection, an ERROR or a
\* time-out
Leave(c) ==
    /\ client[c] = "asked"
    /\ client' = [client EXCEPT ![c] = "left"]
    /\ ClientUnchanged /\ UNCHANGED backlog

-----------------------------------------------------------------------------
(* The accept loop *)

MainUnchanged == UNCHANGED <<client, death>>

\* ensurePeerStorageLayout and createServerSocket, which closes its socket when
\* anything after socket() fails
StartServer ==
    /\ main = "starting"
    /\ \/ /\ main' = "accepting"
          /\ table' = [table EXCEPT ![Lowest] = Listener]
       \/ main' = "returned" /\ UNCHANGED table
    /\ MainUnchanged /\ UNCHANGED <<backlog, taskVars, poolVars>>

\* accept, and addTask
Accept ==
    /\ main = "accepting" /\ Alive
    /\ backlog # <<>> /\ Free # {}
    /\ LET c == Head(backlog)
       IN  /\ sock' = [sock EXCEPT ![c] = Lowest]
           /\ table' = [table EXCEPT ![Lowest] = Socket(c)]
           /\ Pool!Submit(c)
    /\ backlog' = Tail(backlog)
    /\ MainUnchanged /\ UNCHANGED <<main, handler, file, lost>>

\* accept fails: no descriptor or no memory is left, or the connection has been
\* aborted.  acceptClient closes the socket it was given, and what waits is reset.
AcceptFails ==
    /\ main = "accepting" /\ Alive
    /\ table' = [table EXCEPT ![ServerFd] = None]
    /\ backlog' = <<>>
    /\ main' = "failing"
    /\ MainUnchanged /\ UNCHANGED <<taskVars, poolVars>>

\* startPeerServer closes the same number again and returns, for which the
\* pool's destructor is entered
CloseAgain ==
    /\ main = "failing" /\ Alive
    /\ table' = [table EXCEPT ![ServerFd] = None]
    /\ main' = "draining"
    /\ Pool!Close
    /\ MainUnchanged /\ UNCHANGED <<backlog, taskVars>>

\* threads are not joined
BadReturn ==
    /\ main = "draining" /\ Alive
    /\ main' = "returned"
    /\ owner' = "closed"
    /\ MainUnchanged /\ UNCHANGED <<table, backlog, taskVars, pending, running, finished>>

\* it has run and joined everything
Return ==
    /\ main = "draining" /\ Alive
    /\ Pool!Closed
    /\ main' = "returned"
    /\ MainUnchanged /\ UNCHANGED <<table, backlog, taskVars>>

-----------------------------------------------------------------------------
(* The task of a connection: handlePeerRequest and closeSocket *)

TaskUnchanged == UNCHANGED <<main, backlog, client, owner, pending>>

At(c, position) == Alive /\ c \in running /\ handler[c] = position
Go(c, position) == handler' = [handler EXCEPT ![c] = position]

\* a thread of the pool takes the task
Start(c) ==
    /\ Alive /\ Cardinality(running) < Threads
    /\ Pool!Start(c)
    /\ Go(c, "receiving")
    /\ MainUnchanged
    /\ UNCHANGED <<main, table, backlog, sock, file, lost>>

\* the socket is closed on the path of the error already, and again at the end
BadReceive(c) ==
    /\ At(c, "receiving")
    /\ \/ /\ client[c] \in {"asked", "left"}
          /\ (Go(c, "sizing") \/ Go(c, "refusing")) /\ UNCHANGED table
       \/ /\ client[c] \in {"closed", "left"} /\ Go(c, "closing")
          /\ table' = [table EXCEPT ![sock[c]] = None]
    /\ TaskUnchanged
    /\ UNCHANGED <<death, sock, file, lost, running, finished>>

\* the one recv; an invalid request and a chunk that is not there are answered
\* with an ERROR
Receive(c) ==
    /\ At(c, "receiving")
    /\ \/ client[c] \in {"asked", "left"}
          /\ (Go(c, "sizing") \/ Go(c, "refusing"))
       \/ client[c] \in {"closed", "left"} /\ Go(c, "closing")
    /\ TaskUnchanged
    /\ UNCHANGED <<death, table, sock, file, lost, running, finished>>

\* an ifstream is constructed; the position after it depends on whether it opened
OpenFile(c, opened, failed) ==
    /\ \/ /\ Free # {}
          /\ file' = [file EXCEPT ![c] = Lowest]
          /\ table' = [table EXCEPT ![Lowest] = File(c)]
          /\ Go(c, opened)
       \/ Go(c, failed) /\ UNCHANGED <<file, table>>
    /\ TaskUnchanged
    /\ UNCHANGED <<death, sock, lost, running, finished>>

\* file_size throws if the file has gone, and what a task throws nobody catches
TakeSizeThrows(c) ==
    /\ At(c, "sizing")
    /\ death' = "exception"
    /\ TaskUnchanged
    /\ UNCHANGED <<handler, table, sock, file, lost, running, finished>>

\* file_size, and the file is opened for its hash ...
TakeSize(c) == At(c, "sizing") /\ OpenFile(c, "digesting", "refusing")
\* ... and again to be sent
OpenForSending(c) == At(c, "opening") /\ OpenFile(c, "reading", "closing")

\* the file stays open
BadCloseFile(c, next) ==
    /\ file' = [file EXCEPT ![c] = None]
    /\ UNCHANGED table
    /\ Go(c, next)
    /\ TaskUnchanged
    /\ UNCHANGED <<death, sock, lost, running, finished>>

\* the ifstream is destroyed, and closes its number whatever that is by now
CloseFile(c, next) ==
    /\ table' = [table EXCEPT ![file[c]] = None]
    /\ file' = [file EXCEPT ![c] = None]
    /\ Go(c, next)
    /\ TaskUnchanged
    /\ UNCHANGED <<death, sock, lost, running, finished>>

\* computeFileSha256 has read to the end; no file, no hash
Digest(c) == At(c, "digesting") /\ (CloseFile(c, "answering") \/ CloseFile(c, "refusing"))

\* the end of the file, which comes early if it has been written or its number
\* closed since its size was taken
EndOfFile(c) == At(c, "reading") /\ CloseFile(c, "closing")

\* sendAll.  Once the client has closed, a first send succeeds, and a later one
\* fails or raises SIGPIPE, which is not ignored.
Send(c, next, failed) ==
    /\ \/ Connected(c) /\ Go(c, next) /\ UNCHANGED <<lost, death>>
       \/ ~Connected(c) /\ ~lost[c] /\ lost' = [lost EXCEPT ![c] = TRUE]
          /\ Go(c, next) /\ UNCHANGED death
       \/ ~Connected(c) /\ Go(c, failed) /\ UNCHANGED <<lost, death>>
       \/ ~Connected(c) /\ lost[c] /\ death' = "signal"
          /\ UNCHANGED <<lost, handler>>
    /\ TaskUnchanged
    /\ UNCHANGED <<table, sock, file, running, finished>>

SendHeader(c) == At(c, "answering") /\ Send(c, "opening", "closing")
SendError(c) == At(c, "refusing") /\ Send(c, "closing", "closing")
\* a failing send leaves the loop, and the ifstream is closed all the same
SendBlock(c) == At(c, "reading") /\ Send(c, "reading", "failed")
SendFailed(c) == At(c, "failed") /\ CloseFile(c, "closing")

\* closeSocket, and the end of the task
CloseSocket(c) ==
    /\ At(c, "closing")
    /\ table' = [table EXCEPT ![sock[c]] = None]
    /\ sock' = [sock EXCEPT ![c] = None]
    /\ lost' = [lost EXCEPT ![c] = FALSE]
    /\ Pool!Finish(c)
    /\ Go(c, "ended")
    /\ UNCHANGED <<main, backlog, client, death, file>>

-----------------------------------------------------------------------------
\* what clients do once the process has ended is of no interest
ClientStep(c) == Alive /\ (Connect(c) \/ Refused(c) \/ Probe(c) \/ Ask(c) \/ Leave(c))
MainStep == StartServer \/ Accept \/ AcceptFails \/ CloseAgain \/ Return
TaskStep(c) ==
    \/ Receive(c) \/ TakeSizeThrows(c) \/ TakeSize(c) \/ Digest(c) \/ SendHeader(c)
    \/ SendError(c) \/ OpenForSending(c) \/ SendBlock(c) \/ EndOfFile(c)
    \/ SendFailed(c) \/ CloseSocket(c)

\* clients have gone, and nobody is served
Over ==
    /\ \/ ~Alive
       \/ running = {} /\ \A c \in Clients : client[c] \in {"closed", "left"}
    /\ UNCHANGED vars

Next ==
    \/ MainStep
    \/ \E c \in Clients : ClientStep(c) \/ Start(c) \/ TaskStep(c)
    \/ Over

\* Every thread is scheduled, and a client that has connected goes on: its
\* sockets time out, and it closes them on every path.  Nothing makes accept fail.
Fairness ==
    /\ WF_vars(StartServer) /\ WF_vars(Accept)
    /\ WF_vars(CloseAgain) /\ WF_vars(Return)
    /\ \A c \in Clients :
          /\ WF_vars(Start(c)) /\ WF_vars(TaskStep(c))
          /\ WF_vars(Alive /\ (Probe(c) \/ Ask(c) \/ Leave(c)))

Spec == Init /\ [][Next]_vars /\ Fairness

-----------------------------------------------------------------------------
(* Properties *)

\* Types of the state of the loop, the tasks and the clients.
TypeOK ==
    /\ main \in {"starting", "accepting", "failing", "draining", "returned"}
    /\ death \in {"none", "signal", "exception"}
    /\ table \in [Fds -> Entry]
    /\ backlog \in Seq(Clients) /\ Len(backlog) <= Backlog
    /\ client \in [Clients -> {"new", "connected", "asked", "left", "closed"}]
    /\ sock \in [Clients -> Fds \cup {None}] /\ file \in [Clients -> Fds \cup {None}]
    /\ handler \in [Clients -> {"none", "receiving", "sizing", "digesting",
           "answering", "refusing", "opening", "reading", "failed",
           "closing", "ended"}]
    /\ lost \in [Clients -> BOOLEAN]
    /\ Pool!PoolTypeOK

\* The number a task was given stands for its connection until it closes it
\* itself, although numbers are reused and the listening socket's is closed
\* twice (in acceptClient and in startPeerServer): no close meant for something
\* else cuts a client off, and no answer goes to another client.
ConnectionsKept ==
    Alive => \A c \in Clients :
        sock[c] # None => table[sock[c]] = Socket(c)

\* Whatever path a task takes, also when a second close has hit its file, every
\* descriptor in use has a user: none is left over to bring nearer the moment
\* in which accept finds none.
NoDescriptorLeak ==
    Alive => \A d \in Fds :
        CASE table[d] = None -> TRUE
          [] table[d] = Listener -> main = "accepting"
          [] OTHER -> LET c == table[d].of
                      IN  d = IF table[d].kind = "socket" THEN sock[c] ELSE file[c]

\* startPeerServer returns only when it has answered or closed every connection
\* it has accepted: no task outlives the config it refers to.
ReturnsDrained ==
    main = "returned" => \A c \in Clients : sock[c] = None /\ file[c] = None

\* The pool has fewer threads than there are clients, and recv in a task has no
\* time-out: a connection is all the same accepted and closed in the end, unless
\* the server is gone; and once accept has failed the server returns, with
\* connections still in the queue and in the threads.
ServerProgresses ==
    /\ \A c \in Clients : (client[c] = "connected") ~> Ended(c)
    /\ (main = "failing") ~> (main = "returned" \/ ~Alive)
=============================================================================
