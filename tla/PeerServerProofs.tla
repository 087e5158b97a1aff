--------------------------- MODULE PeerServerProofs ---------------------------
(***************************************************************************)
(* Proofs about PeerServer, for any clients, threads, descriptors and      *)
(* length of the queue.                                                    *)
(*                                                                         *)
(* The listening socket's number is closed twice, in acceptClient and in   *)
(* startPeerServer, and between the two a task may have been given it for  *)
(* its chunk file.  What keeps the second close from connections is that   *)
(* none is accepted any more: Numbered says of that number, and of no      *)
(* other, that a file may be gone from under the task that reads it.       *)
(***************************************************************************)
EXTENDS PeerServer, WellFoundedInduction, TLAPS

\* What the numbers that tasks keep stand for.
Numbered ==
    /\ \A c \in Clients : sock[c] # None =>
          sock[c] # ServerFd /\ table[sock[c]] = Socket(c)
    /\ \A c \in Clients : file[c] # None =>
          IF file[c] = ServerFd THEN main \notin {"starting", "accepting"}
                                ELSE table[file[c]] = File(c)

\* Whatever the table has was put there for somebody who still has its number.
Owned ==
    /\ \A d \in Fds : table[d] = Listener => d = ServerFd /\ main = "accepting"
    /\ \A d \in Fds, c \in Clients :
          /\ table[d] = Socket(c) => sock[c] = d
          /\ table[d] = File(c) => file[c] = d

\* Where the loop, the pool and the tasks can be at the same time.
Phases ==
    /\ main = "starting" => table = [d \in Fds |-> None]
    /\ main = "accepting" => table[ServerFd] = Listener
    /\ main \in {"starting", "returned"} => pending = {} /\ running = {}
    /\ pending \cap running = {}
    /\ \A c \in Clients :
          /\ sock[c] # None <=> c \in pending \cup running
          /\ c \in running <=> handler[c] \notin {"none", "ended"}
          /\ file[c] # None <=> handler[c] \in {"digesting", "reading", "failed"}

ServerInv == TypeOK /\ Numbered /\ Owned /\ Phases

-----------------------------------------------------------------------------
(* The number that is given out next *)

LEMMA MinIsMember ==
    ASSUME NEW S, S \subseteq Nat, S # {} PROVE Min(S) \in S
<1>1. PICK x \in S : \A y \in S : <<y, x>> \notin OpToRel(<, Nat)
    BY WFMin, NatLessThanWellFounded
<1>2. \A y \in S : ~(y < x)
    BY <1>1, Zenon DEF OpToRel
<1>3. \A y \in S : x <= y
    BY <1>2
<1> QED
    BY <1>3 DEF Min

LEMMA NumbersAreGiven ==
    /\ ServerFd \in Fds
    /\ Free # {} => Lowest \in Fds /\ table[Lowest] = None
<1>1. ServerFd \in Fds
    BY ServerAssumption, MinIsMember DEF ServerFd
<1>2. ASSUME Free # {} PROVE Lowest \in Free
    BY <1>2, ServerAssumption, MinIsMember DEF Lowest, Free
<1> QED
    BY <1>1, <1>2 DEF Free

\* No entry of the table is taken for another.
LEMMA EntriesDiffer ==
    /\ None \in Entry /\ Listener \in Entry /\ None # Listener
    /\ \A c \in Clients :
          /\ Socket(c) \in Entry /\ File(c) \in Entry
          /\ None # Socket(c) /\ None # File(c)
          /\ Listener # Socket(c) /\ Listener # File(c)
          /\ \A e \in Clients :
                /\ Socket(c) # File(e)
                /\ Socket(c) = Socket(e) => c = e
                /\ File(c) = File(e) => c = e
BY NoneAssumption DEF Entry, Listener, Socket, File

-----------------------------------------------------------------------------
(* The invariant *)

LEMMA InvInit == Init => ServerInv
<1> SUFFICES ASSUME Init PROVE ServerInv
    OBVIOUS
<1> USE ServerAssumption, NumbersAreGiven, EntriesDiffer
    DEF Init, Pool!PoolInit
<1>1. TypeOK
    BY DEF TypeOK, Pool!PoolTypeOK, Pool!OwnerState
<1>3. Numbered /\ Owned
    BY DEF Numbered, Owned
<1>4. Phases
    BY DEF Phases
<1> QED
    BY <1>1, <1>3, <1>4 DEF ServerInv

LEMMA InvClient ==
    ASSUME ServerInv, NEW c \in Clients, ClientStep(c) PROVE ServerInv'
<1> USE DEF ServerInv, ClientUnchanged, taskVars, poolVars
<1>1. UNCHANGED <<main, death, table, sock, handler, file, lost,
                  pending, running, finished, owner>>
    BY DEF ClientStep, Connect, Refused, Probe, Ask, Leave
<1>2. (Numbered /\ Owned /\ Phases)'
    BY <1>1 DEF Numbered, Owned, Phases
<1>3. /\ backlog' \in Seq(Clients) /\ Len(backlog') <= Backlog
      /\ client' \in [Clients -> {"new", "connected", "asked", "left", "closed"}]
    <2> USE DEF TypeOK
    <2>1. CASE Connect(c)
        <3>1. /\ Append(backlog, c) \in Seq(Clients)
              /\ Len(Append(backlog, c)) = Len(backlog) + 1 /\ Len(backlog) \in Nat
            OBVIOUS
        <3> QED
            BY <2>1, <3>1, ServerAssumption DEF Connect
    <2>2. CASE Refused(c) \/ Probe(c) \/ Ask(c) \/ Leave(c)
        BY <2>2 DEF Refused, Probe, Ask, Leave
    <2> QED
        BY <2>1, <2>2 DEF ClientStep
<1>4. TypeOK'
    BY <1>1, <1>3 DEF TypeOK, Pool!PoolTypeOK
<1> QED
    BY <1>2, <1>4

LEMMA InvMain == ASSUME ServerInv, MainStep PROVE ServerInv'
<1> USE NumbersAreGiven, EntriesDiffer
    DEF ServerInv, MainUnchanged, taskVars, poolVars
<1>1. CASE StartServer
    <2>1. main = "starting" => Free # {} /\ Lowest = ServerFd
        <3> SUFFICES ASSUME main = "starting" PROVE Free = Fds
            BY ServerAssumption DEF Lowest, ServerFd
        <3> QED
            BY DEF Phases, Free
    <2> QED
        BY <1>1, <2>1 DEF StartServer, TypeOK, Pool!PoolTypeOK, Numbered, Owned, Phases
<1>2. CASE Accept
    <2> DEFINE c == Head(backlog)
    <2>1. c \in Clients /\ Tail(backlog) \in Seq(Clients) /\ Len(Tail(backlog)) <= Backlog
        <3>1. backlog \in Seq(Clients) /\ backlog # <<>> /\ Len(backlog) <= Backlog
            BY <1>2 DEF Accept, TypeOK
        <3>2. /\ Head(backlog) \in Clients /\ Tail(backlog) \in Seq(Clients)
              /\ Len(Tail(backlog)) = Len(backlog) - 1 /\ Len(backlog) \in Nat
            BY <3>1
        <3> QED
            BY <3>1, <3>2, ServerAssumption
    <2> HIDE DEF c
    <2>2. /\ sock' = [sock EXCEPT ![c] = Lowest]
          /\ table' = [table EXCEPT ![Lowest] = Socket(c)]
          /\ Lowest \in Fds /\ table[Lowest] = None
          /\ c \notin pending \cup running /\ pending' = pending \cup {c}
          /\ UNCHANGED <<main, death, client, handler, file, lost, running, finished, owner>>
          /\ main = "accepting" /\ backlog' = Tail(backlog)
        BY <1>2 DEF Accept, Pool!Submit, c
    <2>3. Lowest # ServerFd /\ sock[c] = None
        BY <2>1, <2>2 DEF Phases
    <2>4. Lowest # None
        BY <2>2, ServerAssumption
    <2>5. TypeOK'
        BY <2>1, <2>2 DEF TypeOK, Pool!PoolTypeOK
    <2>6. Numbered'
        BY <2>1, <2>2, <2>3 DEF Numbered, TypeOK
    <2>7. Owned'
        BY <2>1, <2>2, <2>3, ServerAssumption DEF Owned, TypeOK
    <2>8. Phases'
        BY <2>1, <2>2, <2>3, <2>4 DEF Phases, TypeOK
    <2> QED
        BY <2>5, <2>6, <2>7, <2>8
<1>3. CASE AcceptFails
    <2>1. <<>> \in Seq(Clients) /\ Len(<<>>) <= Backlog
        BY ServerAssumption
    <2>2. /\ table' = [table EXCEPT ![ServerFd] = None] /\ backlog' = <<>>
          /\ main = "accepting" /\ main' = "failing" /\ table[ServerFd] = Listener
          /\ UNCHANGED <<death, client, sock, handler, file, lost,
                         pending, running, finished, owner>>
        BY <1>3 DEF AcceptFails, Phases
    <2> QED
        BY <2>1, <2>2 DEF TypeOK, Pool!PoolTypeOK, Numbered, Owned, Phases
<1>4. CASE CloseAgain
    BY <1>4 DEF CloseAgain, Pool!Close, TypeOK, Pool!PoolTypeOK, Pool!OwnerState,
                Numbered, Owned, Phases
<1>5. CASE Return
    BY <1>5 DEF Return, Pool!Closed, Pool!Quiet, TypeOK, Pool!PoolTypeOK,
                Pool!OwnerState, Numbered, Owned, Phases
<1> QED
    BY <1>1, <1>2, <1>3, <1>4, <1>5 DEF MainStep

\* A file is opened at the lowest number that is free.
LEMMA InvOpen ==
    ASSUME ServerInv, NEW c \in Clients, c \in running, file[c] = None,
           NEW opened \in {"digesting", "reading"},
           NEW failed \in {"refusing", "closing"}, OpenFile(c, opened, failed)
    PROVE  ServerInv'
<1> USE NumbersAreGiven, EntriesDiffer
    DEF ServerInv, TaskUnchanged, taskVars, poolVars, Go
<1>0. UNCHANGED <<main, backlog, client, death, sock, lost, pending, running,
                  finished, owner>>
    BY DEF OpenFile
<1>1. CASE /\ Free # {}
           /\ file' = [file EXCEPT ![c] = Lowest]
           /\ table' = [table EXCEPT ![Lowest] = File(c)]
           /\ handler' = [handler EXCEPT ![c] = opened]
    <2>1. Lowest \in Fds /\ table[Lowest] = None /\ Lowest # None
        BY <1>1, ServerAssumption
    <2>2. Lowest = ServerFd => main \notin {"starting", "accepting"}
        BY <2>1 DEF Phases
    <2>3. TypeOK'
        BY <1>0, <1>1, <2>1 DEF TypeOK, Pool!PoolTypeOK
    <2>4. Numbered'
        BY <1>0, <1>1, <2>1, <2>2 DEF Numbered, TypeOK
    <2>5. Owned'
        BY <1>0, <1>1, <2>1, ServerAssumption DEF Owned, TypeOK
    <2>6. Phases'
        BY <1>0, <1>1, <2>1 DEF Phases, TypeOK
    <2> QED
        BY <2>3, <2>4, <2>5, <2>6
<1>2. CASE handler' = [handler EXCEPT ![c] = failed] /\ UNCHANGED <<file, table>>
    BY <1>0, <1>2 DEF TypeOK, Pool!PoolTypeOK, Numbered, Owned, Phases
<1> QED
    BY <1>1, <1>2 DEF OpenFile

\* A file is closed by its number, which may stand for another task's file by
\* then, but for no connection.
LEMMA InvClose ==
    ASSUME ServerInv, NEW c \in Clients, c \in running, file[c] # None,
           NEW next \in {"answering", "refusing", "closing"}, CloseFile(c, next)
    PROVE  ServerInv'
<1> USE NumbersAreGiven, EntriesDiffer
    DEF ServerInv, TaskUnchanged, taskVars, poolVars, Go
<1>0. /\ UNCHANGED <<main, backlog, client, death, sock, lost, pending, running,
                     finished, owner>>
      /\ table' = [table EXCEPT ![file[c]] = None]
      /\ file' = [file EXCEPT ![c] = None]
      /\ handler' = [handler EXCEPT ![c] = next]
      /\ file[c] \in Fds
    BY DEF CloseFile, TypeOK
<1>1. file[c] = ServerFd => main \notin {"starting", "accepting"}
    BY DEF Numbered
<1>2. TypeOK'
    BY <1>0 DEF TypeOK, Pool!PoolTypeOK
<1>3. Numbered'
    BY <1>0 DEF Numbered, Owned, TypeOK
<1>4. Owned'
    <2>1. \A d \in Fds : IF d = file[c] THEN table'[d] = None ELSE table'[d] = table[d]
        BY <1>0 DEF TypeOK
    <2>2. \A e \in Clients : e # c => file'[e] = file[e]
        BY <1>0 DEF TypeOK
    <2> QED
        BY <1>0, <2>1, <2>2 DEF Owned
<1>5. Phases'
    BY <1>0, <1>1 DEF Phases, TypeOK
<1> QED
    BY <1>2, <1>3, <1>4, <1>5

LEMMA InvTask ==
    ASSUME ServerInv, NEW c \in Clients, Start(c) \/ TaskStep(c) PROVE ServerInv'
<1> USE DEF ServerInv, MainUnchanged, TaskUnchanged, taskVars, poolVars, At, Go
<1>1. CASE Start(c)
    <2>1. /\ pending' = pending \ {c} /\ running' = running \cup {c} /\ c \in pending
          /\ handler' = [handler EXCEPT ![c] = "receiving"]
          /\ UNCHANGED <<main, death, table, backlog, client, sock, file, lost,
                         finished, owner>>
        BY <1>1 DEF Start, Pool!Start
    <2>2. TypeOK'
        BY <2>1 DEF TypeOK, Pool!PoolTypeOK
    <2>3. (Numbered /\ Owned)'
        BY <2>1 DEF Numbered, Owned
    <2>4. Phases'
        BY <2>1 DEF Phases, TypeOK
    <2> QED
        BY <2>2, <2>3, <2>4
<1>2. CASE Receive(c)
    BY <1>2 DEF Receive, TypeOK, Pool!PoolTypeOK, Numbered, Owned, Phases
<1>3. CASE TakeSizeThrows(c)
    BY <1>3 DEF TakeSizeThrows, TypeOK, Pool!PoolTypeOK, Numbered, Owned, Phases
<1>4. CASE TakeSize(c) \/ OpenForSending(c)
    BY <1>4, InvOpen DEF TakeSize, OpenForSending, Phases
<1>5. CASE Digest(c) \/ EndOfFile(c) \/ SendFailed(c)
    BY <1>5, InvClose DEF Digest, EndOfFile, SendFailed, Phases
<1>6. CASE SendHeader(c) \/ SendError(c) \/ SendBlock(c)
    <2>1. /\ UNCHANGED <<main, backlog, client, table, sock, file, pending, running,
                         finished, owner>>
          /\ c \in running
          /\ \/ handler' = handler
             \/ /\ handler[c] \in {"answering", "refusing"}
                /\ handler' = [handler EXCEPT ![c] = "opening"]
                   \/ handler' = [handler EXCEPT ![c] = "closing"]
             \/ /\ handler[c] = "reading"
                /\ handler' = [handler EXCEPT ![c] = "reading"]
                   \/ handler' = [handler EXCEPT ![c] = "failed"]
          /\ death' \in {death, "signal"}
          /\ lost' = lost \/ lost' = [lost EXCEPT ![c] = TRUE]
        BY <1>6 DEF SendHeader, SendError, SendBlock, Send
    <2>2. TypeOK'
        BY <2>1 DEF TypeOK, Pool!PoolTypeOK
    <2>3. (Numbered /\ Owned)'
        BY <2>1 DEF Numbered, Owned
    <2>4. Phases'
        BY <2>1 DEF Phases, TypeOK
    <2> QED
        BY <2>2, <2>3, <2>4
<1>7. CASE CloseSocket(c)
    <2> USE NumbersAreGiven, EntriesDiffer
    <2>1. /\ table' = [table EXCEPT ![sock[c]] = None]
          /\ sock' = [sock EXCEPT ![c] = None]
          /\ lost' = [lost EXCEPT ![c] = FALSE]
          /\ handler' = [handler EXCEPT ![c] = "ended"]
          /\ running' = running \ {c} /\ finished' = finished \cup {c}
          /\ UNCHANGED <<main, backlog, client, death, file, pending, owner>>
          /\ handler[c] = "closing" /\ c \in running
        BY <1>7 DEF CloseSocket, Pool!Finish
    <2>2. sock[c] \in Fds /\ sock[c] # ServerFd /\ table[sock[c]] = Socket(c)
        BY <2>1 DEF Phases, Numbered, TypeOK
    <2>3. TypeOK'
        BY <2>1, <2>2 DEF TypeOK, Pool!PoolTypeOK
    <2>4. Numbered'
        BY <2>1, <2>2 DEF Numbered, Owned, TypeOK
    <2>5. Owned'
        BY <2>1, <2>2 DEF Owned, TypeOK
    <2>6. Phases'
        BY <2>1, <2>2 DEF Phases, TypeOK
    <2> QED
        BY <2>3, <2>4, <2>5, <2>6
<1> QED
    BY <1>1, <1>2, <1>3, <1>4, <1>5, <1>6, <1>7 DEF TaskStep

LEMMA InvNext == ServerInv /\ [Next]_vars => ServerInv'
<1> SUFFICES ASSUME ServerInv, [Next]_vars PROVE ServerInv'
    OBVIOUS
<1>1. CASE UNCHANGED vars
    BY <1>1 DEF vars, taskVars, poolVars, ServerInv, TypeOK, Pool!PoolTypeOK,
                Numbered, Owned, Phases
<1> QED
    BY <1>1, InvClient, InvMain, InvTask DEF Next, Over

-----------------------------------------------------------------------------
(* What follows *)

LEMMA InvAlways == Spec => []ServerInv
BY InvInit, InvNext, PTL DEF Spec

\* Loop, descriptors, connections and tasks have their types.
THEOREM TypeCorrect == Spec => []TypeOK
BY InvAlways, PTL DEF ServerInv

\* The number a task was given for its connection stands for it until the task
\* itself closes it, although numbers are given out again and the listening
\* socket's is closed twice.
THEOREM NoConnectionIsCutOff == Spec => []ConnectionsKept
<1>1. ServerInv => ConnectionsKept
    BY DEF ServerInv, Numbered, ConnectionsKept
<1> QED
    BY <1>1, InvAlways, PTL

\* Every descriptor in use has a user who will close it, also after the second
\* close of the listening socket has hit a task's file.
THEOREM NoDescriptorIsLeftOver == Spec => []NoDescriptorLeak
<1>1. ServerInv => NoDescriptorLeak
    <2> SUFFICES ASSUME ServerInv, NEW d \in Fds, table[d] # None,
                        table[d] # Listener, NEW e, e = table[d].of
                 PROVE  d = IF table[d].kind = "socket" THEN sock[e] ELSE file[e]
        BY EntriesDiffer DEF NoDescriptorLeak, ServerInv, Owned
    <2>1. PICK c \in Clients : table[d] = Socket(c) \/ table[d] = File(c)
        BY DEF ServerInv, TypeOK, Entry
    <2>2. /\ Socket(c).kind = "socket" /\ Socket(c).of = c
          /\ File(c).kind = "file" /\ File(c).of = c
        BY DEF Socket, File
    <2> QED
        BY <2>1, <2>2 DEF ServerInv, Owned
<1> QED
    BY <1>1, InvAlways, PTL

\* When startPeerServer has returned, every connection it has accepted is closed
\* and so is every file its tasks have opened.
THEOREM NothingOutlivesTheServer == Spec => []ReturnsDrained
<1>1. ServerInv => ReturnsDrained
    BY DEF ServerInv, Phases, ReturnsDrained
<1> QED
    BY <1>1, InvAlways, PTL

-----------------------------------------------------------------------------
(* The pool *)

Submitted == pending \cup running \cup finished

\* The pool is open as long as something may be given to it, and what waits for
\* accept waits once and has not been given to it.
PoolOpen ==
    /\ main \in {"starting", "accepting", "failing"} => owner = "idle"
    /\ main = "draining" => owner = "closing"
    /\ \A c \in Clients : client[c] = "new" => c \notin Submitted
    /\ \A i \in 1..Len(backlog) :
          /\ client[backlog[i]] # "new" /\ backlog[i] \notin Submitted
          /\ \A j \in 1..Len(backlog) : backlog[i] = backlog[j] => i = j

LEMMA PoolOpenClient ==
    ASSUME ServerInv, PoolOpen, NEW c \in Clients, ClientStep(c) PROVE PoolOpen'
<1> USE DEF ServerInv, TypeOK, ClientUnchanged, taskVars, poolVars
<1>1. UNCHANGED <<main, pending, running, finished, owner, Submitted>>
    BY DEF ClientStep, Connect, Refused, Probe, Ask, Leave, Submitted
<1>2. \A d \in Clients : client'[d] = "new" => client[d] = "new"
    BY DEF ClientStep, Connect, Refused, Probe, Ask, Leave
<1>3. CASE Connect(c)
    <2> DEFINE n == Len(backlog)
    <2>1. /\ n \in Nat /\ Len(backlog') = n + 1 /\ backlog'[n + 1] = c
          /\ \A i \in 1..n : backlog'[i] = backlog[i] /\ backlog[i] \in Clients
        BY <1>3 DEF Connect
    <2>2. client[c] = "new" /\ client'[c] # "new" /\ c \notin Submitted
        BY <1>3 DEF Connect, PoolOpen
    <2>3. \A i \in 1..n : backlog[i] # c
        BY <2>2 DEF PoolOpen
    <2> HIDE DEF n
    <2>4. ASSUME NEW i \in 1..(n + 1)
          PROVE  /\ client'[backlog'[i]] # "new" /\ backlog'[i] \notin Submitted
                 /\ \A j \in 1..(n + 1) : backlog'[i] = backlog'[j] => i = j
        <3>1. \A k \in 1..(n + 1) : k \in 1..n \/ k = n + 1
            BY <2>1
        <3>2. \A k \in 1..n : client[backlog[k]] # "new" /\ backlog[k] \notin Submitted
            BY DEF PoolOpen, n
        <3>3. \A k, j \in 1..n : backlog[k] = backlog[j] => k = j
            BY DEF PoolOpen, n
        <3>4. client'[backlog'[i]] # "new" /\ backlog'[i] \notin Submitted
            BY <1>2, <2>1, <2>2, <3>1, <3>2
        <3>5. \A j \in 1..(n + 1) : backlog'[i] = backlog'[j] => i = j
            BY <2>1, <2>3, <3>1, <3>3
        <3> QED
            BY <3>4, <3>5
    <2> QED
        BY <1>1, <1>2, <2>1, <2>4 DEF PoolOpen
<1>4. CASE Refused(c) \/ Probe(c) \/ Ask(c) \/ Leave(c)
    <2>1. backlog' = backlog /\ \A i \in 1..Len(backlog) : backlog[i] \in Clients
        BY <1>4 DEF Refused, Probe, Ask, Leave
    <2> QED
        BY <1>1, <1>2, <2>1 DEF PoolOpen
<1> QED
    BY <1>3, <1>4 DEF ClientStep

LEMMA PoolOpenMain ==
    ASSUME ServerInv, PoolOpen, MainStep PROVE PoolOpen'
<1> USE DEF ServerInv, TypeOK, MainUnchanged, taskVars, poolVars
<1>1. CASE StartServer
    BY <1>1 DEF StartServer, PoolOpen, Submitted
<1>2. CASE Accept
    <2> DEFINE n == Len(backlog)
    <2>1. /\ n \in Nat \ {0} /\ Len(backlog') = n - 1 /\ Head(backlog) = backlog[1]
          /\ \A i \in 1..(n - 1) : backlog'[i] = backlog[i + 1]
        BY <1>2 DEF Accept
    <2>2. /\ Submitted' = Submitted \cup {backlog[1]}
          /\ UNCHANGED <<main, client, owner>>
        BY <1>2, <2>1 DEF Accept, Pool!Submit, Submitted
    <2>3. backlog[1] \in Clients /\ client[backlog[1]] # "new"
        BY <2>1 DEF PoolOpen
    <2>4. \A i \in 1..(n - 1) :
              /\ i \in 1..n /\ i + 1 \in 1..n /\ i + 1 # 1 /\ 1 \in 1..n
        BY <2>1
    <2>5. \A i \in 1..(n - 1) :
              /\ client[backlog[i + 1]] # "new" /\ backlog[i + 1] \notin Submitted
              /\ backlog[i + 1] # backlog[1]
        BY <2>4 DEF PoolOpen
    <2>6. ASSUME NEW i \in 1..(n - 1), NEW j \in 1..(n - 1),
                 backlog[i + 1] = backlog[j + 1]
          PROVE  i = j
        <3>1. i + 1 = j + 1
            BY <2>4, <2>6 DEF PoolOpen
        <3> QED
            BY <3>1
    <2>7. \A c \in Clients : client'[c] = "new" => c \notin Submitted'
        BY <2>2, <2>3 DEF PoolOpen
    <2>8. \A i \in 1..Len(backlog') :
              client'[backlog'[i]] # "new" /\ backlog'[i] \notin Submitted'
        BY <2>1, <2>2, <2>5
    <2>9. \A i, j \in 1..Len(backlog') : backlog'[i] = backlog'[j] => i = j
        BY <2>1, <2>6
    <2> QED
        BY <2>2, <2>7, <2>8, <2>9 DEF PoolOpen
<1>3. CASE AcceptFails
    BY <1>3 DEF AcceptFails, PoolOpen, Submitted
<1>4. CASE CloseAgain
    BY <1>4 DEF CloseAgain, Pool!Close, PoolOpen, Submitted
<1>5. CASE Return
    BY <1>5 DEF Return, Pool!Closed, PoolOpen, Submitted
<1> QED
    BY <1>1, <1>2, <1>3, <1>4, <1>5 DEF MainStep

\* What a task does to the pool is to start and to finish.
LEMMA TaskOfPool ==
    ASSUME ServerInv, NEW c \in Clients, Start(c) \/ TaskStep(c)
    PROVE  /\ UNCHANGED <<main, client, backlog, owner, Submitted>>
           /\ Pool!Start(c) \/ Pool!Finish(c) \/ UNCHANGED poolVars
<1>1. CASE Start(c) \/ CloseSocket(c)
    BY <1>1 DEF Start, MainUnchanged, CloseSocket, Pool!Start, Pool!Finish, Submitted
<1>2. CASE ~(Start(c) \/ CloseSocket(c))
    BY <1>2 DEF TaskStep, Receive, TakeSizeThrows, TakeSize, Digest, SendHeader,
       SendError, OpenForSending, SendBlock, EndOfFile, SendFailed, OpenFile,
       CloseFile, Send, TaskUnchanged, poolVars, Submitted
<1> QED
    BY <1>1, <1>2

LEMMA PoolOpenAlways == Spec => []PoolOpen
<1>1. Init => PoolOpen
    BY DEF Init, Pool!PoolInit, PoolOpen, Submitted
<1>2. ServerInv /\ PoolOpen /\ [Next]_vars => PoolOpen'
    <2> SUFFICES ASSUME ServerInv, PoolOpen, [Next]_vars PROVE PoolOpen'
        OBVIOUS
    <2>1. ASSUME NEW c \in Clients, Start(c) \/ TaskStep(c) PROVE PoolOpen'
        BY <2>1, TaskOfPool DEF PoolOpen
    <2>2. CASE UNCHANGED vars
        BY <2>2 DEF vars, poolVars, PoolOpen, Submitted
    <2> QED
        BY <2>1, <2>2, PoolOpenClient, PoolOpenMain DEF Next, Over
<1> QED
    BY <1>1, <1>2, InvAlways, PTL DEF Spec

\* The server does with its pool what TaskPool allows, so what holds of the pool
\* holds here.
THEOREM UsesPool == Spec => Pool!PoolSpec
<1>1. Init => Pool!PoolInit
    BY DEF Init
<1>2. ServerInv /\ [Next]_vars => [Pool!PoolNext]_(Pool!poolVars)
    <2> SUFFICES ASSUME ServerInv, [Next]_vars
                 PROVE  Pool!PoolNext \/ UNCHANGED <<pending, running, finished, owner>>
        BY DEF Pool!poolVars
    <2>1. CASE Accept
        <3>1. Head(backlog) \in Clients
            BY <2>1 DEF Accept, ServerInv, TypeOK
        <3> QED
            BY <2>1, <3>1 DEF Accept, Pool!PoolNext
    <2>2. CASE MainStep /\ ~Accept
        BY <2>2 DEF MainStep, StartServer, AcceptFails, CloseAgain, Return, Pool!PoolNext,
           poolVars
    <2>3. ASSUME NEW c \in Clients, Start(c) \/ TaskStep(c)
          PROVE  Pool!PoolNext \/ UNCHANGED <<pending, running, finished, owner>>
        BY <2>3, TaskOfPool DEF Pool!PoolNext, poolVars
    <2>4. ASSUME NEW c \in Clients, ClientStep(c)
          PROVE  UNCHANGED <<pending, running, finished, owner>>
        BY <2>4 DEF ClientStep, Connect, Refused, Probe, Ask, Leave, ClientUnchanged,
           poolVars
    <2>5. CASE UNCHANGED vars
        BY <2>5 DEF vars, poolVars
    <2> QED
        BY <2>1, <2>2, <2>3, <2>4, <2>5 DEF Next, Over
<1> QED
    BY <1>1, <1>2, InvAlways, PTL DEF Spec, Pool!PoolSpec

\* What the pool asks of its owner never holds the server up: whenever there is a
\* connection to accept, the pool takes its task, and when accept has failed the
\* pool is there to be closed, and is being closed while the server waits for it.
PoolTakesAll ==
    /\ main = "accepting" /\ backlog # <<>> =>
          owner = "idle" /\ Head(backlog) \notin pending \cup running \cup finished
    /\ main = "failing" => owner = "idle"
    /\ main = "draining" => owner = "closing"

\* The pool's preconditions, which addTask and the destructor do not check, are met.
THEOREM PoolNeverRefuses == Spec => []PoolTakesAll
<1>1. ServerInv /\ PoolOpen => PoolTakesAll
    <2> SUFFICES ASSUME ServerInv, PoolOpen, backlog # <<>>
                 PROVE  Head(backlog) \notin Submitted
        BY DEF PoolOpen, PoolTakesAll, Submitted
    <2>1. Head(backlog) = backlog[1] /\ 1 \in 1..Len(backlog)
        BY DEF ServerInv, TypeOK
    <2> QED
        BY <2>1 DEF PoolOpen
<1> QED
    BY <1>1, InvAlways, PoolOpenAlways, PTL
=============================================================================
