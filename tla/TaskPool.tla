------------------------------ MODULE TaskPool ------------------------------
(***************************************************************************)
(* What a ThreadPool promises to the one thread that owns it, without its  *)
(* mutex, condition variables and queue: every submitted task is started   *)
(* once and finished once, wait() returns only when nothing is pending or  *)
(* running, and the destructor returns only in that state too.             *)
(*                                                                         *)
(* ThreadPool.tla is shown to implement this module; ParallelDownload.tla  *)
(* is built on top of it.                                                  *)
(***************************************************************************)
CONSTANT Tasks          \* the closures handed to addTask

VARIABLES
    pending,            \* submitted and not yet taken by a thread
    running,            \* taken by a thread, task() has not returned
    finished,           \* task() has returned
    owner               \* which call of the pool the owning thread is in

poolVars == <<pending, running, finished, owner>>

OwnerState == {"idle", "waiting", "closing", "closed"}

PoolTypeOK ==
    /\ pending \subseteq Tasks
    /\ running \subseteq Tasks
    /\ finished \subseteq Tasks
    /\ owner \in OwnerState

Quiet == pending = {} /\ running = {}

PoolInit ==
    /\ pending = {}
    /\ running = {}
    /\ finished = {}
    /\ owner = "idle"

\* addTask
Submit(t) ==
    /\ owner = "idle"
    /\ t \notin pending \cup running \cup finished
    /\ pending' = pending \cup {t}
    /\ UNCHANGED <<running, finished, owner>>

\* some thread takes the task
Start(t) ==
    /\ t \in pending
    /\ pending' = pending \ {t}
    /\ running' = running \cup {t}
    /\ UNCHANGED <<finished, owner>>

\* the task's closure returns
Finish(t) ==
    /\ t \in running
    /\ running' = running \ {t}
    /\ finished' = finished \cup {t}
    /\ UNCHANGED <<pending, owner>>

\* the owner calls wait() ...
Wait ==
    /\ owner = "idle"
    /\ owner' = "waiting"
    /\ UNCHANGED <<pending, running, finished>>

\* ... and gets out of it
WaitReturn ==
    /\ owner = "waiting"
    /\ Quiet
    /\ owner' = "idle"
    /\ UNCHANGED <<pending, running, finished>>

\* the destructor is entered ...
Close ==
    /\ owner = "idle"
    /\ owner' = "closing"
    /\ UNCHANGED <<pending, running, finished>>

\* ... and has joined every thread
Closed ==
    /\ owner = "closing"
    /\ Quiet
    /\ owner' = "closed"
    /\ UNCHANGED <<pending, running, finished>>

PoolNext ==
    \/ \E t \in Tasks : Submit(t) \/ Start(t) \/ Finish(t)
    \/ Wait \/ WaitReturn
    \/ Close \/ Closed

PoolSpec == PoolInit /\ [][PoolNext]_poolVars
=============================================================================
