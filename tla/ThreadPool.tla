----------------------------- MODULE ThreadPool -----------------------------
(***************************************************************************)
(* src/peer/threadPool.cpp: a fixed set of threads, one mutex, a FIFO of   *)
(* tasks, and two condition variables: cv for the threads and doneCv for   *)
(* the thread that owns the pool.                                          *)
(*                                                                         *)
(* Every block the code runs with mtx held is one step, since nothing in   *)
(* such a block waits or takes another lock.  What is left interleaved is  *)
(* what the mutex does not cover: the notification after addTask's block,  *)
(* the task itself, the notification and the joins of the destructor.  A   *)
(* thread inside cv.wait is "asleep": its test of the predicate and its    *)
(* falling asleep are one step because wait() releases mtx atomically.     *)
(***************************************************************************)
EXTENDS Integers, Sequences, FiniteSets

CONSTANTS
    Threads,            \* the pool's threads, as many as threadCount
    Tasks,              \* the closures the owner may submit, each once
    NoTask              \* a thread's local `task` while it holds none

ASSUME ThreadsAssumption ==
    /\ IsFiniteSet(Threads)
    /\ Threads # {}
ASSUME NoTaskAssumption == NoTask \notin Tasks

VARIABLES
    tasks,              \* the queue<function<void()>>
    activeTasks,        \* counter of tasks taken and not yet retired
    stop,               \* set by the destructor
    pc,                 \* where each thread is in worker()
    task,               \* the local variable `task` of each thread
    owner,              \* where the owning thread is in addTask/wait/destructor
    finished            \* history: tasks whose closure has returned

vars == <<tasks, activeTasks, stop, pc, task, owner, finished>>

WorkerState == {"ready", "asleep", "running", "ran", "exited"}
OwnerState == {"idle", "notifying", "testing", "asleep", "waking", "joining",
               "joined"}

Queued == {tasks[i] : i \in 1..Len(tasks)}
Busy == {w \in Threads : pc[w] \in {"running", "ran"}}
Executing == {w \in Threads : pc[w] = "running"}
Held == {task[w] : w \in Busy}
Submitted == Queued \cup Held \cup finished

Init ==
    /\ tasks = <<>>
    /\ activeTasks = 0
    /\ stop = FALSE
    /\ pc = [w \in Threads |-> "ready"]
    /\ task = [w \in Threads |-> NoTask]
    /\ owner = "idle"
    /\ finished = {}

-----------------------------------------------------------------------------
(* The owning thread *)

\* addTask, the locked block
AddTask(t) ==
    /\ owner = "idle"
    /\ t \notin Submitted
    /\ tasks' = Append(tasks, t)
    /\ owner' = "notifying"
    /\ UNCHANGED <<activeTasks, stop, pc, task, finished>>

\* Definitions whose name starts with Bad are not the code: each is a plausible
\* slip in the definition that follows it, which some property has to notice.

\* nobody is notified
BadNotifyOne ==
    /\ owner = "notifying"
    /\ owner' = "idle"
    /\ UNCHANGED <<tasks, activeTasks, stop, pc, task, finished>>

\* cv.notify_one after the lock is released: one sleeper, if there is any
NotifyOne ==
    /\ owner = "notifying"
    /\ owner' = "idle"
    /\ \/ \E w \in Threads :
            /\ pc[w] = "asleep"
            /\ pc' = [pc EXCEPT ![w] = "ready"]
       \/ /\ \A w \in Threads : pc[w] # "asleep"
          /\ UNCHANGED pc
    /\ UNCHANGED <<tasks, activeTasks, stop, task, finished>>

CallWait ==
    /\ owner = "idle"
    /\ owner' = "testing"
    /\ UNCHANGED <<tasks, activeTasks, stop, pc, task, finished>>

\* an empty queue is taken for the end of all tasks
BadAllRetired == tasks = <<>>

AllRetired == tasks = <<>> /\ activeTasks = 0

\* doneCv.wait tests its predicate with mtx held
TestDone ==
    /\ owner = "testing"
    /\ owner' = IF AllRetired THEN "idle" ELSE "asleep"
    /\ UNCHANGED <<tasks, activeTasks, stop, pc, task, finished>>

\* the destructor, the locked block
SetStop ==
    /\ owner = "idle"
    /\ stop' = TRUE
    /\ owner' = "waking"
    /\ UNCHANGED <<tasks, activeTasks, pc, task, finished>>

\* notify_one instead of notify_all
BadNotifyAll ==
    /\ owner = "waking"
    /\ \/ \E w \in Threads :
            /\ pc[w] = "asleep"
            /\ pc' = [pc EXCEPT ![w] = "ready"]
       \/ /\ \A w \in Threads : pc[w] # "asleep"
          /\ UNCHANGED pc
    /\ owner' = "joining"
    /\ UNCHANGED <<tasks, activeTasks, stop, task, finished>>

\* the destructor's cv.notify_all
NotifyAll ==
    /\ owner = "waking"
    /\ pc' = [w \in Threads |-> IF pc[w] = "asleep" THEN "ready" ELSE pc[w]]
    /\ owner' = "joining"
    /\ UNCHANGED <<tasks, activeTasks, stop, task, finished>>

\* the destructor's joins
Join ==
    /\ owner = "joining"
    /\ \A w \in Threads : pc[w] = "exited"
    /\ owner' = "joined"
    /\ UNCHANGED <<tasks, activeTasks, stop, pc, task, finished>>

-----------------------------------------------------------------------------
(* A pool thread: worker() *)

\* cv.wait finds its predicate false and goes to sleep
Sleep(w) ==
    /\ pc[w] = "ready"
    /\ ~stop /\ tasks = <<>>
    /\ pc' = [pc EXCEPT ![w] = "asleep"]
    /\ UNCHANGED <<tasks, activeTasks, stop, task, owner, finished>>

\* stopped, with tasks still in the queue
BadExit(w) ==
    /\ pc[w] = "ready"
    /\ stop
    /\ pc' = [pc EXCEPT ![w] = "exited"]
    /\ UNCHANGED <<tasks, activeTasks, stop, task, owner, finished>>

\* stopped, and the queue has been drained
Exit(w) ==
    /\ pc[w] = "ready"
    /\ stop /\ tasks = <<>>
    /\ pc' = [pc EXCEPT ![w] = "exited"]
    /\ UNCHANGED <<tasks, activeTasks, stop, task, owner, finished>>

\* the task is not counted as active
BadTake(w) ==
    /\ pc[w] = "ready"
    /\ tasks # <<>>
    /\ task' = [task EXCEPT ![w] = Head(tasks)]
    /\ tasks' = Tail(tasks)
    /\ pc' = [pc EXCEPT ![w] = "running"]
    /\ UNCHANGED <<activeTasks, stop, owner, finished>>

\* take the front of the queue
Take(w) ==
    /\ pc[w] = "ready"
    /\ tasks # <<>>
    /\ task' = [task EXCEPT ![w] = Head(tasks)]
    /\ tasks' = Tail(tasks)
    /\ activeTasks' = activeTasks + 1
    /\ pc' = [pc EXCEPT ![w] = "running"]
    /\ UNCHANGED <<stop, owner, finished>>

\* task() returns; the lock is not held here
Run(w) ==
    /\ pc[w] = "running"
    /\ finished' = finished \cup {task[w]}
    /\ pc' = [pc EXCEPT ![w] = "ran"]
    /\ UNCHANGED <<tasks, activeTasks, stop, task, owner>>

\* doneCv is not notified
BadRetire(w) ==
    /\ pc[w] = "ran"
    /\ activeTasks' = activeTasks - 1
    /\ task' = [task EXCEPT ![w] = NoTask]
    /\ pc' = [pc EXCEPT ![w] = "ready"]
    /\ UNCHANGED <<tasks, stop, owner, finished>>

\* the second locked block: count down and wake the owner when all is done
Retire(w) ==
    /\ pc[w] = "ran"
    /\ activeTasks' = activeTasks - 1
    /\ owner' = IF tasks = <<>> /\ activeTasks' = 0 /\ owner = "asleep"
                THEN "testing" ELSE owner
    /\ task' = [task EXCEPT ![w] = NoTask]
    /\ pc' = [pc EXCEPT ![w] = "ready"]
    /\ UNCHANGED <<tasks, stop, finished>>

-----------------------------------------------------------------------------
\* condition variables may wake a waiter that nobody notified
SpuriousWakeup ==
    \/ \E w \in Threads :
          /\ pc[w] = "asleep"
          /\ pc' = [pc EXCEPT ![w] = "ready"]
          /\ UNCHANGED <<tasks, activeTasks, stop, task, owner, finished>>
    \/ /\ owner = "asleep"
       /\ owner' = "testing"
       /\ UNCHANGED <<tasks, activeTasks, stop, pc, task, finished>>

\* the pool is gone
Destroyed == owner = "joined" /\ UNCHANGED vars

ThreadStep(w) == Sleep(w) \/ Exit(w) \/ Take(w) \/ Run(w) \/ Retire(w)

OwnerStep == NotifyOne \/ TestDone \/ NotifyAll \/ Join

Next ==
    \/ \E t \in Tasks : AddTask(t)
    \/ CallWait \/ SetStop
    \/ OwnerStep
    \/ \E w \in Threads : ThreadStep(w)
    \/ SpuriousWakeup
    \/ Destroyed

\* Every runnable thread is scheduled and every task returns.  Nobody has to
\* call addTask, wait or the destructor, and spurious wake-ups need not come.
Fairness ==
    /\ WF_vars(OwnerStep)
    /\ \A w \in Threads : WF_vars(ThreadStep(w))

SafeSpec == Init /\ [][Next]_vars
Spec == SafeSpec /\ Fairness

-----------------------------------------------------------------------------
(* Properties *)

\* Types of the pool's members, of the threads' locals and of the owner's
\* position (include/peer/threadPool.h).
TypeOK ==
    /\ tasks \in Seq(Tasks)
    /\ activeTasks \in Nat
    /\ stop \in BOOLEAN
    /\ pc \in [Threads -> WorkerState]
    /\ task \in [Threads -> Tasks \cup {NoTask}]
    /\ owner \in OwnerState
    /\ finished \subseteq Tasks

\* activeTasks is exactly the number of threads between taking a task and
\* retiring it; wait() relies on it to know that nothing is in flight.
ActiveTasksCounted == activeTasks = Cardinality(Busy)

\* No lost wake-up: while a task is queued, either the notification for it is
\* still to come or some thread is awake and will look at the queue again.
NoStrandedTask ==
    tasks # <<>> =>
        \/ owner = "notifying"
        \/ \E w \in Threads : pc[w] \in {"ready", "running", "ran"}

\* The owner never sleeps in wait() once the last task has been retired: the
\* notification of doneCv cannot fall between its test and its sleep.
NoMissedCompletion == owner = "asleep" => ~AllRetired

\* While the destructor joins, no thread is asleep on cv: stop and notify_all
\* reach all of them.
NoSleeperAtJoin == owner \in {"joining", "joined"} => \A w \in Threads : pc[w] # "asleep"

\* The destructor drains the queue: once it has returned, every task that was
\* ever submitted has been executed.
DestroyedAfterDrain == owner = "joined" => Queued = {} /\ Held = {}

\* No wake-up that the pool relies on is lost for good: a submitted task is
\* executed, wait() returns and the destructor returns.
PoolProgresses ==
    /\ \A t \in Tasks : (t \in Submitted) ~> (t \in finished)
    /\ (owner \in {"testing", "asleep"}) ~> (owner = "idle")
    /\ (owner = "waking") ~> (owner = "joined")

\* The pool implements TaskPool: the mutex, the queue, the counter and the
\* condition variables never let wait() or the destructor return early, run a
\* task twice or forget one.
AbstractOwner ==
    CASE owner \in {"idle", "notifying"} -> "idle"
      [] owner \in {"testing", "asleep"} -> "waiting"
      [] owner \in {"waking", "joining"} -> "closing"
      [] owner = "joined" -> "closed"

Abstract == INSTANCE TaskPool WITH
    pending <- Queued,
    running <- {task[w] : w \in Executing},
    finished <- finished,
    owner <- AbstractOwner

ImplementsTaskPool == Abstract!PoolSpec
=============================================================================
