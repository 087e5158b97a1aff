-------------------------- MODULE ThreadPoolProofs --------------------------
(***************************************************************************)
(* Proofs about ThreadPool, for every finite set of threads and every set  *)
(* of tasks.                                                               *)
(*                                                                         *)
(* The inductive invariant PoolInv ties the owner's position to stop, the  *)
(* counter to the threads that hold a task, and says that no thread has    *)
(* left before stop was set and the queue was empty.  The wake-up          *)
(* properties NoStrandedTask and NoMissedCompletion are inductive only     *)
(* relative to it.                                                         *)
(***************************************************************************)
EXTENDS ThreadPool, FiniteSetTheorems, TLAPS

StopFollowsOwner == stop <=> owner \in {"waking", "joining", "joined"}

ExitedAfterDrain ==
    \A w \in Threads : pc[w] = "exited" => stop /\ tasks = <<>>

JoinedAfterExit == owner = "joined" => \A w \in Threads : pc[w] = "exited"

HoldsTask == \A w \in Threads : pc[w] \in {"running", "ran"} => task[w] \in Tasks

PoolInv ==
    /\ TypeOK
    /\ ActiveTasksCounted
    /\ HoldsTask
    /\ StopFollowsOwner
    /\ ExitedAfterDrain
    /\ JoinedAfterExit

\* Busy is a finite set, so counting it behaves.
LEMMA BusyFinite ==
    /\ IsFiniteSet(Busy)
    /\ Cardinality(Busy) \in Nat
    /\ Cardinality(Busy) = 0 <=> Busy = {}
<1>1. Busy \in SUBSET Threads
    BY DEF Busy
<1>2. IsFiniteSet(Busy)
    BY <1>1, FS_Subset, ThreadsAssumption
<1> QED
    BY <1>2, FS_CardinalityType, FS_EmptySet

\* A step that moves no thread into or out of {"running", "ran"} keeps Busy.
LEMMA BusyUnchanged ==
    ASSUME \A w \in Threads : pc'[w] \in {"running", "ran"} <=>
                              pc[w] \in {"running", "ran"}
    PROVE  Busy' = Busy
BY DEF Busy

-----------------------------------------------------------------------------
\* PoolInv holds initially.
LEMMA PoolInvInit == Init => PoolInv
<1> SUFFICES ASSUME Init PROVE PoolInv
    OBVIOUS
<1>1. TypeOK
    <2>1. tasks \in Seq(Tasks)
        BY DEF Init
    <2>2. pc \in [Threads -> WorkerState]
        BY DEF Init, WorkerState
    <2>3. task \in [Threads -> Tasks \cup {NoTask}]
        BY DEF Init
    <2> QED
        BY <2>1, <2>2, <2>3 DEF Init, TypeOK, OwnerState
<1>2. Busy = {}
    BY DEF Init, Busy
<1>3. ActiveTasksCounted
    BY <1>2, FS_EmptySet DEF Init, ActiveTasksCounted
<1> QED
    BY <1>1, <1>3 DEF Init, PoolInv, HoldsTask, StopFollowsOwner,
                      ExitedAfterDrain, JoinedAfterExit

\* PoolInv is kept by every step.
LEMMA PoolInvNext == PoolInv /\ [Next]_vars => PoolInv'
<1> SUFFICES ASSUME PoolInv, [Next]_vars PROVE PoolInv'
    OBVIOUS
<1> USE DEF PoolInv
<1>0. TypeOK /\ ActiveTasksCounted
    OBVIOUS
<1>1. ASSUME NEW t \in Tasks, AddTask(t) PROVE PoolInv'
    <2>1. Busy' = Busy
        BY <1>1, BusyUnchanged DEF AddTask
    <2> QED
        BY <1>1, <2>1 DEF AddTask, TypeOK, WorkerState, OwnerState,
           ActiveTasksCounted, HoldsTask, StopFollowsOwner, ExitedAfterDrain,
           JoinedAfterExit
<1>2. CASE NotifyOne
    <2>1. Busy' = Busy
        BY <1>2, BusyUnchanged DEF NotifyOne, TypeOK
    <2>2. \A w \in Threads : pc'[w] = "exited" => pc[w] = "exited"
        BY <1>2 DEF NotifyOne, TypeOK
    <2> QED
        BY <1>2, <2>1, <2>2 DEF NotifyOne, TypeOK, WorkerState, OwnerState,
           ActiveTasksCounted, HoldsTask, StopFollowsOwner, ExitedAfterDrain,
           JoinedAfterExit
<1>3. CASE CallWait \/ SetStop \/ TestDone \/ Join
    <2>1. Busy' = Busy
        BY <1>3, BusyUnchanged DEF CallWait, SetStop, TestDone, Join
    <2>2. TypeOK'
        BY <1>3 DEF CallWait, SetStop, TestDone, Join, TypeOK, OwnerState
    <2>3. ActiveTasksCounted' /\ HoldsTask' /\ ExitedAfterDrain'
        BY <1>3, <2>1 DEF CallWait, SetStop, TestDone, Join,
           ActiveTasksCounted, HoldsTask, ExitedAfterDrain
    <2>4. StopFollowsOwner' /\ JoinedAfterExit'
        <3>1. CASE CallWait \/ TestDone
            BY <3>1 DEF CallWait, TestDone, StopFollowsOwner, JoinedAfterExit
        <3>2. CASE SetStop
            BY <3>2 DEF SetStop, StopFollowsOwner, JoinedAfterExit
        <3>3. CASE Join
            BY <3>3 DEF Join, StopFollowsOwner, JoinedAfterExit
        <3> QED
            BY <1>3, <3>1, <3>2, <3>3
    <2> QED
        BY <2>2, <2>3, <2>4
<1>4. CASE NotifyAll
    <2>1. Busy' = Busy
        BY <1>4, BusyUnchanged DEF NotifyAll, TypeOK
    <2> QED
        BY <1>4, <2>1 DEF NotifyAll, TypeOK, WorkerState, OwnerState,
           ActiveTasksCounted, HoldsTask, StopFollowsOwner, ExitedAfterDrain,
           JoinedAfterExit
<1>5. ASSUME NEW w \in Threads, Sleep(w) \/ Exit(w) PROVE PoolInv'
    <2>1. Busy' = Busy
        BY <1>5, BusyUnchanged DEF Sleep, Exit, TypeOK
    <2> QED
        BY <1>5, <2>1 DEF Sleep, Exit, TypeOK, WorkerState, OwnerState,
           ActiveTasksCounted, HoldsTask, StopFollowsOwner, ExitedAfterDrain,
           JoinedAfterExit
<1>6. ASSUME NEW w \in Threads, Take(w) PROVE PoolInv'
    <2>1. Busy' = Busy \cup {w} /\ w \notin Busy
        BY <1>6 DEF Take, Busy, TypeOK
    <2>2. Cardinality(Busy') = Cardinality(Busy) + 1
        BY <2>1, BusyFinite, FS_AddElement
    <2>3. Head(tasks) \in Tasks /\ Tail(tasks) \in Seq(Tasks)
        BY <1>6 DEF Take, TypeOK
    <2>4. TypeOK'
        BY <1>6, <2>3 DEF Take, TypeOK, WorkerState, OwnerState
    <2>5. ActiveTasksCounted'
        BY <1>6, <2>2 DEF Take, ActiveTasksCounted
    <2>6. \A v \in Threads : pc'[v] = "exited" => pc[v] = "exited" /\ v # w
        BY <1>6 DEF Take, TypeOK
    <2> QED
        BY <1>6, <2>3, <2>4, <2>5, <2>6 DEF Take, TypeOK, HoldsTask,
           StopFollowsOwner, ExitedAfterDrain, JoinedAfterExit
<1>7. ASSUME NEW w \in Threads, Run(w) PROVE PoolInv'
    <2>1. Busy' = Busy
        BY <1>7, BusyUnchanged DEF Run, TypeOK
    <2> QED
        BY <1>7, <2>1 DEF Run, TypeOK, WorkerState, OwnerState,
           ActiveTasksCounted, HoldsTask, StopFollowsOwner, ExitedAfterDrain,
           JoinedAfterExit
<1>8. ASSUME NEW w \in Threads, Retire(w) PROVE PoolInv'
    <2>1. Busy' = Busy \ {w} /\ w \in Busy
        BY <1>8 DEF Retire, Busy, TypeOK
    <2>2. Cardinality(Busy') = Cardinality(Busy) - 1
        BY <2>1, BusyFinite, FS_RemoveElement
    <2>3. Cardinality(Busy) \in Nat \ {0}
        BY <2>1, BusyFinite
    <2>4. activeTasks' \in Nat /\ ActiveTasksCounted'
        BY <1>8, <2>2, <2>3 DEF Retire, ActiveTasksCounted
    <2>5. TypeOK'
        BY <1>8, <2>4 DEF Retire, TypeOK, WorkerState, OwnerState
    <2> QED
        BY <1>8, <2>4, <2>5 DEF Retire, TypeOK, HoldsTask, StopFollowsOwner,
           ExitedAfterDrain, JoinedAfterExit
<1>9. CASE SpuriousWakeup
    <2>1. Busy' = Busy
        BY <1>9, BusyUnchanged DEF SpuriousWakeup, TypeOK
    <2> QED
        BY <1>9, <2>1 DEF SpuriousWakeup, TypeOK, WorkerState, OwnerState,
           ActiveTasksCounted, HoldsTask, StopFollowsOwner, ExitedAfterDrain,
           JoinedAfterExit
<1>10. CASE Destroyed \/ UNCHANGED vars
    <2>1. Busy' = Busy
        BY <1>10 DEF Destroyed, vars, Busy
    <2> QED
        BY <1>10, <2>1 DEF Destroyed, vars, TypeOK, ActiveTasksCounted,
           HoldsTask, StopFollowsOwner, ExitedAfterDrain, JoinedAfterExit
<1> QED
    BY <1>1, <1>2, <1>3, <1>4, <1>5, <1>6, <1>7, <1>8, <1>9, <1>10
       DEF Next, OwnerStep, ThreadStep

\* PoolInv is an invariant of the pool.
THEOREM PoolInvariant == SafeSpec => []PoolInv
BY PoolInvInit, PoolInvNext, PTL DEF SafeSpec

\* The pool's members, the locals of worker() and the owner's position keep
\* their types; in particular activeTasks never goes below zero.
THEOREM PoolTypeCorrect == SafeSpec => []TypeOK
BY PoolInvariant, PTL DEF PoolInv

\* activeTasks is at all times the number of threads that have taken a task
\* and not retired it.
THEOREM CounterCorrect == SafeSpec => []ActiveTasksCounted
BY PoolInvariant, PTL DEF PoolInv

-----------------------------------------------------------------------------
(* Wake-ups *)

\* A step that adds no task and puts no thread to sleep strands nothing.
LEMMA WakeNext ==
    PoolInv /\ NoStrandedTask /\ [Next]_vars => NoStrandedTask'
<1> SUFFICES ASSUME PoolInv, NoStrandedTask, [Next]_vars
             PROVE  NoStrandedTask'
    OBVIOUS
<1> DEFINE Awake == {"ready", "running", "ran"}
<1>1. ASSUME NEW t \in Tasks, AddTask(t) PROVE NoStrandedTask'
    BY <1>1 DEF AddTask, NoStrandedTask
<1>2. CASE NotifyOne
    <2>1. PICK v \in Threads : TRUE
        BY ThreadsAssumption
    <2>2. ~stop
        BY <1>2 DEF PoolInv, StopFollowsOwner, NotifyOne
    <2>3. \A w \in Threads : pc[w] \in Awake \cup {"asleep"}
        BY <2>2 DEF PoolInv, ExitedAfterDrain, TypeOK, WorkerState
    <2>4. CASE \A w \in Threads : pc[w] # "asleep"
        BY <1>2, <2>1, <2>3, <2>4 DEF NotifyOne, NoStrandedTask
    <2>5. CASE \E w \in Threads : pc[w] = "asleep"
        <3>1. PICK w \in Threads : pc' = [pc EXCEPT ![w] = "ready"]
            BY <1>2, <2>5 DEF NotifyOne
        <3>2. pc'[w] = "ready"
            BY <3>1 DEF PoolInv, TypeOK
        <3> QED
            BY <3>2 DEF NoStrandedTask
    <2> QED
        BY <2>4, <2>5
<1>3. CASE CallWait \/ SetStop \/ TestDone \/ Join
    BY <1>3 DEF CallWait, SetStop, TestDone, Join, NoStrandedTask
<1>4. CASE NotifyAll
    <2>1. \A w \in Threads : pc[w] \in Awake => pc'[w] \in Awake
        BY <1>4 DEF NotifyAll, PoolInv, TypeOK
    <2> QED
        BY <1>4, <2>1 DEF NotifyAll, NoStrandedTask
<1>5. ASSUME NEW w \in Threads, Sleep(w) \/ Exit(w) PROVE NoStrandedTask'
    BY <1>5 DEF Sleep, Exit, NoStrandedTask
<1>6. ASSUME NEW w \in Threads, Take(w) \/ Run(w) \/ Retire(w)
      PROVE  NoStrandedTask'
    <2>1. pc'[w] \in Awake
        BY <1>6 DEF Take, Run, Retire, PoolInv, TypeOK
    <2> QED
        BY <2>1 DEF NoStrandedTask
<1>7. CASE SpuriousWakeup
    <2>1. \A w \in Threads : pc[w] \in Awake => pc'[w] \in Awake
        BY <1>7 DEF SpuriousWakeup, PoolInv, TypeOK
    <2> QED
        BY <1>7, <2>1 DEF SpuriousWakeup, NoStrandedTask
<1>8. CASE Destroyed \/ UNCHANGED vars
    BY <1>8 DEF Destroyed, vars, NoStrandedTask
<1> QED
    BY <1>1, <1>2, <1>3, <1>4, <1>5, <1>6, <1>7, <1>8
       DEF Next, OwnerStep, ThreadStep

\* No wake-up of cv is lost: a queued task always has a notification to come or
\* a thread awake that will look at the queue.
THEOREM NoTaskStranded == SafeSpec => []NoStrandedTask
<1>1. Init => NoStrandedTask
    BY DEF Init, NoStrandedTask
<1> QED
    BY <1>1, WakeNext, PoolInvariant, PTL DEF SafeSpec

\* No completion is missed: the owner does not sleep on doneCv while the queue
\* is empty and no task is active.
THEOREM NoCompletionMissed == SafeSpec => []NoMissedCompletion
<1>1. Init => NoMissedCompletion
    BY DEF Init, NoMissedCompletion
<1>2. PoolInv /\ NoMissedCompletion /\ [Next]_vars => NoMissedCompletion'
    <2> SUFFICES ASSUME PoolInv, NoMissedCompletion, [Next]_vars
                 PROVE  NoMissedCompletion'
        OBVIOUS
    <2> USE DEF NoMissedCompletion, AllRetired
    <2>1. ASSUME NEW t \in Tasks, AddTask(t) PROVE NoMissedCompletion'
        BY <2>1 DEF AddTask
    <2>2. CASE CallWait \/ SetStop \/ OwnerStep
        BY <2>2 DEF CallWait, SetStop, OwnerStep, NotifyOne, TestDone,
                    NotifyAll, Join
    <2>3. ASSUME NEW w \in Threads, Sleep(w) \/ Exit(w) \/ Run(w)
          PROVE  NoMissedCompletion'
        BY <2>3 DEF Sleep, Exit, Run
    <2>4. ASSUME NEW w \in Threads, Take(w) PROVE NoMissedCompletion'
        <3>1. activeTasks' # 0
            BY <2>4 DEF Take, PoolInv, TypeOK
        <3> QED
            BY <3>1
    <2>5. ASSUME NEW w \in Threads, Retire(w) PROVE NoMissedCompletion'
        BY <2>5 DEF Retire
    <2>6. CASE SpuriousWakeup \/ Destroyed \/ UNCHANGED vars
        BY <2>6 DEF SpuriousWakeup, Destroyed, vars
    <2> QED
        BY <2>1, <2>2, <2>3, <2>4, <2>5, <2>6 DEF Next, ThreadStep
<1> QED
    BY <1>1, <1>2, PoolInvariant, PTL DEF SafeSpec

-----------------------------------------------------------------------------
(* The destructor *)

\* While the destructor joins, every thread has been woken for good.
THEOREM AllAwakeAtJoin == SafeSpec => []NoSleeperAtJoin
<1>1. Init => NoSleeperAtJoin
    BY DEF Init, NoSleeperAtJoin
<1>2. PoolInv /\ NoSleeperAtJoin /\ [Next]_vars => NoSleeperAtJoin'
    <2> SUFFICES ASSUME PoolInv, NoSleeperAtJoin, [Next]_vars,
                        owner' \in {"joining", "joined"}
                 PROVE  \A w \in Threads : pc'[w] # "asleep"
        BY DEF NoSleeperAtJoin
    <2> USE DEF PoolInv, TypeOK, NoSleeperAtJoin
    <2>1. CASE NotifyAll
        BY <2>1 DEF NotifyAll
    <2>2. ASSUME NEW w \in Threads, Sleep(w) PROVE FALSE
        BY <2>2 DEF Sleep, StopFollowsOwner
    <2>3. ASSUME NEW w \in Threads, Exit(w) \/ Take(w) \/ Run(w) \/ Retire(w)
          PROVE  \A v \in Threads : pc'[v] # "asleep"
        BY <2>3 DEF Exit, Take, Run, Retire
    <2>4. CASE SpuriousWakeup
        BY <2>4 DEF SpuriousWakeup
    <2>5. CASE Join \/ Destroyed \/ UNCHANGED vars
        BY <2>5 DEF Join, Destroyed, vars
    <2>6. CASE CallWait \/ SetStop \/ NotifyOne \/ TestDone
        BY <2>6 DEF CallWait, SetStop, NotifyOne, TestDone
    <2>7. ASSUME NEW t \in Tasks, AddTask(t) PROVE FALSE
        BY <2>7 DEF AddTask
    <2> QED
        BY <2>1, <2>2, <2>3, <2>4, <2>5, <2>6, <2>7
           DEF Next, OwnerStep, ThreadStep
<1> QED
    BY <1>1, <1>2, PoolInvariant, PTL DEF SafeSpec

\* When the destructor has returned, nothing is left in the queue or in the
\* hands of a thread.
THEOREM DestructorDrains == SafeSpec => []DestroyedAfterDrain
<1>1. PoolInv => DestroyedAfterDrain
    <2> SUFFICES ASSUME PoolInv, owner = "joined"
                 PROVE  Queued = {} /\ Held = {}
        BY DEF DestroyedAfterDrain
    <2>1. PICK w \in Threads : pc[w] = "exited"
        BY ThreadsAssumption DEF PoolInv, JoinedAfterExit
    <2>2. tasks = <<>>
        BY <2>1 DEF PoolInv, ExitedAfterDrain
    <2>3. Queued = {}
        BY <2>2 DEF Queued
    <2>4. Busy = {}
        BY DEF PoolInv, JoinedAfterExit, Busy
    <2> QED
        BY <2>3, <2>4 DEF Held
<1> QED
    BY <1>1, PoolInvariant, PTL

-----------------------------------------------------------------------------
(* Refinement of TaskPool *)

Elements(q) == {q[i] : i \in 1..Len(q)}
Distinct(q) == \A i, j \in 1..Len(q) : q[i] = q[j] => i = j
RunningNow == {task[w] : w \in Executing}

\* Every task is in one place: once in the queue, or in one thread's hands, or
\* finished.
OnceEach ==
    /\ Distinct(tasks)
    /\ \A v, w \in Executing : task[v] = task[w] => v = w
    /\ Queued \cap RunningNow = {}
    /\ finished \cap Queued = {}
    /\ finished \cap RunningNow = {}

\* What Append does to the elements of a queue.
LEMMA ElementsAppend ==
    ASSUME NEW S, NEW q \in Seq(S), NEW t \in S
    PROVE  /\ Elements(Append(q, t)) = Elements(q) \cup {t}
           /\ Distinct(q) /\ t \notin Elements(q) => Distinct(Append(q, t))
<1> DEFINE a == Append(q, t)
<1>1. Len(a) = Len(q) + 1 /\ Len(q) \in Nat
    OBVIOUS
<1>2. \A i \in 1..Len(q) : a[i] = q[i]
    OBVIOUS
<1>3. a[Len(q) + 1] = t
    OBVIOUS
<1> HIDE DEF a
<1>4. 1..Len(a) = (1..Len(q)) \cup {Len(q) + 1}
    BY <1>1
<1>5. Elements(a) = Elements(q) \cup {t}
    BY <1>2, <1>3, <1>4 DEF Elements
<1>6. ASSUME Distinct(q), t \notin Elements(q) PROVE Distinct(a)
    BY <1>2, <1>3, <1>4, <1>6 DEF Distinct, Elements
<1> QED
    BY <1>5, <1>6 DEF a

\* What taking the head does to the elements of a queue without duplicates.
LEMMA ElementsTail ==
    ASSUME NEW S, NEW q \in Seq(S), q # <<>>, Distinct(q)
    PROVE  /\ Head(q) \in Elements(q)
           /\ Elements(Tail(q)) = Elements(q) \ {Head(q)}
           /\ Distinct(Tail(q))
<1> DEFINE r == Tail(q)
<1>1. Len(q) \in Nat \ {0} /\ Len(r) = Len(q) - 1
    OBVIOUS
<1>2. \A i \in 1..Len(r) : r[i] = q[i + 1]
    OBVIOUS
<1>3. Head(q) = q[1]
    OBVIOUS
<1> HIDE DEF r
<1>4. Head(q) \in Elements(q)
    BY <1>1, <1>3 DEF Elements
<1>5. \A i \in 1..Len(r) : i + 1 \in 1..Len(q) /\ i + 1 # 1
    BY <1>1
<1>6. \A j \in 1..Len(q) : j # 1 => j - 1 \in 1..Len(r) /\ (j - 1) + 1 = j
    BY <1>1
<1>7. 1 \in 1..Len(q)
    BY <1>1
<1>8. Elements(r) \subseteq Elements(q) \ {Head(q)}
    <2> SUFFICES ASSUME NEW i \in 1..Len(r)
                 PROVE  r[i] \in Elements(q) /\ r[i] # Head(q)
        BY DEF Elements
    <2>1. r[i] \in Elements(q)
        BY <1>2, <1>5 DEF Elements
    <2>2. q[i + 1] # q[1]
        BY <1>5, <1>7 DEF Distinct
    <2> QED
        BY <1>2, <1>3, <2>1, <2>2
<1>9. Elements(q) \ {Head(q)} \subseteq Elements(r)
    <2> SUFFICES ASSUME NEW j \in 1..Len(q), q[j] # Head(q)
                 PROVE  q[j] \in Elements(r)
        BY DEF Elements
    <2>1. j - 1 \in 1..Len(r) /\ (j - 1) + 1 = j
        BY <1>3, <1>6
    <2>2. r[j - 1] = q[j]
        BY <1>2, <2>1
    <2> QED
        BY <2>1, <2>2 DEF Elements
<1>10. Distinct(r)
    <2> SUFFICES ASSUME NEW i \in 1..Len(r), NEW j \in 1..Len(r), r[i] = r[j]
                 PROVE  i = j
        BY DEF Distinct
    <2>1. q[i + 1] = q[j + 1]
        BY <1>2
    <2>2. i + 1 = j + 1
        BY <1>5, <2>1 DEF Distinct
    <2> QED
        BY <1>1, <2>2
<1> QED
    BY <1>4, <1>8, <1>9, <1>10 DEF r

\* A step that keeps the queue, the finished tasks and who runs what.
LEMMA SameTasks ==
    ASSUME UNCHANGED <<tasks, finished>>,
           \A w \in Threads : pc'[w] = "running" <=> pc[w] = "running",
           \A w \in Threads : pc[w] = "running" => task'[w] = task[w]
    PROVE  /\ Queued' = Queued
           /\ RunningNow' = RunningNow
           /\ OnceEach => OnceEach'
<1>1. Executing' = Executing
    BY DEF Executing
<1>2. \A w \in Executing : task'[w] = task[w]
    BY DEF Executing
<1>3. Queued' = Queued
    BY DEF Queued
<1>4. RunningNow' = RunningNow
    BY <1>1, <1>2 DEF RunningNow
<1>5. ASSUME OnceEach PROVE OnceEach'
    <2>1. Distinct(tasks)'
        BY <1>5 DEF OnceEach, Distinct
    <2>2. \A v, w \in Executing' : task'[v] = task'[w] => v = w
        BY <1>1, <1>2, <1>5 DEF OnceEach
    <2> QED
        BY <1>3, <1>4, <1>5, <2>1, <2>2 DEF OnceEach
<1> QED
    BY <1>3, <1>4, <1>5

\* The owner's position, seen from TaskPool.
LEMMA OwnerMap ==
    /\ owner \in {"idle", "notifying"} => AbstractOwner = "idle"
    /\ owner \in {"testing", "asleep"} => AbstractOwner = "waiting"
    /\ owner \in {"waking", "joining"} => AbstractOwner = "closing"
    /\ owner = "joined" => AbstractOwner = "closed"
BY DEF AbstractOwner

LEMMA OwnerMapNext ==
    /\ owner' \in {"idle", "notifying"} => AbstractOwner' = "idle"
    /\ owner' \in {"testing", "asleep"} => AbstractOwner' = "waiting"
    /\ owner' \in {"waking", "joining"} => AbstractOwner' = "closing"
    /\ owner' = "joined" => AbstractOwner' = "closed"
BY DEF AbstractOwner

\* With no active task and an empty queue, nothing is pending or running.
LEMMA RetiredIsQuiet ==
    ASSUME PoolInv, AllRetired
    PROVE  Queued = {} /\ RunningNow = {}
<1>1. Busy = {}
    BY BusyFinite DEF PoolInv, ActiveTasksCounted, AllRetired
<1>2. Executing = {}
    BY <1>1 DEF Busy, Executing
<1> QED
    BY <1>2 DEF Queued, RunningNow, AllRetired

\* Every step keeps OnceEach and is a step of TaskPool or changes nothing there.
LEMMA StepMaps ==
    PoolInv /\ OnceEach /\ [Next]_vars =>
        OnceEach' /\ [Abstract!PoolNext]_(Abstract!poolVars)
<1> DEFINE Maps == OnceEach' /\ [Abstract!PoolNext]_(Abstract!poolVars)
<1> SUFFICES ASSUME PoolInv, OnceEach, [Next]_vars PROVE Maps
    OBVIOUS
<1>0. Abstract!poolVars = <<Queued, RunningNow, finished, AbstractOwner>>
    BY DEF Abstract!poolVars, RunningNow
<1>1. ASSUME NEW t \in Tasks, AddTask(t) PROVE Maps
    <2>1. /\ Elements(tasks') = Elements(tasks) \cup {t}
          /\ t \notin Elements(tasks) => Distinct(tasks')
        BY <1>1, ElementsAppend DEF AddTask, PoolInv, TypeOK, OnceEach
    <2>2. Queued = Elements(tasks) /\ Queued' = Elements(tasks')
        BY DEF Queued, Elements
    <2>3. RunningNow \subseteq Held
        BY DEF RunningNow, Held, Busy, Executing
    <2>4. t \notin Queued /\ t \notin RunningNow /\ t \notin finished
        BY <1>1, <2>3 DEF AddTask, Submitted
    <2>5. Executing' = Executing /\ RunningNow' = RunningNow
        BY <1>1 DEF AddTask, RunningNow, Executing
    <2>6. OnceEach'
        BY <1>1, <2>1, <2>2, <2>4, <2>5 DEF AddTask, OnceEach, Distinct
    <2>7. AbstractOwner = "idle" /\ AbstractOwner' = "idle"
        BY <1>1, OwnerMap, OwnerMapNext DEF AddTask
    <2>8. Abstract!Submit(t)
        BY <1>1, <2>1, <2>2, <2>4, <2>5, <2>7
           DEF Abstract!Submit, AddTask, RunningNow
    <2> QED
        BY <2>6, <2>8 DEF Abstract!PoolNext
<1>2. CASE NotifyOne \/ NotifyAll
    <2>1. OnceEach' /\ Queued' = Queued /\ RunningNow' = RunningNow
        <3>1. \A w \in Threads : pc'[w] = "running" <=> pc[w] = "running"
            BY <1>2 DEF NotifyOne, NotifyAll, PoolInv, TypeOK
        <3> QED
            BY <1>2, <3>1, SameTasks DEF NotifyOne, NotifyAll
    <2>2. AbstractOwner' = AbstractOwner
        BY <1>2, OwnerMap, OwnerMapNext DEF NotifyOne, NotifyAll
    <2> QED
        BY <1>0, <1>2, <2>1, <2>2 DEF NotifyOne, NotifyAll, Abstract!poolVars,
                                     RunningNow
<1>3. CASE CallWait \/ SetStop \/ TestDone \/ Join
    <2>1. OnceEach' /\ Queued' = Queued /\ RunningNow' = RunningNow
        BY <1>3, SameTasks DEF CallWait, SetStop, TestDone, Join
    <2>2. finished' = finished
        BY <1>3 DEF CallWait, SetStop, TestDone, Join
    <2>3. CASE CallWait
        <3>1. AbstractOwner = "idle" /\ AbstractOwner' = "waiting"
            BY <2>3, OwnerMap, OwnerMapNext DEF CallWait
        <3>2. Abstract!Wait
            BY <2>1, <2>2, <3>1 DEF Abstract!Wait, RunningNow
        <3> QED
            BY <2>1, <3>2 DEF Abstract!PoolNext
    <2>4. CASE SetStop
        <3>1. AbstractOwner = "idle" /\ AbstractOwner' = "closing"
            BY <2>4, OwnerMap, OwnerMapNext DEF SetStop
        <3>2. Abstract!Close
            BY <2>1, <2>2, <3>1 DEF Abstract!Close, RunningNow
        <3> QED
            BY <2>1, <3>2 DEF Abstract!PoolNext
    <2>5. CASE TestDone /\ AllRetired
        <3>1. AbstractOwner = "waiting" /\ AbstractOwner' = "idle"
            BY <2>5, OwnerMap, OwnerMapNext DEF TestDone
        <3>2. Abstract!WaitReturn
            BY <2>1, <2>2, <2>5, <3>1, RetiredIsQuiet
               DEF Abstract!WaitReturn, Abstract!Quiet, RunningNow
        <3> QED
            BY <2>1, <3>2 DEF Abstract!PoolNext
    <2>6. CASE TestDone /\ ~AllRetired
        <3>1. AbstractOwner' = AbstractOwner
            BY <2>6, OwnerMap, OwnerMapNext DEF TestDone
        <3> QED
            BY <2>1, <2>2, <3>1 DEF Abstract!poolVars, RunningNow
    <2>7. CASE Join
        <3>1. AbstractOwner = "closing" /\ AbstractOwner' = "closed"
            BY <2>7, OwnerMap, OwnerMapNext DEF Join
        <3>2. PICK w \in Threads : pc[w] = "exited"
            BY <2>7, ThreadsAssumption DEF Join
        <3>3. Queued = {}
            BY <3>2 DEF PoolInv, ExitedAfterDrain, Queued
        <3>4. RunningNow = {}
            BY <2>7 DEF Join, RunningNow, Executing
        <3>5. Abstract!Closed
            BY <2>1, <2>2, <3>1, <3>3, <3>4
               DEF Abstract!Closed, Abstract!Quiet, RunningNow
        <3> QED
            BY <2>1, <3>5 DEF Abstract!PoolNext
    <2> QED
        BY <1>3, <2>3, <2>4, <2>5, <2>6, <2>7
<1>4. ASSUME NEW w \in Threads, Sleep(w) \/ Exit(w) PROVE Maps
    <2>1. OnceEach' /\ Queued' = Queued /\ RunningNow' = RunningNow
        <3>1. \A v \in Threads : pc'[v] = "running" <=> pc[v] = "running"
            BY <1>4 DEF Sleep, Exit, PoolInv, TypeOK
        <3> QED
            BY <1>4, <3>1, SameTasks DEF Sleep, Exit
    <2>2. AbstractOwner' = AbstractOwner /\ finished' = finished
        BY <1>4 DEF Sleep, Exit, AbstractOwner
    <2> QED
        BY <2>1, <2>2 DEF Abstract!poolVars, RunningNow
<1>5. ASSUME NEW w \in Threads, Take(w) PROVE Maps
    <2>0. PICK t \in Tasks : t = Head(tasks)
        BY <1>5 DEF Take, PoolInv, TypeOK
    <2>1. /\ t \in Elements(tasks)
          /\ Elements(tasks') = Elements(tasks) \ {t}
          /\ Distinct(tasks')
        BY <1>5, <2>0, ElementsTail DEF Take, PoolInv, TypeOK, OnceEach
    <2>2. Queued = Elements(tasks) /\ Queued' = Elements(tasks')
        BY DEF Queued, Elements
    <2>3. Executing' = Executing \cup {w} /\ w \notin Executing
        BY <1>5 DEF Take, Executing, PoolInv, TypeOK
    <2>4. task'[w] = t /\ \A v \in Executing : task'[v] = task[v]
        BY <1>5, <2>0, <2>3 DEF Take, PoolInv, TypeOK
    <2>5. RunningNow' = RunningNow \cup {t}
        BY <2>3, <2>4 DEF RunningNow
    <2>6. \A u, v \in Executing' : task'[u] = task'[v] => u = v
        BY <2>1, <2>2, <2>3, <2>4 DEF OnceEach, RunningNow
    <2>7. finished' = finished /\ AbstractOwner' = AbstractOwner
        BY <1>5 DEF Take, AbstractOwner
    <2>8. OnceEach'
        BY <2>1, <2>2, <2>5, <2>6, <2>7 DEF OnceEach, Distinct
    <2>9. Abstract!Start(t)
        BY <2>1, <2>2, <2>5, <2>7 DEF Abstract!Start, RunningNow
    <2> QED
        BY <2>8, <2>9 DEF Abstract!PoolNext
<1>6. ASSUME NEW w \in Threads, Run(w) PROVE Maps
    <2>0. PICK t \in Tasks : t = task[w]
        BY <1>6 DEF Run, PoolInv, HoldsTask
    <2>1. Executing' = Executing \ {w} /\ w \in Executing
        BY <1>6 DEF Run, Executing, PoolInv, TypeOK
    <2>2. task' = task /\ tasks' = tasks /\ finished' = finished \cup {t}
        BY <1>6, <2>0 DEF Run
    <2>3. Queued' = Queued /\ AbstractOwner' = AbstractOwner
        BY <1>6 DEF Run, Queued, AbstractOwner
    <2>4. t \in RunningNow
        BY <2>0, <2>1 DEF RunningNow
    <2>5. RunningNow' = RunningNow \ {t}
        BY <2>0, <2>1, <2>2 DEF RunningNow, OnceEach
    <2>6. \A u, v \in Executing' : task'[u] = task'[v] => u = v
        BY <2>1, <2>2 DEF OnceEach
    <2>7. OnceEach'
        BY <2>2, <2>3, <2>4, <2>5, <2>6 DEF OnceEach, Distinct
    <2>8. Abstract!Finish(t)
        BY <2>2, <2>3, <2>4, <2>5 DEF Abstract!Finish, RunningNow
    <2> QED
        BY <2>7, <2>8 DEF Abstract!PoolNext
<1>7. ASSUME NEW w \in Threads, Retire(w) PROVE Maps
    <2>1. OnceEach' /\ Queued' = Queued /\ RunningNow' = RunningNow
        <3>1. \A v \in Threads : pc'[v] = "running" <=> pc[v] = "running"
            BY <1>7 DEF Retire, PoolInv, TypeOK
        <3>2. \A v \in Threads : pc[v] = "running" => task'[v] = task[v]
            BY <1>7 DEF Retire, PoolInv, TypeOK
        <3> QED
            BY <1>7, <3>1, <3>2, SameTasks DEF Retire
    <2>2. AbstractOwner' = AbstractOwner /\ finished' = finished
        BY <1>7, OwnerMap, OwnerMapNext DEF Retire, AbstractOwner
    <2> QED
        BY <2>1, <2>2 DEF Abstract!poolVars, RunningNow
<1>8. CASE SpuriousWakeup
    <2>1. OnceEach' /\ Queued' = Queued /\ RunningNow' = RunningNow
        <3>1. \A v \in Threads : pc'[v] = "running" <=> pc[v] = "running"
            BY <1>8 DEF SpuriousWakeup, PoolInv, TypeOK
        <3> QED
            BY <1>8, <3>1, SameTasks DEF SpuriousWakeup
    <2>2. AbstractOwner' = AbstractOwner /\ finished' = finished
        BY <1>8, OwnerMap, OwnerMapNext DEF SpuriousWakeup, AbstractOwner
    <2> QED
        BY <2>1, <2>2 DEF Abstract!poolVars, RunningNow
<1>9. CASE Destroyed \/ UNCHANGED vars
    <2>1. OnceEach' /\ Queued' = Queued /\ RunningNow' = RunningNow
        BY <1>9, SameTasks DEF Destroyed, vars
    <2>2. AbstractOwner' = AbstractOwner /\ finished' = finished
        BY <1>9 DEF Destroyed, vars, AbstractOwner
    <2> QED
        BY <2>1, <2>2 DEF Abstract!poolVars, RunningNow
<1> QED
    BY <1>1, <1>2, <1>3, <1>4, <1>5, <1>6, <1>7, <1>8, <1>9
       DEF Next, OwnerStep, ThreadStep

\* threadPool.cpp implements TaskPool: every task it accepts runs once, and
\* neither wait() nor the destructor returns while one is queued or running.
THEOREM PoolRefines == SafeSpec => ImplementsTaskPool
<1>1. Init => OnceEach
    <2> SUFFICES ASSUME Init PROVE OnceEach
        OBVIOUS
    <2>1. Executing = {} /\ Queued = {}
        BY DEF Init, Executing, Queued
    <2>2. Distinct(tasks)
        BY DEF Init, Distinct
    <2> QED
        BY <2>1, <2>2 DEF OnceEach, RunningNow, Init
<1>2. Init => Abstract!PoolInit
    BY OwnerMap DEF Init, Abstract!PoolInit, Queued, Executing
<1> QED
    BY <1>1, <1>2, StepMaps, PoolInvariant, PTL
       DEF SafeSpec, ImplementsTaskPool, Abstract!PoolSpec
=============================================================================
