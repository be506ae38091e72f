------------------------ MODULE ThreadPools_proofs -------------------------
(***************************************************************************)
(* Theorems about threads that share a limited pool: the threads of Async, *)
(* which share database connections (AsyncThreads), and the jobs of one    *)
(* process, which share its threads (SidekiqPool).                         *)
(*                                                                         *)
(* AsyncThreads, for any number of threads, connections and results: each  *)
(* result is worked on once, and what the parent knows at the end is what  *)
(* the threads did.  EachOnce is not inductive: that a result in the queue *)
(* or in a thread's hands has not been worked on yet, and that two threads *)
(* never hold the same one, is what a step needs (InOnePlace).  The other  *)
(* properties follow from what a thread knows where it stands.             *)
(*                                                                         *)
(* SidekiqPool, for any number of runs, tasks and parts, with the queues   *)
(* the classes name and a concurrency above the sum of the two process     *)
(* limits: the jobs never all wait for each other.  No queue runs more     *)
(* jobs than its limit (QueuesInLimit, the inductive part), so the runners *)
(* and workers together leave a thread free, and the parts, which wait for *)
(* nothing, can use it.                                                    *)
(***************************************************************************)
EXTENDS AsyncThreads, SidekiqPool, FiniteSetTheorems, TLAPS

-----------------------------------------------------------------------------
(* Async: threads and connections.                                         *)

Holds(t) == w[t].pc \in {"find", "work"}

ThreadStates ==
  [Workers -> [pc : Places, r : Results \cup {None}, retries : 0..MaxRetries,
               notes : SUBSET Results]]

Types ==
  /\ queue \subseteq Results
  /\ w \in ThreadStates
  /\ taken \subseteq Workers /\ IsFiniteSet(taken) /\ Cardinality(taken) <= Connections
  /\ \A t \in Workers : t \in taken <=> w[t].pc \in {"loop", "pop", "find", "work", "sync"}
  /\ tracker \subseteq Results /\ parent \in {"joining", "done", "raised"}
  /\ worked \in [Results -> Nat]
  /\ \A t \in Workers : w[t].pc \in {"find", "work", "sync"} => w[t].r \in Results

\* A result is in the queue, in the hands of one thread, worked on, or lost
\* with an event or an exception.
InOnePlace ==
  /\ \A r \in queue : worked[r] = 0
  /\ \A r \in Results : worked[r] <= 1
  /\ \A t \in Workers : Holds(t) => w[t].r \notin queue /\ worked[w[t].r] = 0
  /\ \A t, u \in Workers : Holds(t) /\ Holds(u) /\ w[t].r = w[u].r => t = u

\* A thread ends only when it saw the queue empty, and nothing is ever added.
EndedOnEmpty == \A t \in Workers : w[t].pc = "ended" => queue = {}

\* Between a save and the synchronized block, only the result just worked on
\* can be missing from the tracker.
NotesTracked ==
  \A t \in Workers :
    w[t].notes \subseteq tracker \cup errors
                         \cup (IF w[t].pc = "sync" THEN {w[t].r} ELSE {})

\* A thread that died left an event.
DeadTold == \A t \in Workers : w[t].pc = "died" => w[t].r \in errors

\* join returns after all threads.
AllJoined == parent = "done" => Joined

IInv == Types /\ InOnePlace /\ EachOnce /\ EndedOnEmpty /\ DeadTold /\ NotesTracked /\ AllJoined

USE AsyncAssumption

-----------------------------------------------------------------------------
LEMMA InitHolds == Init => IInv
<1> SUFFICES ASSUME Init PROVE IInv
  OBVIOUS
<1>1. Types
  BY FS_EmptySet DEF Init, Types, ThreadStates, Places
<1>2. InOnePlace /\ EachOnce
  BY DEF Init, InOnePlace, Holds, EachOnce
<1>3. EndedOnEmpty /\ DeadTold /\ NotesTracked /\ AllJoined
  BY DEF Init, EndedOnEmpty, DeadTold, NotesTracked, AllJoined
<1> QED BY <1>1, <1>2, <1>3 DEF IInv

\* A pool that gives out one connection of those it has left, or takes one
\* back, gives out no more than it has.
LEMMA PoolInLimit ==
  ASSUME NEW S, IsFiniteSet(S), Cardinality(S) <= Connections, NEW x
  PROVE  /\ IsFiniteSet(S \ {x}) /\ Cardinality(S \ {x}) <= Connections
         /\ IsFiniteSet(S \cup {x})
         /\ Cardinality(S) < Connections => Cardinality(S \cup {x}) <= Connections
<1>1. Cardinality(S) \in Nat
  BY FS_CardinalityType
<1>2. /\ IsFiniteSet(S \cup {x})
      /\ Cardinality(S \cup {x}) = IF x \in S THEN Cardinality(S) ELSE Cardinality(S) + 1
  BY FS_AddElement
<1>3. /\ IsFiniteSet(S \ {x})
      /\ Cardinality(S \ {x}) = IF x \in S THEN Cardinality(S) - 1 ELSE Cardinality(S)
  BY FS_RemoveElement
<1> QED BY <1>1, <1>2, <1>3

\* Only with_connection's two ends change who holds a connection.
LEMMA StepKeepsTypes ==
  ASSUME IInv, NEW t \in Workers, Step(t)
  PROVE  Types'
<1> USE DEF IInv, Types, Places, ThreadStates, At, Goto
<1>1. CASE Connect(t)
  <2>1. IsFiniteSet(taken') /\ Cardinality(taken') <= Connections
    BY <1>1, PoolInLimit DEF Connect, Free
  <2> QED BY <1>1, <2>1 DEF Connect
<1>2. CASE QueueIsEmpty(t)
  <2>1. IsFiniteSet(taken') /\ Cardinality(taken') <= Connections
    BY <1>2, PoolInLimit DEF QueueIsEmpty
  <2> QED BY <1>2, <2>1 DEF QueueIsEmpty
<1>3. CASE FindRaises(t)
  <2>1. IsFiniteSet(taken') /\ Cardinality(taken') <= Connections
    BY <1>3, PoolInLimit DEF FindRaises, Dies
  <2> QED BY <1>3, <2>1 DEF FindRaises, Dies
<1>4. CASE TimeOut(t)
  BY <1>4 DEF TimeOut, RetriesLeft
<1>5. CASE QueueIsNotEmpty(t) \/ Find(t)
  BY <1>5 DEF QueueIsNotEmpty, Find
<1>6. CASE Pop(t)
  BY <1>6 DEF Pop, Popped
<1>7. CASE Work(t) \/ WorkRaises(t)
  <2> DEFINE choices == {w[t].notes, w[t].notes \cup {w[t].r}}
  <2>1. w[t].r \in Results /\ w[t].pc = "work" /\ choices \subseteq SUBSET Results
    BY <1>7 DEF Work, WorkRaises
  <2>2. \E n \in choices, p \in {"sync", "loop", "died", "raised"} :
          /\ w' = [w EXCEPT ![t].pc = p, ![t].notes = n]
          /\ taken' = IF p \in {"died", "raised"} THEN taken \ {t} ELSE taken
    <3>1. CASE Work(t)
      BY <3>1 DEF Work, Notes
    <3>2. CASE WorkRaises(t)
      BY <3>2 DEF WorkRaises, Notes, Dies
    <3> QED BY <1>7, <3>1, <3>2
  <2> HIDE DEF choices
  <2>3. PICK n \in SUBSET Results, p \in {"sync", "loop", "died", "raised"} :
          /\ w' = [w EXCEPT ![t].pc = p, ![t].notes = n]
          /\ taken' = IF p \in {"died", "raised"} THEN taken \ {t} ELSE taken
    BY <2>1, <2>2, Zenon
  <2>4. w' \in ThreadStates
    <3>1. w[t].r \in Results \cup {None} /\ w[t].retries \in 0..MaxRetries
      OBVIOUS
    <3>2. w'[t] = [pc |-> p, r |-> w[t].r, retries |-> w[t].retries, notes |-> n]
      BY <2>3
    <3>3. DOMAIN w' = Workers /\ \A u \in Workers \ {t} : w'[u] = w[u]
      BY <2>3
    <3>4. w' = [u \in Workers |-> w'[u]]
      BY <2>3
    <3> QED BY <3>1, <3>2, <3>3, <3>4
  <2>5. /\ worked' \in [Results -> Nat] /\ UNCHANGED <<queue, tracker, parent>>
        /\ taken' \subseteq Workers /\ IsFiniteSet(taken') /\ Cardinality(taken') <= Connections
    <3>1. worked' \in [Results -> Nat] /\ UNCHANGED <<queue, tracker, parent>>
      BY <1>7, <2>1 DEF Work, WorkRaises
    <3>2. IsFiniteSet(taken \ {t}) /\ Cardinality(taken \ {t}) <= Connections
      BY PoolInLimit
    <3> QED
      BY <2>3, <3>1, <3>2
  <2>6. \A u \in Workers :
          /\ u \in taken' <=> w'[u].pc \in {"loop", "pop", "find", "work", "sync"}
          /\ w'[u].pc \in {"find", "work", "sync"} => w'[u].r \in Results
    BY <2>1, <2>3, <2>5
  <2> HIDE DEF ThreadStates
  <2> QED BY <2>4, <2>5, <2>6
<1>8. CASE Sync(t)
  BY <1>8 DEF Sync, Tracked
<1> QED BY <1>1, <1>2, <1>3, <1>4, <1>5, <1>6, <1>7, <1>8 DEF Step

\* A popped result leaves the queue with the thread, and is worked on before
\* the thread pops again.
LEMMA StepKeepsPlaces ==
  ASSUME IInv, NEW t \in Workers, Step(t)
  PROVE  InOnePlace' /\ EachOnce'
<1> USE DEF IInv, Types, ThreadStates, InOnePlace, EachOnce, Holds, At, Goto
<1>1. CASE \/ Connect(t) \/ TimeOut(t) \/ QueueIsEmpty(t) \/ QueueIsNotEmpty(t)
           \/ Find(t) \/ Sync(t)
  <2>1. /\ UNCHANGED <<queue, worked, errors>> /\ \A u \in Workers : w'[u].r = w[u].r
        /\ \A u \in Workers \ {t} : w'[u].pc = w[u].pc
        /\ w[t].pc \in {"find", "work", "raised"} => w'[t].pc \in {"find", "work", "raised"}
        /\ w'[t].pc \in {"find", "work"} => w[t].pc \in {"find", "work"}
    <3>1. CASE Connect(t) \/ TimeOut(t)
      BY <3>1, SMTT(20) DEF Connect, TimeOut
    <3>2. CASE QueueIsEmpty(t) \/ QueueIsNotEmpty(t)
      BY <3>2, SMTT(20) DEF QueueIsEmpty, QueueIsNotEmpty
    <3>3. CASE Find(t) \/ Sync(t)
      BY <3>3, SMTT(20) DEF Find, Sync
    <3> QED BY <1>1, <3>1, <3>2, <3>3
  <2> QED BY <2>1, SMTT(20)
<1>2. CASE Pop(t)
  BY <1>2 DEF Pop, Popped
<1>3. CASE FindRaises(t)
  BY <1>3, SMTT(30) DEF FindRaises, Dies
<1>4. CASE Work(t)
  BY <1>4 DEF Work, Notes
<1>5. CASE WorkRaises(t)
  BY <1>5 DEF WorkRaises, Notes, Dies
<1> QED BY <1>1, <1>2, <1>3, <1>4, <1>5 DEF Step

LEMMA StepKeepsRest ==
  ASSUME IInv, NEW t \in Workers, Step(t)
  PROVE  EndedOnEmpty' /\ DeadTold' /\ NotesTracked' /\ AllJoined'
<1> USE DEF IInv, Types, ThreadStates, At, Goto
<1>1. EndedOnEmpty'
  BY DEF EndedOnEmpty, Step, Connect, TimeOut, QueueIsEmpty, QueueIsNotEmpty, Pop, Popped,
         FindRaises, Find, Work, WorkRaises, Sync, Notes, Dies
<1>2. AllJoined'
  BY DEF AllJoined, Joined, Step, Connect, TimeOut, QueueIsEmpty, QueueIsNotEmpty, Pop,
         FindRaises, Find, Work, WorkRaises, Sync, Notes, Dies
<1>4. DeadTold'
  BY DEF DeadTold, Step, Connect, TimeOut, QueueIsEmpty, QueueIsNotEmpty, Pop,
         FindRaises, Find, Work, WorkRaises, Sync, Notes, Dies
<1>3. NotesTracked'
  <2>1. CASE Connect(t) \/ TimeOut(t) \/ QueueIsEmpty(t) \/ QueueIsNotEmpty(t)
    BY <2>1 DEF NotesTracked, Connect, TimeOut, QueueIsEmpty, QueueIsNotEmpty
  <2>2. CASE Pop(t) \/ FindRaises(t) \/ Find(t)
    BY <2>2 DEF NotesTracked, Pop, FindRaises, Dies, Find
  <2>3. CASE Work(t)
    BY <2>3 DEF NotesTracked, Work, Notes
  <2>4. CASE WorkRaises(t)
    BY <2>4 DEF NotesTracked, WorkRaises, Notes, Dies
  <2>5. CASE Sync(t)
    BY <2>5 DEF NotesTracked, Sync, Tracked
  <2> QED BY <2>1, <2>2, <2>3, <2>4, <2>5 DEF Step
<1> QED BY <1>1, <1>2, <1>3, <1>4

\* The invariant that carries all the properties of a run of Async
\* (async.rb:86-152), for every number of threads and connections.
THEOREM Invariance == Spec => []IInv
<1>1. IInv /\ [Next]_vars => IInv'
  <2> SUFFICES ASSUME IInv, [Next]_vars PROVE IInv'
    OBVIOUS
  <2>1. ASSUME NEW t \in Workers, Step(t) PROVE IInv'
    BY <2>1, StepKeepsTypes, StepKeepsPlaces, StepKeepsRest DEF IInv
  <2>2. CASE Join \/ JoinRaises
    BY <2>2 DEF Join, JoinRaises, IInv, Types, InOnePlace, Holds, EachOnce, EndedOnEmpty,
                DeadTold, NotesTracked, AllJoined, Joined
  <2>3. CASE UNCHANGED vars
    BY <2>3 DEF vars, IInv, Types, InOnePlace, Holds, EachOnce, EndedOnEmpty,
                DeadTold, NotesTracked, AllJoined, Joined
  <2> QED BY <2>1, <2>2, <2>3 DEF Next
<1> QED BY InitHolds, <1>1, PTL DEF Spec

\* Exactly the threads inside with_connection hold a connection, and never
\* more than the pool has (async.rb:96).
THEOREM TypeCorrect == Spec => []TypeOK
<1>1. IInv => TypeOK
  BY DEF IInv, Types, ThreadStates, TypeOK
<1> QED BY <1>1, Invariance, PTL

\* Every result is worked on at most once, and none gets lost between the
\* queue and a thread, although empty? and pop are two steps (async.rb:99-100).
THEOREM WorkedOnOnce == Spec => []EachOnce
<1>1. IInv => EachOnce
  BY DEF IInv
<1> QED BY <1>1, Invariance, PTL

\* A run that ends without an exception leaves results behind only when all
\* its threads died, each with an event that tells of it (async.rb:104-159).
THEOREM NoneLeftBehind == Spec => []LeftOnlyIfAllDied
<1>1. IInv => LeftOnlyIfAllDied
  BY DEF IInv, AllJoined, Joined, EndedOnEmpty, DeadTold, LeftOnlyIfAllDied
<1> QED BY <1>1, Invariance, PTL

\* The parent of a run that ends without an exception has the notes of every
\* result that was saved and did not raise (async.rb:110-118).
THEOREM NotesAreTakenOver == Spec => []SavedIsTracked
<1>1. IInv => SavedIsTracked
  BY DEF IInv, AllJoined, Joined, NotesTracked, SavedIsTracked
<1> QED BY <1>1, Invariance, PTL

HIDE AsyncAssumption

-----------------------------------------------------------------------------
(* Sidekiq: jobs and threads.                                              *)

\* What config/initializers/sidekiq.rb relies on.
Standard == DefaultQueues /\ RunnerLimit + WorkerLimit < Threads

RunningIn(q) == {i \in In("running") : QueueOf[i] = q}
QueuesInLimit == \A q \in Queues : Cardinality(RunningIn(q)) <= Limit(q)
PoolTyped == job \in [Jobs -> Stages]
PoolIInv == PoolTyped /\ QueuesInLimit

USE PoolAssumption

\* The sets of jobs are finite.
LEMMA JobsFinite ==
  ASSUME NEW S, S \subseteq Jobs
  PROVE  IsFiniteSet(S) /\ Cardinality(S) \in Nat
BY FS_Subset, FS_CardinalityType

\* A step that starts no job keeps the queues in their limits.
LEMMA NoneStarted ==
  ASSUME PoolIInv, job' \in [Jobs -> Stages],
         \A j \in Jobs : job'[j] = "running" => job[j] = "running"
  PROVE  PoolIInv'
<1>1. SUFFICES ASSUME NEW q \in Queues
               PROVE  Cardinality(RunningIn(q)') <= Limit(q)
  BY DEF PoolIInv, PoolTyped, QueuesInLimit, Limit
<1>2. RunningIn(q)' \subseteq RunningIn(q) /\ RunningIn(q) \subseteq Jobs
  BY DEF RunningIn, In, PoolIInv, PoolTyped
<1>3. Cardinality(RunningIn(q)') <= Cardinality(RunningIn(q))
  BY <1>2, JobsFinite, FS_Subset
<1>4. Cardinality(RunningIn(q)) <= Limit(q)
  BY DEF PoolIInv, QueuesInLimit
<1>5. /\ Cardinality(RunningIn(q)') \in Nat /\ Cardinality(RunningIn(q)) \in Nat
      /\ Limit(q) \in Nat
  BY <1>2, JobsFinite DEF Limit
<1> QED BY <1>3, <1>4, <1>5

\* A thread that takes a job keeps the queues in their limits.
LEMMA FetchKeeps ==
  ASSUME PoolIInv, NEW j \in Jobs, Fetch(j)
  PROVE  PoolIInv'
<1>1. PoolTyped'
  BY DEF PoolIInv, PoolTyped, Fetch, Stages
<1>2. ASSUME NEW q \in Queues
      PROVE  Cardinality(RunningIn(q)') <= Limit(q)
  <2>1. RunningIn(q) \subseteq Jobs
    BY DEF RunningIn, In
  <2>2. IsFiniteSet(RunningIn(q)) /\ Cardinality(RunningIn(q)) \in Nat /\ Limit(q) \in Nat
    BY <2>1, JobsFinite DEF Limit
  <2>3. Cardinality(RunningIn(q)) <= Limit(q)
    BY DEF PoolIInv, QueuesInLimit
  <2>4. CASE QueueOf[j] = q
    <3>1. RunningIn(q)' = RunningIn(q) \cup {j} /\ j \notin RunningIn(q)
      BY <2>4 DEF RunningIn, In, Fetch, CanFetch, PoolIInv, PoolTyped
    <3>2. Cardinality(RunningIn(q)') = Cardinality(RunningIn(q)) + 1
      BY <2>2, <3>1, FS_AddElement
    <3>3. Cardinality(RunningIn(q)) < Limit(q)
      BY <2>4 DEF Fetch, CanFetch, RunningIn
    <3> QED BY <2>2, <3>2, <3>3
  <2>5. CASE QueueOf[j] # q
    <3>1. RunningIn(q)' = RunningIn(q)
      BY <2>5 DEF RunningIn, In, Fetch, CanFetch, PoolIInv, PoolTyped
    <3> QED BY <2>3, <3>1
  <2> QED BY <2>4, <2>5
<1> QED BY <1>1, <1>2 DEF PoolIInv, QueuesInLimit, Limit

\* No queue ever runs more jobs than its limit allows: what process_limit
\* promises of sidekiq.rb:59-60, whatever jobs fail and whatever is pushed.
THEOREM PoolInvariance == PoolSpec => []PoolIInv
<1>1. PoolInit => PoolIInv
  <2>1. ASSUME PoolInit, NEW q \in Queues
        PROVE  Cardinality(RunningIn(q)) <= Limit(q)
    <3>1. RunningIn(q) = {}
      BY <2>1 DEF RunningIn, In, PoolInit
    <3>2. Cardinality(RunningIn(q)) = 0
      BY <3>1, FS_EmptySet
    <3> QED BY <3>2 DEF Limit
  <2> QED BY <2>1 DEF PoolIInv, PoolTyped, QueuesInLimit, PoolInit, Stages
<1>2. PoolIInv /\ [PoolNext]_poolVars => PoolIInv'
  <2> SUFFICES ASSUME PoolIInv, [PoolNext]_poolVars PROVE PoolIInv'
    OBVIOUS
  <2>1. ASSUME NEW r \in Runs, Submit(r) PROVE PoolIInv'
    <3>1. job' \in [Jobs -> Stages] /\ \A j \in Jobs : job'[j] = "running" => job[j] = "running"
      BY <2>1 DEF Submit, PoolIInv, PoolTyped, Jobs, Stages
    <3> QED BY <3>1, NoneStarted
  <2>2. ASSUME NEW c \in Tasks \cup Parts, Push(c) PROVE PoolIInv'
    <3>1. job' \in [Jobs -> Stages] /\ \A j \in Jobs : job'[j] = "running" => job[j] = "running"
      BY <2>2 DEF Push, PoolIInv, PoolTyped, Jobs, Stages
    <3> QED BY <3>1, NoneStarted
  <2>3. ASSUME NEW j \in Jobs, Finish(j) \/ Fail(j) PROVE PoolIInv'
    <3>1. job' \in [Jobs -> Stages] /\ \A i \in Jobs : job'[i] = "running" => job[i] = "running"
      BY <2>3 DEF Finish, Fail, PoolIInv, PoolTyped, Stages
    <3> QED BY <3>1, NoneStarted
  <2>4. CASE UNCHANGED poolVars
    <3>1. job' \in [Jobs -> Stages] /\ \A j \in Jobs : job'[j] = "running" => job[j] = "running"
      BY <2>4 DEF poolVars, PoolIInv, PoolTyped
    <3> QED BY <3>1, NoneStarted
  <2> QED BY <2>1, <2>2, <2>3, <2>4, FetchKeeps DEF PoolNext
<1> QED BY <1>1, <1>2, PTL DEF PoolSpec

\* Every job is in a stage, and one that was pushed has a pusher that was
\* started: jobs are pushed from task_runner.rb and async_sidekiq.rb only.
THEOREM PoolTypeCorrect == PoolSpec => []PoolTypeOK
<1>1. PoolInit => PoolTypeOK
  BY DEF PoolInit, PoolTypeOK, Jobs, Stages
<1>2. PoolTypeOK /\ [PoolNext]_poolVars => PoolTypeOK'
  <2> SUFFICES ASSUME PoolTypeOK, [PoolNext]_poolVars PROVE PoolTypeOK'
    OBVIOUS
  <2>1. \A c \in Tasks \cup Parts : Pusher(c) \in Jobs
    BY DEF Pusher, Jobs
  <2>2. ASSUME NEW r \in Runs, Submit(r) PROVE PoolTypeOK'
    BY <2>1, <2>2 DEF Submit, CanSubmit, PoolTypeOK, Jobs, Stages
  <2>3. ASSUME NEW c \in Tasks \cup Parts, Push(c) PROVE PoolTypeOK'
    BY <2>1, <2>3 DEF Push, CanPush, Pushing, PoolTypeOK, Jobs, Stages
  <2>4. ASSUME NEW j \in Jobs, Fetch(j) \/ Finish(j) \/ Fail(j) PROVE PoolTypeOK'
    BY <2>1, <2>4 DEF Fetch, CanFetch, Finish, CanFinish, Fail, PoolTypeOK, Jobs, Stages
  <2>5. CASE UNCHANGED poolVars
    BY <2>5 DEF poolVars, PoolTypeOK
  <2> QED BY <2>2, <2>3, <2>4, <2>5 DEF PoolNext
<1> QED BY <1>1, <1>2, PTL DEF PoolSpec

\* The runners and workers in progress are fewer than the threads.
LEMMA WaitersLeaveAThread ==
  ASSUME PoolIInv, Standard
  PROVE  Cardinality(RunningIn("runner") \cup RunningIn("worker")) < Threads
<1> DEFINE A == RunningIn("runner")
           B == RunningIn("worker")
<1>1. A \subseteq Jobs /\ B \subseteq Jobs
  BY DEF RunningIn, In
<1>2. /\ IsFiniteSet(A) /\ IsFiniteSet(B)
      /\ Cardinality(A) \in Nat /\ Cardinality(B) \in Nat
      /\ Cardinality(A \cup B) \in Nat /\ Cardinality(A \cap B) \in Nat
  BY <1>1, JobsFinite
<1>3. Cardinality(A \cup B) = Cardinality(A) + Cardinality(B) - Cardinality(A \cap B)
  BY <1>2, FS_Union
<1>4. Cardinality(A) <= RunnerLimit /\ Cardinality(B) <= WorkerLimit
  BY DEF PoolIInv, QueuesInLimit, Limit, Queues
<1> HIDE DEF A, B
<1>5. Cardinality(A \cup B) < Threads
  BY <1>2, <1>3, <1>4 DEF Standard
<1> QED BY <1>5 DEF A, B

\* The jobs that may wait are the runners and the workers.
LEMMA Waiters ==
  ASSUME Standard
  PROVE  {j \in In("running") : j \in Runs \cup Tasks}
           = RunningIn("runner") \cup RunningIn("worker")
BY DEF Standard, DefaultQueues, RunningIn, In, Jobs

\* With the standard queues, jobs that wait for other jobs never hold all
\* threads (sidekiq.rb:58).
THEOREM AThreadIsLeft ==
  ASSUME Standard
  PROVE  PoolSpec => []ThreadsAreLeft
<1>1. PoolIInv => ThreadsAreLeft
  BY WaitersLeaveAThread, Waiters DEF ThreadsAreLeft
<1> QED BY <1>1, PoolInvariance, PTL

\* With no part in progress, any queue of which nothing runs gets a thread.
LEMMA Fetchable ==
  ASSUME PoolIInv, Standard, NEW j \in Jobs, job[j] = "queued",
         \A p \in Parts : job[p] # "running",
         RunningIn(QueueOf[j]) = {}
  PROVE  CanFetch(j)
<1>1. In("running") = {i \in In("running") : i \in Runs \cup Tasks}
  BY DEF In, Jobs
<1>2. Cardinality(In("running")) < Threads
  BY <1>1, WaitersLeaveAThread, Waiters
<1>3. Cardinality(RunningIn(QueueOf[j])) = 0
  BY FS_EmptySet
<1>4. 0 < Limit(QueueOf[j])
  BY DEF Limit, Standard
<1> QED BY <1>2, <1>3, <1>4 DEF CanFetch, RunningIn

\* A running job pushes what it has not pushed yet, or it ends when all its
\* jobs are over.
LEMMA RunningGoesOn ==
  ASSUME PoolTyped, NEW j \in Jobs, job[j] = "running",
         \A c \in Children(j) : job[c] \notin {"queued", "running"}
  PROVE  CanFinish(j) \/ \E c \in Tasks \cup Parts : CanPush(c)
<1>1. CASE \E c \in Children(j) : job[c] = "none"
  BY <1>1 DEF Children, CanPush, Pushing
<1>2. CASE \A c \in Children(j) : job[c] # "none"
  <2>1. \A c \in Children(j) : job[c] = "over"
    BY <1>2 DEF Children, PoolTyped, Stages, Jobs
  <2> QED BY <2>1 DEF CanFinish, Awaited
<1> QED BY <1>1, <1>2

\* In every state with a job queued or running, some job can go on: the parts
\* first, then the tasks when no part is left, then the runs.
LEMMA SomeoneGoesOn ==
  ASSUME PoolIInv, Standard
  PROVE  NeverStuck
<1> DEFINE Moves == \/ \E c \in Tasks \cup Parts : CanPush(c)
                    \/ \E j \in Jobs : CanFetch(j) \/ CanFinish(j)
           Open(j) == job[j] \in {"queued", "running"}
<1>0. PoolTyped
  BY DEF PoolIInv
<1>1. CASE \E p \in Parts : job[p] = "running"
  <2>1. PICK p \in Parts : job[p] = "running"
    BY <1>1
  <2>2. Children(p) = {}
    BY DEF Children, Pusher
  <2> QED BY <2>1, <2>2, <1>0, RunningGoesOn DEF NeverStuck, Jobs
<1>2. CASE (\A p \in Parts : job[p] # "running") /\ \E p \in Parts : job[p] = "queued"
  <2>1. PICK p \in Parts : job[p] = "queued"
    BY <1>2
  <2>2. RunningIn(QueueOf[p]) = {}
    BY <1>2 DEF RunningIn, In, Standard, DefaultQueues, Jobs
  <2>3. CanFetch(p)
    BY <1>2, <2>1, <2>2, Fetchable DEF Jobs
  <2> QED BY <2>3 DEF NeverStuck, Jobs
<1>3. CASE (\A p \in Parts : ~Open(p)) /\ \E t \in Tasks : job[t] = "running"
  <2>1. PICK t \in Tasks : job[t] = "running"
    BY <1>3
  <2>2. Children(t) \subseteq Parts
    BY DEF Children, Pusher
  <2>3. CanFinish(t) \/ \E c \in Tasks \cup Parts : CanPush(c)
    BY <1>0, <1>3, <2>1, <2>2, RunningGoesOn DEF Jobs
  <2> QED BY <2>3 DEF NeverStuck, Jobs
<1>4. CASE /\ \A p \in Parts : ~Open(p)
           /\ \A t \in Tasks : job[t] # "running"
           /\ \E t \in Tasks : job[t] = "queued"
  <2>1. PICK t \in Tasks : job[t] = "queued"
    BY <1>4
  <2>2. RunningIn(QueueOf[t]) = {}
    BY <1>4 DEF RunningIn, In, Standard, DefaultQueues, Jobs
  <2>3. CanFetch(t)
    BY <1>4, <2>1, <2>2, Fetchable DEF Jobs
  <2> QED BY <2>3 DEF NeverStuck, Jobs
<1>5. CASE /\ \A c \in Tasks \cup Parts : ~Open(c)
           /\ \E r \in Runs : job[r] = "running"
  <2>1. PICK r \in Runs : job[r] = "running"
    BY <1>5
  <2>2. Children(r) \subseteq Tasks \cup Parts
    BY DEF Children
  <2>3. CanFinish(r) \/ \E c \in Tasks \cup Parts : CanPush(c)
    BY <1>0, <1>5, <2>1, <2>2, RunningGoesOn DEF Jobs
  <2> QED BY <2>3 DEF NeverStuck, Jobs
<1>6. CASE /\ \A c \in Tasks \cup Parts : ~Open(c)
           /\ \A r \in Runs : job[r] # "running"
           /\ \E r \in Runs : job[r] = "queued"
  <2>1. PICK r \in Runs : job[r] = "queued"
    BY <1>6
  <2>2. RunningIn(QueueOf[r]) = {}
    BY <1>6 DEF RunningIn, In, Standard, DefaultQueues, Jobs
  <2>3. CanFetch(r)
    BY <1>6, <2>1, <2>2, Fetchable DEF Jobs
  <2> QED BY <2>3 DEF NeverStuck, Jobs
<1>7. CASE \A j \in Jobs : ~Open(j)
  BY <1>7 DEF NeverStuck, In
<1> QED BY <1>1, <1>2, <1>3, <1>4, <1>5, <1>6, <1>7 DEF Jobs

\* With the standard queues, the jobs of a process never all wait for each
\* other, for any number of runs, tasks and parts (task_runner.rb:53-65,
\* async_sidekiq.rb:96-109 under the limits of sidekiq.rb:59-60).
THEOREM NobodyIsStuck ==
  ASSUME Standard
  PROVE  PoolSpec => []NeverStuck
<1>1. PoolIInv => NeverStuck
  BY SomeoneGoesOn
<1> QED BY <1>1, PoolInvariance, PTL
=============================================================================
