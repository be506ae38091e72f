----------------------------- MODULE SidekiqPool -----------------------------
(***************************************************************************)
(* The threads of one Sidekiq process, and the jobs that wait for other    *)
(* jobs of the same process: a TaskRunner waits for its TaskWorkers, and   *)
(* an AsyncSidekiq task for its AsyncSidekiqWorkers.  A waiting job keeps  *)
(* its thread.  config/initializers/sidekiq.rb limits the threads that the *)
(* queues runner and worker may occupy, "to prevent runners and workers    *)
(* from taking all the workers".                                           *)
(***************************************************************************)
EXTENDS Naturals, FiniteSets

CONSTANTS Runs,       \* TaskRunner jobs
          Tasks,      \* TaskWorker jobs
          Parts,      \* AsyncSidekiqWorker jobs
          RunOf,      \* the run of a task
          TaskOf,     \* the task of a part
          QueueOf,    \* the queue of each job
          Threads,    \* Sidekiq's concurrency
          RunnerLimit, WorkerLimit   \* process_limit

Jobs == Runs \cup Tasks \cup Parts
Queues == {"runner", "worker", "async_worker"}

ASSUME PoolAssumption ==
  /\ IsFiniteSet(Jobs)
  /\ Runs \cap Tasks = {} /\ Runs \cap Parts = {} /\ Tasks \cap Parts = {}
  /\ RunOf \in [Tasks -> Runs] /\ TaskOf \in [Parts -> Tasks]
  /\ QueueOf \in [Jobs -> Queues]
  /\ Threads \in Nat /\ RunnerLimit \in Nat \ {0} /\ WorkerLimit \in Nat \ {0}

\* The queues are those the classes name: no task has the option sidekiq_queue
\* or sidekiq_worker_queue.
DefaultQueues ==
  /\ \A j \in Runs : QueueOf[j] = "runner"
  /\ \A j \in Tasks : QueueOf[j] = "worker"
  /\ \A j \in Parts : QueueOf[j] = "async_worker"

VARIABLE job   \* the stage each job is in
poolVars == <<job>>

Stages == {"none", "queued", "running", "over"}

PoolInit == job = [j \in Jobs |-> "none"]

-----------------------------------------------------------------------------
In(s) == {j \in Jobs : job[j] = s}

\* The job that pushes c and waits for it, and the jobs that j waits for.
Pusher(c) == IF c \in Tasks THEN RunOf[c] ELSE TaskOf[c]
Children(j) == {c \in Tasks \cup Parts : Pusher(c) = j}

\* Mutant: the limit of the queue worker is not set.
LimitOfRunnerOnly(q) == IF q = "runner" THEN RunnerLimit ELSE Threads
Limit(q) ==
  IF q = "runner" THEN RunnerLimit
  ELSE IF q = "worker" THEN WorkerLimit ELSE Threads

\* A schedule or a request starts a run.
CanSubmit(r) == job[r] = "none"
Submit(r) == CanSubmit(r) /\ job' = [job EXCEPT ![r] = "queued"]

\* A running job pushes another job it will wait for.
Pushing(j) == job[j] = "running"
CanPush(c) == job[c] = "none" /\ Pushing(Pusher(c))
Push(c) == CanPush(c) /\ job' = [job EXCEPT ![c] = "queued"]

\* A free thread takes a job whose queue is below its limit.
CanFetch(j) ==
  /\ job[j] = "queued"
  /\ Cardinality(In("running")) < Threads
  /\ Cardinality({i \in In("running") : QueueOf[i] = QueueOf[j]}) < Limit(QueueOf[j])
Fetch(j) == CanFetch(j) /\ job' = [job EXCEPT ![j] = "running"]

\* Mutant: no answer of the status ends the wait.
AwaitedForever(c) == TRUE
Awaited(c) == job[c] # "over"

\* A job ends when those it waits for are over.
CanFinish(j) == job[j] = "running" /\ \A c \in Children(j) : ~Awaited(c)
Finish(j) == CanFinish(j) /\ job' = [job EXCEPT ![j] = "over"]

\* A job fails, or its queue does not exist, or its process is replaced: it is
\* over without having pushed or awaited all its jobs.
Fail(j) == job[j] = "running" /\ job' = [job EXCEPT ![j] = "over"]

PoolNext ==
  \/ \E r \in Runs : Submit(r)
  \/ \E c \in Tasks \cup Parts : Push(c)
  \/ \E j \in Jobs : Fetch(j) \/ Finish(j) \/ Fail(j)

PoolSpec == PoolInit /\ [][PoolNext]_poolVars

\* Threads fetch while there is something to fetch, and running jobs run on.
FairPoolSpec ==
  /\ PoolSpec
  /\ \A c \in Tasks \cup Parts : WF_poolVars(Push(c))
  /\ \A j \in Jobs : WF_poolVars(Fetch(j)) /\ WF_poolVars(Finish(j))

-----------------------------------------------------------------------------
\* Every job is in a stage, and one that was pushed has a pusher that was
\* started.
PoolTypeOK ==
  /\ job \in [Jobs -> Stages]
  /\ \A c \in Tasks \cup Parts :
       job[c] # "none" => job[Pusher(c)] \in {"running", "over"}

\* The jobs never all wait for each other: while one is queued or running, a
\* thread can go on with one (the purpose of process_limit, sidekiq.rb:58).
NeverStuck ==
  In("queued") \cup In("running") # {} =>
    \/ \E c \in Tasks \cup Parts : CanPush(c)
    \/ \E j \in Jobs : CanFetch(j) \/ CanFinish(j)

\* Jobs that may wait never occupy all threads ("Prevent runners and workers
\* from taking all the workers", sidekiq.rb:58).
ThreadsAreLeft ==
  Cardinality({j \in In("running") : j \in Runs \cup Tasks}) < Threads

\* Every run that is submitted ends.
RunsEnd == \A r \in Runs : job[r] = "queued" ~> job[r] = "over"
=============================================================================
