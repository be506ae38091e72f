----------------------------- MODULE TaskRunner -----------------------------
(***************************************************************************)
(* One run of the TaskRunner job (app/workers/task_runner.rb), the         *)
(* TaskWorker jobs it pushes (app/workers/task_worker.rb) and the          *)
(* sidekiq-status key of each job, the only thing the runner looks at      *)
(* while it waits.  A run pushes one job per task, so a job is named by    *)
(* its task.                                                               *)
(*                                                                         *)
(* Redis, Sidekiq and sidekiq-status are modelled as this code uses them:  *)
(* a fetched job is no longer in Redis, a terminated process does not put  *)
(* it back (bulk_requeue is overridden), a status key lapses one day after *)
(* it was last written, and any call to Redis or the database may raise.   *)
(***************************************************************************)
EXTENDS Naturals, FiniteSets

CONSTANTS Tasks,        \* the rows of the tasks table
          GroupOf,      \* their "group" column
          CustomQueue   \* the tasks with a sidekiq_queue option

ASSUME TasksAssumption ==
  /\ IsFiniteSet(Tasks)
  /\ GroupOf \in [Tasks -> Nat]
  /\ CustomQueue \subseteq Tasks

VARIABLES
  row,        \* state of each row of tasks
  request,    \* the task_ids argument of the job, {} when blank
  customUp,   \* does a live Sidekiq process serve the custom queue?
  rpc,        \* where the runner is in perform
  selected,   \* the tasks of task_groups
  left,       \* those of the groups not begun yet
  toPush,     \* those of the current group not pushed yet
  workers,    \* the workers array: jobs still waited for
  unchecked,  \* those this pass of delete_if has not reached yet
  count,      \* the count of completed tasks shown to the user
  job,        \* what has really become of each job
  status,     \* its sidekiq-status key, "nil" when absent
  runs,       \* how often perform was entered for it
  performed,  \* tasks whose perform_task returned
  lapsed,     \* jobs whose status key lapsed while they were unfinished
  events      \* the Fatal rows of the events table

runner == <<rpc, selected, left, toPush, workers, unchecked, count>>
jobs   == <<job, status, runs, performed, lapsed>>
env    == <<row, request, customUp>>
vars   == <<env, runner, jobs, events>>

Rows     == {"scheduled", "off", "deleted"}
Running  == {"begin", "groups", "pushing", "polling"}
Ended    == {"done", "rescued", "failed", "killed"}
Jobs     == {"none", "inq", "fetched", "running", "ended"}
Pending  == {"queued", "working"}
Statuses == Pending \cup {"nil", "complete", "failed", "interrupted"}
Events   == [source : {"TaskRunner", "TaskWorker"}, task : Tasks]
              \cup [source : {"TaskRunner"}]

TypeOK ==
  /\ row \in [Tasks -> Rows]
  /\ request \in SUBSET Tasks
  /\ customUp \in BOOLEAN
  /\ rpc \in Running \cup Ended
  /\ selected \in SUBSET Tasks
  /\ left \in SUBSET selected
  /\ toPush \in SUBSET selected
  /\ workers \in SUBSET selected
  /\ unchecked \in SUBSET workers
  /\ count \in Nat
  /\ job \in [Tasks -> Jobs]
  /\ status \in [Tasks -> Statuses]
  /\ runs \in [Tasks -> Nat]
  /\ performed \in SUBSET Tasks
  /\ lapsed \in SUBSET Tasks
  /\ events \in SUBSET Events

Init ==
  /\ row \in [Tasks -> {"scheduled", "off"}]
  /\ request \in SUBSET Tasks
  /\ customUp \in BOOLEAN
  /\ rpc = "begin"
  /\ selected = {} /\ left = {} /\ toPush = {}
  /\ workers = {} /\ unchecked = {}
  /\ count = 0
  /\ job = [t \in Tasks |-> "none"]
  /\ status = [t \in Tasks |-> "nil"]
  /\ runs = [t \in Tasks |-> 0]
  /\ performed = {} /\ lapsed = {} /\ events = {}

-----------------------------------------------------------------------------
(* TaskRunner#perform                                                      *)

\* task_groups: without ids the enabled scheduled tasks, with ids exactly
\* those rows, enabled or not.
Selection ==
  IF request = {} THEN {t \in Tasks : row[t] = "scheduled"}
                  ELSE {t \in request : row[t] # "deleted"}

Prepare ==
  /\ rpc = "begin"
  /\ selected' = Selection
  /\ left' = Selection
  /\ rpc' = "groups"
  /\ UNCHANGED <<toPush, workers, unchecked, count, env, jobs, events>>

\* Mutant: the groups are not worked through by number.
InFirstGroupUnsorted(t) == TRUE
\* task_groups is sorted by group: the next one has the smallest number.
InFirstGroup(t) == \A u \in left : GroupOf[t] <= GroupOf[u]

BeginGroup ==
  /\ rpc = "groups"
  /\ \E t \in left :
       /\ InFirstGroup(t)
       /\ toPush' = {u \in left : GroupOf[u] = GroupOf[t]}
       /\ left' = {u \in left : GroupOf[u] # GroupOf[t]}
  /\ rpc' = "pushing"
  /\ UNCHANGED <<selected, workers, unchecked, count, env, jobs, events>>

\* perform_async: the client middleware writes the status, then the job is
\* pushed and its id joins workers.
Push(t) ==
  /\ rpc = "pushing"
  /\ t \in toPush
  /\ t \in CustomQueue => customUp
  /\ toPush' = toPush \ {t}
  /\ workers' = workers \cup {t}
  /\ job' = [job EXCEPT ![t] = "inq"]
  /\ status' = [status EXCEPT ![t] = "queued"]
  /\ UNCHANGED <<rpc, selected, left, unchecked, count,
                 runs, performed, lapsed, env, events>>

FatalOf(src, t) == events \cup {[source |-> src, task |-> t]}

NotFoundEvent(t) == FatalOf("TaskRunner", t)

\* The queue a task names is served by no process: the task is given up.
QueueNotFound(t) ==
  /\ rpc = "pushing"
  /\ t \in toPush \cap CustomQueue
  /\ ~customUp
  /\ toPush' = toPush \ {t}
  /\ events' = NotFoundEvent(t)
  /\ UNCHANGED <<rpc, selected, left, workers, unchecked, count, env, jobs>>

\* Mutant: one pass over the workers, then on.
AfterPassUnconditional == "groups"
\* The condition of the while loop.
AfterPass == IF workers = {} THEN "groups" ELSE "polling"

\* The while loop is entered, or skipped when nothing was pushed.
EndPushing ==
  /\ rpc = "pushing"
  /\ toPush = {}
  /\ rpc' = AfterPass
  /\ unchecked' = workers
  /\ UNCHANGED <<selected, left, toPush, workers, count, env, jobs, events>>

\* Mutant: only "complete" and "failed" end the wait.
AwaitedUntilResult(t) == status[t] \notin {"complete", "failed"}
\* Whatever is neither queued nor working counts as completed: complete,
\* failed, interrupted, and no status at all.
Awaited(t) == status[t] \in Pending

\* Mutant: the worker stays in the list of the pass.
UncheckedAfterKept(t) == unchecked
\* delete_if goes over each worker of the pass once.
UncheckedAfter(t) == unchecked \ {t}

CheckWorker(t) ==
  /\ rpc = "polling"
  /\ t \in unchecked
  /\ unchecked' = UncheckedAfter(t)
  /\ IF Awaited(t)
       THEN UNCHANGED <<workers, count>>
       ELSE /\ workers' = workers \ {t}
            /\ count' = count + 1
  /\ UNCHANGED <<rpc, selected, left, toPush, env, jobs, events>>

\* End of a pass and of its sleep: another pass, or the next group.
EndPass ==
  /\ rpc = "polling"
  /\ unchecked = {}
  /\ rpc' = AfterPass
  /\ unchecked' = workers
  /\ UNCHANGED <<selected, left, toPush, workers, count, env, jobs, events>>

Finish ==
  /\ rpc = "groups"
  /\ left = {}
  /\ rpc' = "done"
  /\ UNCHANGED <<selected, left, toPush, workers, unchecked, count,
                 env, jobs, events>>

\* rescue => e: a Fatal event and the end of the run, whatever is left of
\* it; when the event cannot be written either, the job itself fails.
Rescue ==
  \/ /\ rpc' = "rescued"
     /\ events' = events \cup {[source |-> "TaskRunner"]}
  \/ /\ rpc' = "failed"
     /\ UNCHANGED events

RunnerRaises ==
  /\ rpc \in Running
  /\ Rescue
  /\ UNCHANGED <<selected, left, toPush, workers, unchecked, count, env, jobs>>

\* perform_async raises half way: the status may already be written, and a
\* push that timed out may have reached Redis all the same.
PushRaises(t) ==
  /\ rpc = "pushing"
  /\ t \in toPush
  /\ t \in CustomQueue => customUp
  /\ status' = [status EXCEPT ![t] = "queued"]
  /\ job' \in {job, [job EXCEPT ![t] = "inq"]}
  /\ Rescue
  /\ UNCHANGED <<selected, left, toPush, workers, unchecked, count,
                 runs, performed, lapsed, env>>

\* The runner's process is terminated.  Sidekiq::Shutdown is no
\* StandardError, so nothing is rescued, and the job is not requeued.
KillRunner ==
  /\ rpc \in Running
  /\ rpc' = "killed"
  /\ UNCHANGED <<selected, left, toPush, workers, unchecked, count,
                 env, jobs, events>>

-----------------------------------------------------------------------------
(* The TaskWorker jobs                                                     *)

Fetch(t) ==
  /\ job[t] = "inq"
  /\ t \in CustomQueue => customUp
  /\ job' = [job EXCEPT ![t] = "fetched"]
  /\ UNCHANGED <<status, runs, performed, lapsed, env, runner, events>>

\* The server middleware writes "working" (also over a lapsed key) and
\* enters perform.
Start(t) ==
  /\ job[t] = "fetched"
  /\ job' = [job EXCEPT ![t] = "running"]
  /\ status' = [status EXCEPT ![t] = "working"]
  /\ runs' = [runs EXCEPT ![t] = @ + 1]
  /\ UNCHANGED <<performed, lapsed, env, runner, events>>

\* Task.find and perform_task both return.
Perform(t) ==
  /\ job[t] = "running"
  /\ row[t] # "deleted"
  /\ job' = [job EXCEPT ![t] = "ended"]
  /\ status' = [status EXCEPT ![t] = "complete"]
  /\ performed' = performed \cup {t}
  /\ UNCHANGED <<runs, lapsed, env, runner, events>>

\* Mutant: the rescue writes no event.
WorkerEventDropped(t) == events
WorkerEvent(t) == FatalOf("TaskWorker", t)

\* Task.find or perform_task raises, or Sidekiq::Shutdown arrives inside the
\* begin block: "rescue Exception" writes a Fatal event and returns
\* normally, so the job's status is "complete".
WorkerRaises(t) ==
  /\ job[t] = "running"
  /\ job' = [job EXCEPT ![t] = "ended"]
  /\ status' = [status EXCEPT ![t] = "complete"]
  /\ events' = WorkerEvent(t)
  /\ UNCHANGED <<runs, performed, lapsed, env, runner>>

\* The rescue's own Event.create raises: the middleware writes "failed".
WorkerRescueRaises(t) ==
  /\ job[t] = "running"
  /\ job' = [job EXCEPT ![t] = "ended"]
  /\ status' = [status EXCEPT ![t] = "failed"]
  /\ UNCHANGED <<runs, performed, lapsed, env, runner, events>>

\* Mutant: Sidekiq's own bulk_requeue.
AfterTerminationRequeued == "inq"
\* bulk_requeue is overridden to do nothing; Sidekiq's own pushes the jobs of
\* a stopping process back onto their queues.
AfterTermination == "ended"

\* The process of a fetched job is terminated.  The job is gone: nothing is
\* pushed back.  Killed outright it leaves its status as it was; shut down
\* outside the begin block it leaves "interrupted".
Terminate(t) ==
  /\ job[t] \in {"fetched", "running"}
  /\ job' = [job EXCEPT ![t] = AfterTermination]
  /\ \/ UNCHANGED status
     \/ /\ job[t] = "running"
        /\ status' = [status EXCEPT ![t] = "interrupted"]
  /\ UNCHANGED <<runs, performed, lapsed, env, runner, events>>

\* A day without a write to the key of an unfinished job.
Lapse(t) ==
  /\ status[t] \in Pending
  /\ status' = [status EXCEPT ![t] = "nil"]
  /\ lapsed' = lapsed \cup {t}
  /\ UNCHANGED <<job, runs, performed, env, runner, events>>

-----------------------------------------------------------------------------
(* The web interface and the other processes                               *)

EditTask(t) ==
  /\ \/ row[t] = "scheduled" /\ row' = [row EXCEPT ![t] = "off"]
     \/ row[t] # "deleted" /\ row' = [row EXCEPT ![t] = "deleted"]
  /\ UNCHANGED <<request, customUp, runner, jobs, events>>

ProcessesChange ==
  /\ customUp' = ~customUp
  /\ UNCHANGED <<row, request, runner, jobs, events>>

-----------------------------------------------------------------------------
RunnerStep ==
  \/ Prepare \/ BeginGroup \/ EndPushing \/ EndPass \/ Finish
  \/ \E t \in Tasks : Push(t) \/ QueueNotFound(t) \/ CheckWorker(t)

RunnerFails == RunnerRaises \/ KillRunner \/ \E t \in Tasks : PushRaises(t)

Return(t) == Perform(t) \/ WorkerRaises(t) \/ WorkerRescueRaises(t)

JobStep(t) == Fetch(t) \/ Start(t) \/ Return(t) \/ Terminate(t) \/ Lapse(t)

Environment == ProcessesChange \/ \E t \in Tasks : EditTask(t)

Next ==
  \/ RunnerStep
  \/ RunnerFails
  \/ \E t \in Tasks : JobStep(t)
  \/ Environment

Spec == Init /\ [][Next]_vars

\* A job that is not running cannot refresh its key, so the key does lapse.
LapseIdle(t) == job[t] # "running" /\ Lapse(t)

\* The runner's thread is scheduled; a running job returns (the tasks' own
\* loops end); an idle key lapses.  Nothing is assumed of processes, of the
\* queue being served, or of failures.
FairSpec ==
  /\ Spec
  /\ WF_vars(RunnerStep)
  /\ \A t \in Tasks : WF_vars(Return(t)) /\ WF_vars(LapseIdle(t))

-----------------------------------------------------------------------------
(* Properties                                                              *)

Skipped == {t \in selected : [source |-> "TaskRunner", task |-> t] \in events}
Over(t) == job[t] = "ended" \/ t \in lapsed

\* The loop of perform waits for a whole group before the next one: once a
\* task's job exists, no task of a smaller group is still to be pushed, and
\* each of their jobs has ended, unless its status key lapsed meanwhile.
GroupBarrier ==
  \A t, u \in selected :
    GroupOf[t] < GroupOf[u] /\ job[u] # "none"
      => t \notin left \cup toPush /\ (job[t] # "none" => Over(t))

\* The progress numbers of "Tasks complete: count/total": until the run is
\* cut short, every selected task is counted, waited for, still to be pushed
\* or reported as not runnable, and is only one of these.
AccountedFor ==
  rpc \in (Running \ {"begin"}) \cup {"done"} =>
    count + Cardinality(workers) + Cardinality(toPush)
          + Cardinality(left) + Cardinality(Skipped) = Cardinality(selected)

\* A run that reaches its end has dealt with every selected task: its job is
\* over, or a Fatal event says why there was none.  And although TaskWorker
\* swallows every exception, so that "complete" does not mean that the task
\* ran, a task that is complete ran or has a Fatal event of TaskWorker.
NothingForgotten ==
  /\ rpc = "done" => \A t \in selected : Over(t) \/ t \in Skipped
  /\ \A t \in Tasks : status[t] = "complete" =>
       t \in performed \/ [source |-> "TaskWorker", task |-> t] \in events

\* config/initializers/sidekiq.rb: "We do not want jobs to be pushed back onto
\* the queue if sidekiq is terminated" - no task is performed twice by a run.
AtMostOnce == \A t \in Tasks : runs[t] <= 1

\* A run ends, whatever happens to the jobs it waits for, because lost and
\* never fetched jobs lose their status key.
RunEnds == <>(rpc \in Ended)

\* The runner implements the ordered groups of OrderedGroups.
Phase == [t \in Tasks |->
            IF t \notin selected           THEN "out"
            ELSE IF t \in left \cup toPush THEN "waiting"
            ELSE IF t \in workers          THEN "released" ELSE "settled"]
Groups == INSTANCE OrderedGroups
            WITH phase <- Phase, open <- rpc \in Running \cup {"done"}

\* perform releases the tasks group by group, as OrderedGroups says: nothing
\* is pushed while a job of a smaller group is in workers, or after the end.
GroupsInOrder == Groups!Spec
=============================================================================
