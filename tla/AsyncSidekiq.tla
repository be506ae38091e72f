---------------------------- MODULE AsyncSidekiq ----------------------------
(***************************************************************************)
(* A task that fans its work out to one Sidekiq job per result and joins   *)
(* them again (lib/scumblr_tasks/async_sidekiq.rb): the parent, running    *)
(* inside a TaskWorker job, the AsyncSidekiqWorker jobs, and the Redis     *)
(* keys "<jid>:..." through which they communicate.                        *)
(*                                                                         *)
(* The keys results:created and results:updated are written, read and      *)
(* deleted side by side; the one set "results" stands for both.  The       *)
(* progress display and the trend counters are left out.  Sidekiq and      *)
(* sidekiq-status are as in TaskRunner.                                    *)
(***************************************************************************)
EXTENDS Naturals, FiniteSets

CONSTANTS Results,   \* the results the task works on (@results)
          Slice      \* how many jobs one push_bulk carries (10000)

ASSUME AsyncAssumption == IsFiniteSet(Results) /\ Slice \in Nat \ {0}

VARIABLES
  ppc,          \* where the parent is in run
  toPush,       \* ids plucked but not pushed yet
  workers,      \* @workers: jobs still waited for
  unchecked,    \* those this pass of delete_if has not reached yet
  tracked,      \* jobs that ever were in @workers
  parentError,  \* did the parent write an Error event?
  metadata,     \* the lists stored in the task's metadata at the end
  options,      \* is the key options present?
  redis,        \* the sets events:Error, events:errors and results
  job,          \* what has really become of each job
  status,       \* its sidekiq-status key
  lapsed,       \* jobs whose status key lapsed while they were unfinished
  saved,        \* results a worker has created or updated
  erred         \* jobs that wrote an Error event

parent == <<ppc, toPush, workers, unchecked, tracked, parentError, metadata>>
jobs   == <<job, status, lapsed, saved, erred>>
vars   == <<parent, options, redis, jobs>>

Waiting  == {"begin", "queue", "pushing", "polling", "reading", "deleting"}
Stopped  == {"done", "noQueue", "failed", "killed"}
Jobs     == {"none", "inq", "fetched", "running", "working", "ended"}
Active   == {"fetched", "running", "working"}
Pending  == {"queued", "working"}
Statuses == Pending \cup {"nil", "complete", "interrupted"}
Keys     == {"Error", "errors", "results"}

TypeOK ==
  /\ ppc \in Waiting \cup Stopped
  /\ toPush \in SUBSET Results
  /\ tracked \in SUBSET Results
  /\ workers \in SUBSET tracked
  /\ unchecked \in SUBSET workers
  /\ parentError \in BOOLEAN
  /\ metadata \in [{"errors", "results"} -> SUBSET Results]
  /\ options \in BOOLEAN
  /\ redis \in [Keys -> SUBSET Results]
  /\ job \in [Results -> Jobs]
  /\ status \in [Results -> Statuses]
  /\ lapsed \in SUBSET Results
  /\ saved \in SUBSET Results
  /\ erred \in SUBSET Results

Init ==
  /\ ppc = "begin"
  /\ toPush = Results
  /\ workers = {} /\ unchecked = {} /\ tracked = {}
  /\ parentError = FALSE
  /\ metadata = [k \in {"errors", "results"} |-> {}]
  /\ options = FALSE
  /\ redis = [k \in Keys |-> {}]
  /\ job = [r \in Results |-> "none"]
  /\ status = [r \in Results |-> "nil"]
  /\ lapsed = {} /\ saved = {} /\ erred = {}

-----------------------------------------------------------------------------
(* AsyncSidekiq#run                                                        *)

StoreOptions ==
  /\ ppc = "begin"
  /\ options' = TRUE
  /\ ppc' = "queue"
  /\ UNCHANGED <<toPush, workers, unchecked, tracked, parentError, metadata,
                 redis, jobs>>

\* Mutant: the rescue only logs.
AfterRescueSilent == parentError
\* rescue => e: create_error(e).
AfterRescue == TRUE

\* No process serves the queue: an error, and run returns at once.  When the
\* query raises, the rescue goes on to wait for no job at all.
CheckQueue ==
  /\ ppc = "queue"
  /\ \/ ppc' = "pushing" /\ UNCHANGED parentError
     \/ ppc' = "noQueue" /\ parentError' = TRUE
     \/ ppc' = "polling" /\ parentError' = AfterRescue
  /\ UNCHANGED <<toPush, workers, unchecked, tracked, metadata,
                 options, redis, jobs>>

\* each_slice: full slices, then the rest.
IsSlice(S) ==
  /\ S # {}
  /\ Cardinality(S) = Slice \/ (S = toPush /\ Cardinality(S) < Slice)

PushSlice ==
  /\ ppc = "pushing"
  /\ \E S \in SUBSET toPush :
       /\ IsSlice(S)
       /\ toPush' = toPush \ S
       /\ workers' = workers \cup S
       /\ tracked' = tracked \cup S
       /\ job' = [r \in Results |-> IF r \in S THEN "inq" ELSE job[r]]
       /\ status' = [r \in Results |-> IF r \in S THEN "queued" ELSE status[r]]
  /\ UNCHANGED <<ppc, unchecked, parentError, metadata, options, redis,
                 lapsed, saved, erred>>

\* push_bulk raises: the client middleware has written the statuses, the
\* multi may or may not have been executed, and @workers has none of the
\* slice.  The rescue goes on to wait for the slices before.
PushSliceRaises ==
  /\ ppc = "pushing"
  /\ \E S \in SUBSET toPush :
       /\ IsSlice(S)
       /\ status' = [r \in Results |-> IF r \in S THEN "queued" ELSE status[r]]
       /\ job' \in {job, [r \in Results |-> IF r \in S THEN "inq" ELSE job[r]]}
  /\ parentError' = AfterRescue
  /\ ppc' = "polling"
  /\ unchecked' = workers
  /\ UNCHANGED <<toPush, workers, tracked, metadata, options, redis,
                 lapsed, saved, erred>>

EndPushing ==
  /\ ppc = "pushing"
  /\ toPush = {}
  /\ ppc' = "polling"
  /\ unchecked' = workers
  /\ UNCHANGED <<toPush, workers, tracked, parentError, metadata,
                 options, redis, jobs>>

\* Mutant: only "complete" ends the wait.
AwaitedUntilResult(r) == status[r] # "complete"
\* Mutant: "queued" ends the wait.
AwaitedOnceWorking(r) == status[r] = "working"
\* A job is waited for while its status says queued or working.
Awaited(r) == status[r] \in Pending

\* One turn of delete_if; a job that is done also loses its status key.
UncheckedAfter(r) == unchecked \ {r}

CheckWorker(r) ==
  /\ ppc = "polling"
  /\ r \in unchecked
  /\ unchecked' = UncheckedAfter(r)
  /\ IF Awaited(r)
       THEN UNCHANGED <<workers, status>>
       ELSE /\ workers' = workers \ {r}
            /\ status' = [status EXCEPT ![r] = "nil"]
  /\ UNCHANGED <<ppc, toPush, tracked, parentError, metadata, options, redis,
                 job, lapsed, saved, erred>>

EndPass ==
  /\ ppc = "polling"
  /\ unchecked = {}
  /\ ppc' = IF workers = {} THEN "reading" ELSE "polling"
  /\ unchecked' = workers
  /\ UNCHANGED <<toPush, workers, tracked, parentError, metadata,
                 options, redis, jobs>>

\* The smembers calls.  The errors are read from events:errors.
ReadKeys ==
  /\ ppc = "reading"
  /\ metadata' = [errors |-> redis["errors"], results |-> redis["results"]]
  /\ ppc' = "deleting"
  /\ UNCHANGED <<toPush, workers, unchecked, tracked, parentError,
                 options, redis, jobs>>

\* The keys named in the del call, besides options.
Deleted == {"errors", "results"}

DeleteKeys ==
  /\ ppc = "deleting"
  /\ redis' = [k \in Keys |-> IF k \in Deleted THEN {} ELSE redis[k]]
  /\ options' = FALSE
  /\ ppc' = "done"
  /\ UNCHANGED <<toPush, workers, unchecked, tracked, parentError, metadata,
                 jobs>>

\* An exception outside the begin block around the pushes is rescued by Base#start.
ParentRaises ==
  /\ ppc \in Waiting \ {"queue", "pushing"}
  /\ ppc' = "failed"
  /\ parentError' = TRUE
  /\ UNCHANGED <<toPush, workers, unchecked, tracked, metadata,
                 options, redis, jobs>>

KillParent ==
  /\ ppc \in Waiting
  /\ ppc' = "killed"
  /\ UNCHANGED <<toPush, workers, unchecked, tracked, parentError, metadata,
                 options, redis, jobs>>

-----------------------------------------------------------------------------
(* AsyncSidekiqWorker#perform                                              *)

Fetch(r) ==
  /\ job[r] = "inq"
  /\ job' = [job EXCEPT ![r] = "fetched"]
  /\ UNCHANGED <<parent, options, redis, status, lapsed, saved, erred>>

Start(r) ==
  /\ job[r] = "fetched"
  /\ job' = [job EXCEPT ![r] = "running"]
  /\ status' = [status EXCEPT ![r] = "working"]
  /\ UNCHANGED <<parent, options, redis, lapsed, saved, erred>>

ReadOptions(r) ==
  /\ job[r] = "running"
  /\ options
  /\ job' = [job EXCEPT ![r] = "working"]
  /\ UNCHANGED <<parent, options, redis, status, lapsed, saved, erred>>

\* create_error adds the event to events:Error; perform then returns
\* normally.  It is called when the options cannot be read (always so when
\* the key is gone), when a setting is missing and when perform_work raises,
\* which includes Sidekiq::Shutdown.
WorkerError(r) ==
  /\ job[r] \in {"running", "working"}
  /\ erred' = erred \cup {r}
  /\ redis' = [redis EXCEPT !["Error"] = @ \cup {r}]
  /\ job' = [job EXCEPT ![r] = "ended"]
  /\ status' = [status EXCEPT ![r] = "complete"]
  /\ UNCHANGED <<parent, options, lapsed, saved>>

\* perform_work saves a result; the callback of Result adds it to the set.
Save(r) ==
  /\ job[r] = "working"
  /\ saved' = saved \cup {r}
  /\ redis' = [redis EXCEPT !["results"] = @ \cup {r}]
  /\ UNCHANGED <<parent, options, job, status, lapsed, erred>>

Return(r) ==
  /\ job[r] = "working"
  /\ job' = [job EXCEPT ![r] = "ended"]
  /\ status' = [status EXCEPT ![r] = "complete"]
  /\ UNCHANGED <<parent, options, redis, lapsed, saved, erred>>

\* The process of a fetched job is terminated, and the job is not requeued.
Terminate(r) ==
  /\ job[r] \in Active
  /\ job' = [job EXCEPT ![r] = "ended"]
  /\ \/ UNCHANGED status
     \/ job[r] # "fetched" /\ status' = [status EXCEPT ![r] = "interrupted"]
  /\ UNCHANGED <<parent, options, redis, lapsed, saved, erred>>

Lapse(r) ==
  /\ status[r] \in Pending
  /\ status' = [status EXCEPT ![r] = "nil"]
  /\ lapsed' = lapsed \cup {r}
  /\ UNCHANGED <<parent, options, redis, job, saved, erred>>

-----------------------------------------------------------------------------
ParentStep ==
  \/ StoreOptions \/ CheckQueue \/ PushSlice \/ EndPushing
  \/ EndPass \/ ReadKeys \/ DeleteKeys
  \/ \E r \in Results : CheckWorker(r)

ParentFails == PushSliceRaises \/ ParentRaises \/ KillParent

Work(r) == ReadOptions(r) \/ WorkerError(r) \/ Return(r)

JobStep(r) ==
  Fetch(r) \/ Start(r) \/ Work(r) \/ Save(r) \/ Terminate(r) \/ Lapse(r)

Next == ParentStep \/ ParentFails \/ \E r \in Results : JobStep(r)

Spec == Init /\ [][Next]_vars

\* A job that is not inside perform cannot refresh its key.
LapseIdle(r) == job[r] \notin {"running", "working"} /\ Lapse(r)

\* The parent's thread is scheduled, perform_work returns, idle keys lapse.
FairSpec ==
  /\ Spec
  /\ WF_vars(ParentStep)
  /\ \A r \in Results : WF_vars(Work(r)) /\ WF_vars(LapseIdle(r))

-----------------------------------------------------------------------------
(* Properties                                                              *)

Unfinished(r) == job[r] \in Active \cup {"inq"}
OnTime(r) == r \in tracked /\ r \notin lapsed

\* The parent deletes the options only after the join: a job it tracks finds
\* them, whenever it gets to run, unless its status key lapsed first.
OptionsOutliveWorkers == \A r \in Results : Unfinished(r) /\ OnTime(r) => options

\* What a tracked job saved is on its way into the task's metadata or is
\* already there: run reads the sets only when those jobs have ended.
SavedIsReported ==
  \A r \in saved : OnTime(r) =>
    IF ppc = "done" THEN r \in metadata["results"] ELSE r \in redis["results"]

\* Once the task is done, Redis keeps no result of it, unless of jobs that
\* the parent had lost sight of.
ResultsCleanedUp == ppc = "done" => \A r \in redis["results"] : ~OnTime(r)

\* A result gets no tracked job only if the parent wrote an error.
NoneSkippedSilently == ppc = "done" => tracked = Results \/ parentError

\* The wait loop ends, although jobs may be terminated or never fetched.
ParentEnds == <>(ppc \in Stopped)

\* "Setup event hash for storing event types and IDs with tasks" (base.rb):
\* the errors of a run's jobs are in the task's metadata when it is done.
ErrorsReported ==
  ppc = "done" => \A r \in erred : OnTime(r) => r \in metadata["errors"]
=============================================================================
