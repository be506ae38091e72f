------------------------------- MODULE TaskRun -------------------------------
(***************************************************************************)
(* How a run of a task learns which results it saved.                      *)
(*                                                                         *)
(* Result's callbacks note every save in the locals of the thread that     *)
(* saves (result.rb:118-157): under current_results when the thread has a  *)
(* current_task, else in the Redis sets of the AsyncSidekiq parent named by *)
(* sidekiq_job_id.  Task#perform_task moves the notes into the metadata of *)
(* the task when the run ends.  Sidekiq's threads outlive their jobs, so   *)
(* what one job leaves in the locals the next one finds.                   *)
(*                                                                         *)
(* A note is a pair of the job that saved and the URL of the result; the   *)
(* code keeps only the id of the result, so that `by' is a history field.  *)
(* current_events and previous_events go the same way and are left out.    *)
(***************************************************************************)
EXTENDS Naturals, FiniteSets

CONSTANTS Threads, Tasks, Urls,
          Jobs,
          KindOf,    \* the class of each job
          TaskOf,    \* the task of a TaskWorker job, and of a part's parent
          ParentOf,  \* the parent of a part
          Unset,     \* the jobs whose class lacks a setting it requires
          Escaping,  \* the jobs that an exception may end outside Base#start
          None

Kinds == {"sync", "provider", "async", "part", "screenshot"}
Parts == {j \in Jobs : KindOf[j] = "part"}
Runs  == {j \in Jobs : KindOf[j] \in {"sync", "provider", "async"}}

ASSUME TaskRunAssumption ==
  /\ KindOf \in [Jobs -> Kinds]
  /\ TaskOf \in [Runs \cup Parts -> Tasks]
  /\ ParentOf \in [Parts -> Jobs]
  /\ \A p \in Parts : KindOf[ParentOf[p]] = "async" /\ TaskOf[p] = TaskOf[ParentOf[p]]
  /\ Unset \subseteq Runs /\ Escaping \subseteq Runs
  /\ None \notin Tasks \cup Jobs /\ \A N \in SUBSET (Jobs \X Urls) : N # None

VARIABLES
  on,      \* what each thread does: the place, the job, its copy of the task
  local,   \* Thread.current: current_task, sidekiq_job_id, current_results
  redis,   \* <jid>:results:updated and <jid>:results:created
  row,     \* the task's metadata in the database
  over,    \* the jobs that have ended
  escaped, \* the jobs an exception ended (history)
  saves    \* every save so far (history)

vars == <<on, local, redis, row, over, escaped, saves>>

Notes == Jobs \X Urls
Lists == [current : SUBSET Notes, previous : SUBSET Notes,
          status : {"", "Success", "Failed"}]
NoLists == [current |-> {}, previous |-> {}, status |-> ""]
Idle == [pc |-> "idle", job |-> None, mem |-> NoLists]

Init ==
  /\ on = [t \in Threads |-> Idle]
  /\ local = [t \in Threads |-> [task |-> None, parent |-> None, results |-> None]]
  /\ redis = [j \in Jobs |-> {}]
  /\ row = [k \in Tasks |-> NoLists]
  /\ over = {} /\ escaped = {} /\ saves = {}

At(t, p) == on[t].pc = p
Kind(t) == KindOf[on[t].job]
Taken(j) == j \in over \/ \E t \in Threads : on[t].job = j
PartsOf(j) == {p \in Parts : ParentOf[p] = j}

-----------------------------------------------------------------------------
(* result.rb: the callbacks of a save.                                     *)

Noted(results, n) == IF results = None THEN {n} ELSE results \cup {n}

Save(t) ==
  \E u \in Urls :
    LET n == <<on[t].job, u>> IN
    /\ n \notin saves    \* a bound: each job saves a result once
    /\ saves' = saves \cup {n}
    /\ IF local[t].task # None
         THEN /\ local' = [local EXCEPT ![t].results = Noted(@, n)]
              /\ UNCHANGED redis
       ELSE IF local[t].parent # None
         THEN /\ redis' = [redis EXCEPT ![local[t].parent] = @ \cup {n}]
              /\ UNCHANGED local
       ELSE UNCHANGED <<local, redis>>
    /\ UNCHANGED <<on, row, over, escaped>>

-----------------------------------------------------------------------------
(* TaskWorker#perform and Task#perform_task.                               *)

\* Task.find.
LoadTask(t, j) ==
  /\ At(t, "idle") /\ ~Taken(j) /\ j \in Runs
  /\ on' = [on EXCEPT ![t] = [pc |-> "loaded", job |-> j, mem |-> row[TaskOf[j]]]]
  /\ UNCHANGED <<local, redis, row, over, escaped, saves>>

Go(t, p, m) == on' = [on EXCEPT ![t].pc = p, ![t].mem = m]
Store(t, m) == row' = [row EXCEPT ![TaskOf[on[t].job]] = m]

\* "Each time the task runs, all result data is moved into the previous key."
Moved(m) == IF m.current = {} THEN m
            ELSE [m EXCEPT !.previous = m.current, !.current = {}]

Refused == {j \in Unset : KindOf[j] = "provider"}

\* A provider looks for its settings before it does anything else.
Refuse(t) ==
  /\ At(t, "loaded") /\ on[t].job \in Refused
  /\ Go(t, "failed", on[t].mem)
  /\ UNCHANGED <<local, redis, row, over, escaped, saves>>

Tracked(l, k) == [l EXCEPT !.task = k]
\* Mutant: an AsyncSidekiq run keeps the locals as the last run left them.
StillTracked(l) == l
\* "Remove Thread.current tracking"
Untracked(l) == [l EXCEPT !.task = None, !.results = None]

\* The constructor names the task to the thread, moves the last lists and
\* saves; Base looks for the settings then.  It may raise, and so may what a
\* class adds to it.  AsyncSidekiq's takes the tracking back when Base's has
\* returned.
Initialize(t) ==
  LET m == Moved(on[t].mem)
      l == Tracked(local[t], TaskOf[on[t].job])
  IN
  /\ At(t, "loaded") /\ on[t].job \notin Refused
  /\ \/ Go(t, "failed", m) /\ local' = [local EXCEPT ![t] = l]
     \/ /\ on[t].job \notin Unset
        /\ \E p \in {"created", "failed"} : Go(t, p, m)
        /\ local' = [local EXCEPT ![t] = IF Kind(t) = "async" THEN Untracked(l) ELSE l]
  /\ Store(t, m)
  /\ UNCHANGED <<redis, over, escaped, saves>>

\* Base#start; SearchProvider's start leaves sidekiq_job_id as it is.
Start(t) ==
  /\ At(t, "created")
  /\ local' = [local EXCEPT ![t].parent = IF Kind(t) = "provider" THEN @ ELSE None]
  /\ Go(t, IF Kind(t) = "async" THEN "waiting" ELSE "running", on[t].mem)
  /\ UNCHANGED <<redis, row, over, escaped, saves>>

\* AsyncSidekiq#run reads what its workers noted and deletes the keys.
Collect(t) ==
  /\ At(t, "waiting") /\ PartsOf(on[t].job) \subseteq over
  /\ Go(t, "running", [on[t].mem EXCEPT !.current = redis[on[t].job]])
  /\ redis' = [redis EXCEPT ![on[t].job] = {}]
  /\ UNCHANGED <<local, row, over, escaped, saves>>

\* run returns, with a list of results or without.  Base#start rescues what
\* run raises and returns nil: that is a success, too.
Complete(t) ==
  LET m == [on[t].mem EXCEPT !.status = "Success"] IN
  /\ At(t, "running")
  /\ \E p \in {"importing", "ending"} :
       Go(t, p, m) /\ (Kind(t) = "async" => p = "ending")
  /\ Store(t, m)
  /\ UNCHANGED <<local, redis, over, escaped, saves>>

\* A search provider's run raises: its start rescues nothing.
ProviderRaises(t) ==
  /\ At(t, "running") /\ Kind(t) = "provider"
  /\ Go(t, "failed", on[t].mem)
  /\ UNCHANGED <<local, redis, row, over, escaped, saves>>

\* perform_task's rescue.
Fail(t) ==
  LET m == [on[t].mem EXCEPT !.status = "Failed"] IN
  /\ At(t, "failed")
  /\ Go(t, "ending", m)
  /\ Store(t, m)
  /\ UNCHANGED <<local, redis, over, escaped, saves>>

\* The loop over the results that run returned is over.
Imported(t) ==
  /\ At(t, "importing")
  /\ Go(t, "ending", on[t].mem)
  /\ UNCHANGED <<local, redis, row, over, escaped, saves>>

\* The symbol key "current_results" is merged beside the string key, and wins
\* when the column is encoded.
Merged(m, results) ==
  IF results = None THEN m ELSE [m EXCEPT !.current = results]

\* Mutant: the notes stay.
ClearedTaskOnly(l) == [l EXCEPT !.task = None]
Cleared(l) == [l EXCEPT !.task = None, !.results = {}]

\* The notes go into the metadata, the locals are cleared, the task is saved.
Record(t) ==
  LET m == Merged(on[t].mem, local[t].results) IN
  /\ At(t, "ending")
  /\ Store(t, m)
  /\ local' = [local EXCEPT ![t] = Cleared(@)]
  /\ on' = [on EXCEPT ![t] = Idle]
  /\ over' = over \cup {on[t].job}
  /\ UNCHANGED <<redis, escaped, saves>>

\* An exception outside Base#start, in the loop over the results or in a save
\* of the task: TaskWorker's rescue ends the job, and the locals stay.
Escape(t) ==
  /\ on[t].pc \in {"importing", "ending"} /\ on[t].job \in Escaping
  /\ on' = [on EXCEPT ![t] = Idle]
  /\ over' = over \cup {on[t].job}
  /\ escaped' = escaped \cup {on[t].job}
  /\ UNCHANGED <<local, redis, row, saves>>

-----------------------------------------------------------------------------
\* AsyncSidekiqWorker#perform names its parent to the thread, and leaves the
\* name there ("# Thread.current["sidekiq_job_id"] = nil" in its ensure).
StartPart(t, j) ==
  /\ At(t, "idle") /\ ~Taken(j) /\ j \in Parts
  /\ \E s \in Threads : At(s, "waiting") /\ on[s].job = ParentOf[j]
  /\ on' = [on EXCEPT ![t] = [pc |-> "working", job |-> j, mem |-> NoLists]]
  /\ local' = [local EXCEPT ![t].parent = ParentOf[j]]
  /\ UNCHANGED <<redis, row, over, escaped, saves>>

\* ScreenshotRunner#perform.
StartScreenshot(t, j) ==
  /\ At(t, "idle") /\ ~Taken(j) /\ KindOf[j] = "screenshot"
  /\ on' = [on EXCEPT ![t] = [pc |-> "working", job |-> j, mem |-> NoLists]]
  /\ UNCHANGED <<local, redis, row, over, escaped, saves>>

EndJob(t) ==
  /\ At(t, "working")
  /\ on' = [on EXCEPT ![t] = Idle]
  /\ over' = over \cup {on[t].job}
  /\ UNCHANGED <<local, redis, row, escaped, saves>>

Next ==
  \E t \in Threads :
    \/ \E j \in Jobs : LoadTask(t, j) \/ StartPart(t, j) \/ StartScreenshot(t, j)
    \/ Refuse(t) \/ Initialize(t) \/ Start(t) \/ Collect(t) \/ Complete(t) \/ ProviderRaises(t)
    \/ Fail(t) \/ Imported(t) \/ Record(t) \/ Escape(t) \/ EndJob(t)
    \/ on[t].pc \in {"running", "importing", "working"} /\ Save(t)

Spec == Init /\ [][Next]_vars

-----------------------------------------------------------------------------
Places == {"idle", "loaded", "created", "waiting", "running", "importing",
           "failed", "ending", "working"}

TypeOK ==
  /\ on \in [Threads -> [pc : Places, job : Jobs \cup {None}, mem : Lists]]
  /\ local \in [Threads -> [task : Tasks \cup {None}, parent : Jobs \cup {None},
                            results : {None} \cup SUBSET Notes]]
  /\ redis \in [Jobs -> SUBSET Notes]
  /\ row \in [Tasks -> Lists]
  /\ over \subseteq Jobs /\ escaped \subseteq over /\ saves \subseteq Notes

Listed(k) == row[k].current \cup row[k].previous
Foreign(k) == {n \in Listed(k) : n[1] \notin Runs \cup Parts \/ TaskOf[n[1]] # k}

\* The lists of a task name saves of another job only after a run escaped, or
\* when a screenshot job saved on a thread that had run a worker, however
\* jobs of all kinds share threads and run at the same time.  Until a run
\* escapes, no thread outside a run has a current task.
ForeignExplained ==
  escaped = {} =>
    /\ \A k \in Tasks : \A n \in Foreign(k) : KindOf[n[1]] = "screenshot"
    /\ \A t \in Threads : on[t].pc \in {"idle", "loaded", "working"} => local[t].task = None

Ending(t) == At(t, "ending") /\ over' # over /\ escaped' = escaped
             /\ on[t].job \in over'
SavesOf(js) == {n \in saves : n[1] \in js}
\* A run that saves results itself has every one of them in its list when it
\* ends, and nothing else if no run escaped, whatever ran on its thread before
\* and on other threads meanwhile, runs of the same task included.  A provider
\* that lacks a setting is the exception: it raises before it moves the lists,
\* and leaves the saves of the last run as those of this one, or empties the
\* list, as its thread has it.  A run of an AsyncSidekiq task has the saves of
\* its workers there, if no run escaped.
OwnSavesRecorded ==
  [][\A t \in Threads : Ending(t) =>
       LET list  == row'[TaskOf[on[t].job]].current
           mine  == SavesOf({on[t].job})
           parts == SavesOf(PartsOf(on[t].job))
       IN IF Kind(t) # "async"
            THEN /\ mine \subseteq list
                 /\ escaped = {} => list = mine \/ on[t].job \in Refused
            ELSE escaped = {} => parts \subseteq list]_vars
=============================================================================
