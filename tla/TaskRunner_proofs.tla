-------------------------- MODULE TaskRunner_proofs --------------------------
(***************************************************************************)
(* Theorems about TaskRunner for every finite set of tasks and every       *)
(* assignment of groups and queues.                                        *)
(***************************************************************************)
EXTENDS TaskRunner, FiniteSetTheorems, TLAPS

Uncut == Running \cup {"done"}

\* Where the run stands decides which of its sets are still occupied.
Stage ==
  /\ rpc = "begin" =>
       /\ selected = {} /\ left = {}
       /\ \A t \in Tasks : job[t] = "none"
  /\ rpc \in {"begin", "groups"} => toPush = {} /\ workers = {}
  /\ rpc = "polling" => toPush = {}
  /\ rpc = "done" => left = {} /\ toPush = {} /\ workers = {}

\* The groups not begun have larger numbers than the current one, to which
\* everything to be pushed or waited for belongs.
OneGroupAtATime ==
  /\ \A t \in toPush \cup workers : \A u \in left : GroupOf[t] < GroupOf[u]
  /\ \A t, u \in toPush \cup workers : GroupOf[t] = GroupOf[u]
  /\ \A t \in left : t \notin toPush \cup workers
  /\ \A t \in toPush : t \notin workers

\* Groups are pushed in order, and a task still to be pushed has no job
\* unless its push is what ended the run.
PushedInOrder ==
  /\ \A t \in left \cup toPush : \A u \in selected :
       job[u] # "none" => GroupOf[u] <= GroupOf[t]
  /\ rpc \in Uncut => \A t \in left \cup toPush : job[t] = "none"

\* The status key does not say that an unfinished job is over, and a job that
\* the runner no longer waits for is over.
StatusTellsTruth ==
  /\ \A t \in Tasks :
       job[t] \in {"inq", "fetched", "running"} /\ t \notin lapsed
         => status[t] \in Pending
  /\ \A t \in workers : job[t] # "none"
  /\ rpc \in Uncut =>
       \A t \in selected : job[t] # "none" /\ t \notin workers => Over(t)

\* Every selected task is somewhere.
Covered ==
  rpc \in Uncut => \A t \in selected :
    t \in left \cup toPush \cup workers \/ Over(t) \/ t \in Skipped

\* perform is entered only after the one push of a job.
RunsMatchJob ==
  \A t \in Tasks :
    /\ job[t] \in {"none", "inq", "fetched"} => runs[t] = 0
    /\ runs[t] <= 1

\* "complete" is explained by a return of perform_task or by an event.
CompleteExplained ==
  \A t \in Tasks : status[t] = "complete" =>
    t \in performed \/ [source |-> "TaskWorker", task |-> t] \in events

IInv ==
  /\ TypeOK /\ Stage /\ OneGroupAtATime /\ PushedInOrder
  /\ StatusTellsTruth /\ Covered /\ RunsMatchJob /\ CompleteExplained
  /\ GroupBarrier

-----------------------------------------------------------------------------
\* Every step keeps the types; Prepare does because the sets of the current
\* group are still empty then.
LEMMA TypeStep ==
  ASSUME IInv, [Next]_vars
  PROVE  TypeOK'
<1> USE DEF vars, runner, jobs, env, IInv, Stage, TypeOK, Rows, Running,
            Ended, Jobs, Pending, Statuses, Events
<1>1. CASE Prepare
  <2>1. Selection \in SUBSET Tasks
    BY DEF Selection
  <2> QED BY <1>1, <2>1 DEF Prepare
<1>2. CASE BeginGroup
  BY <1>2 DEF BeginGroup, InFirstGroup
<1>3. CASE EndPushing
  BY <1>3 DEF EndPushing, AfterPass
<1>4. CASE EndPass
  BY <1>4 DEF EndPass, AfterPass
<1>5. CASE Finish
  BY <1>5 DEF Finish
<1>6. ASSUME NEW t \in Tasks, Push(t) PROVE TypeOK'
  BY <1>6 DEF Push
<1>7. ASSUME NEW t \in Tasks, QueueNotFound(t) PROVE TypeOK'
  BY <1>7 DEF QueueNotFound, NotFoundEvent, FatalOf
<1>8. ASSUME NEW t \in Tasks, CheckWorker(t) PROVE TypeOK'
  BY <1>8 DEF CheckWorker, UncheckedAfter, Awaited
<1>9. CASE RunnerRaises
  BY <1>9 DEF RunnerRaises, Rescue
<1>10. CASE KillRunner
  BY <1>10 DEF KillRunner
<1>11. ASSUME NEW t \in Tasks, PushRaises(t) PROVE TypeOK'
  BY <1>11 DEF PushRaises, Rescue
<1>12. ASSUME NEW t \in Tasks, Fetch(t) PROVE TypeOK'
  BY <1>12 DEF Fetch
<1>13. ASSUME NEW t \in Tasks, Start(t) PROVE TypeOK'
  BY <1>13 DEF Start
<1>14. ASSUME NEW t \in Tasks, Perform(t) PROVE TypeOK'
  BY <1>14 DEF Perform
<1>15. ASSUME NEW t \in Tasks, WorkerRaises(t) PROVE TypeOK'
  BY <1>15 DEF WorkerRaises, WorkerEvent, FatalOf
<1>16. ASSUME NEW t \in Tasks, WorkerRescueRaises(t) PROVE TypeOK'
  BY <1>16 DEF WorkerRescueRaises
<1>17. ASSUME NEW t \in Tasks, Terminate(t) PROVE TypeOK'
  BY <1>17 DEF Terminate, AfterTermination
<1>18. ASSUME NEW t \in Tasks, Lapse(t) PROVE TypeOK'
  BY <1>18 DEF Lapse
<1>19. CASE ProcessesChange
  BY <1>19 DEF ProcessesChange
<1>20. ASSUME NEW t \in Tasks, EditTask(t) PROVE TypeOK'
  BY <1>20 DEF EditTask
<1>21. CASE UNCHANGED vars
  BY <1>21
<1> QED
  BY <1>1, <1>2, <1>3, <1>4, <1>5, <1>6, <1>7, <1>8, <1>9, <1>10, <1>11,
     <1>12, <1>13, <1>14, <1>15, <1>16, <1>17, <1>18, <1>19, <1>20,
     <1>21
  DEF Next, RunnerStep, RunnerFails, JobStep, Return, Environment

\* Every step keeps the table of which sets are empty at which stage.
LEMMA StageStep ==
  ASSUME IInv, [Next]_vars
  PROVE  Stage'
<1> USE DEF vars, runner, jobs, env, IInv, TypeOK, Stage, Running, Ended
<1>1. CASE Prepare
  BY <1>1 DEF Prepare, Selection
<1>2. CASE BeginGroup
  BY <1>2 DEF BeginGroup, InFirstGroup
<1>3. CASE EndPushing
  BY <1>3 DEF EndPushing, AfterPass
<1>4. CASE EndPass
  BY <1>4 DEF EndPass, AfterPass
<1>5. CASE Finish
  BY <1>5 DEF Finish
<1>6. ASSUME NEW t \in Tasks, Push(t) PROVE Stage'
  BY <1>6 DEF Push
<1>7. ASSUME NEW t \in Tasks, QueueNotFound(t) PROVE Stage'
  BY <1>7 DEF QueueNotFound, NotFoundEvent, FatalOf
<1>8. ASSUME NEW t \in Tasks, CheckWorker(t) PROVE Stage'
  BY <1>8 DEF CheckWorker, UncheckedAfter, Awaited
<1>9. CASE RunnerRaises
  BY <1>9 DEF RunnerRaises, Rescue
<1>10. CASE KillRunner
  BY <1>10 DEF KillRunner
<1>11. ASSUME NEW t \in Tasks, PushRaises(t) PROVE Stage'
  BY <1>11 DEF PushRaises, Rescue
<1>12. ASSUME NEW t \in Tasks, Fetch(t) PROVE Stage'
  BY <1>12 DEF Fetch
<1>13. ASSUME NEW t \in Tasks, Start(t) PROVE Stage'
  BY <1>13 DEF Start
<1>14. ASSUME NEW t \in Tasks, Perform(t) PROVE Stage'
  BY <1>14 DEF Perform
<1>15. ASSUME NEW t \in Tasks, WorkerRaises(t) PROVE Stage'
  BY <1>15 DEF WorkerRaises, WorkerEvent, FatalOf
<1>16. ASSUME NEW t \in Tasks, WorkerRescueRaises(t) PROVE Stage'
  BY <1>16 DEF WorkerRescueRaises
<1>17. ASSUME NEW t \in Tasks, Terminate(t) PROVE Stage'
  BY <1>17 DEF Terminate, AfterTermination
<1>18. ASSUME NEW t \in Tasks, Lapse(t) PROVE Stage'
  BY <1>18 DEF Lapse
<1>19. CASE ProcessesChange
  BY <1>19 DEF ProcessesChange
<1>20. ASSUME NEW t \in Tasks, EditTask(t) PROVE Stage'
  BY <1>20 DEF EditTask
<1>21. CASE UNCHANGED vars
  BY <1>21
<1> QED
  BY <1>1, <1>2, <1>3, <1>4, <1>5, <1>6, <1>7, <1>8, <1>9, <1>10, <1>11,
     <1>12, <1>13, <1>14, <1>15, <1>16, <1>17, <1>18, <1>19, <1>20,
     <1>21
  DEF Next, RunnerStep, RunnerFails, JobStep, Return, Environment

\* BeginGroup takes a whole smallest group out of left, so what is current
\* has one number and what is left has larger ones.
LEMMA OneGroupStep ==
  ASSUME IInv, [Next]_vars
  PROVE  OneGroupAtATime'
<1> USE TasksAssumption DEF vars, runner, jobs, env, IInv, TypeOK, Stage,
            OneGroupAtATime, Running, Ended
<1>1. CASE Prepare
  BY <1>1 DEF Prepare, Selection
<1>2. CASE BeginGroup
  BY <1>2 DEF BeginGroup, InFirstGroup
<1>3. CASE EndPushing
  BY <1>3 DEF EndPushing, AfterPass
<1>4. CASE EndPass
  BY <1>4 DEF EndPass, AfterPass
<1>5. CASE Finish
  BY <1>5 DEF Finish
<1>6. ASSUME NEW t \in Tasks, Push(t) PROVE OneGroupAtATime'
  BY <1>6 DEF Push
<1>7. ASSUME NEW t \in Tasks, QueueNotFound(t) PROVE OneGroupAtATime'
  BY <1>7 DEF QueueNotFound, NotFoundEvent, FatalOf
<1>8. ASSUME NEW t \in Tasks, CheckWorker(t) PROVE OneGroupAtATime'
  BY <1>8 DEF CheckWorker, UncheckedAfter, Awaited
<1>9. CASE RunnerRaises
  BY <1>9 DEF RunnerRaises, Rescue
<1>10. CASE KillRunner
  BY <1>10 DEF KillRunner
<1>11. ASSUME NEW t \in Tasks, PushRaises(t) PROVE OneGroupAtATime'
  BY <1>11 DEF PushRaises, Rescue
<1>12. ASSUME NEW t \in Tasks, Fetch(t) PROVE OneGroupAtATime'
  BY <1>12 DEF Fetch
<1>13. ASSUME NEW t \in Tasks, Start(t) PROVE OneGroupAtATime'
  BY <1>13 DEF Start
<1>14. ASSUME NEW t \in Tasks, Perform(t) PROVE OneGroupAtATime'
  BY <1>14 DEF Perform
<1>15. ASSUME NEW t \in Tasks, WorkerRaises(t) PROVE OneGroupAtATime'
  BY <1>15 DEF WorkerRaises, WorkerEvent, FatalOf
<1>16. ASSUME NEW t \in Tasks, WorkerRescueRaises(t) PROVE OneGroupAtATime'
  BY <1>16 DEF WorkerRescueRaises
<1>17. ASSUME NEW t \in Tasks, Terminate(t) PROVE OneGroupAtATime'
  BY <1>17 DEF Terminate, AfterTermination
<1>18. ASSUME NEW t \in Tasks, Lapse(t) PROVE OneGroupAtATime'
  BY <1>18 DEF Lapse
<1>19. CASE ProcessesChange
  BY <1>19 DEF ProcessesChange
<1>20. ASSUME NEW t \in Tasks, EditTask(t) PROVE OneGroupAtATime'
  BY <1>20 DEF EditTask
<1>21. CASE UNCHANGED vars
  BY <1>21
<1> QED
  BY <1>1, <1>2, <1>3, <1>4, <1>5, <1>6, <1>7, <1>8, <1>9, <1>10, <1>11,
     <1>12, <1>13, <1>14, <1>15, <1>16, <1>17, <1>18, <1>19, <1>20,
     <1>21
  DEF Next, RunnerStep, RunnerFails, JobStep, Return, Environment

\* A push is of the current group, hence in order.
LEMMA PushedStep ==
  ASSUME IInv, [Next]_vars
  PROVE  PushedInOrder'
<1> USE TasksAssumption DEF vars, runner, jobs, env, IInv, TypeOK, Stage,
            OneGroupAtATime, PushedInOrder, Uncut, Running, Ended, Jobs
<1>1. CASE Prepare
  BY <1>1 DEF Prepare, Selection
<1>2. CASE BeginGroup
  BY <1>2 DEF BeginGroup, InFirstGroup
<1>3. CASE EndPushing
  BY <1>3 DEF EndPushing, AfterPass
<1>4. CASE EndPass
  BY <1>4 DEF EndPass, AfterPass
<1>5. CASE Finish
  BY <1>5 DEF Finish
<1>6. ASSUME NEW t \in Tasks, Push(t) PROVE PushedInOrder'
  BY <1>6 DEF Push
<1>7. ASSUME NEW t \in Tasks, QueueNotFound(t) PROVE PushedInOrder'
  BY <1>7 DEF QueueNotFound, NotFoundEvent, FatalOf
<1>8. ASSUME NEW t \in Tasks, CheckWorker(t) PROVE PushedInOrder'
  BY <1>8 DEF CheckWorker, UncheckedAfter, Awaited
<1>9. CASE RunnerRaises
  BY <1>9 DEF RunnerRaises, Rescue
<1>10. CASE KillRunner
  BY <1>10 DEF KillRunner
<1>11. ASSUME NEW t \in Tasks, PushRaises(t) PROVE PushedInOrder'
  BY <1>11 DEF PushRaises, Rescue
<1>12. ASSUME NEW t \in Tasks, Fetch(t) PROVE PushedInOrder'
  BY <1>12 DEF Fetch
<1>13. ASSUME NEW t \in Tasks, Start(t) PROVE PushedInOrder'
  BY <1>13 DEF Start
<1>14. ASSUME NEW t \in Tasks, Perform(t) PROVE PushedInOrder'
  BY <1>14 DEF Perform
<1>15. ASSUME NEW t \in Tasks, WorkerRaises(t) PROVE PushedInOrder'
  BY <1>15 DEF WorkerRaises, WorkerEvent, FatalOf
<1>16. ASSUME NEW t \in Tasks, WorkerRescueRaises(t) PROVE PushedInOrder'
  BY <1>16 DEF WorkerRescueRaises
<1>17. ASSUME NEW t \in Tasks, Terminate(t) PROVE PushedInOrder'
  BY <1>17 DEF Terminate, AfterTermination
<1>18. ASSUME NEW t \in Tasks, Lapse(t) PROVE PushedInOrder'
  BY <1>18 DEF Lapse
<1>19. CASE ProcessesChange
  BY <1>19 DEF ProcessesChange
<1>20. ASSUME NEW t \in Tasks, EditTask(t) PROVE PushedInOrder'
  BY <1>20 DEF EditTask
<1>21. CASE UNCHANGED vars
  BY <1>21
<1> QED
  BY <1>1, <1>2, <1>3, <1>4, <1>5, <1>6, <1>7, <1>8, <1>9, <1>10, <1>11,
     <1>12, <1>13, <1>14, <1>15, <1>16, <1>17, <1>18, <1>19, <1>20,
     <1>21
  DEF Next, RunnerStep, RunnerFails, JobStep, Return, Environment

\* A status is written before its job can be fetched, final statuses are
\* written when the job ends, and CheckWorker drops a job on that evidence.
LEMMA StatusStep ==
  ASSUME IInv, [Next]_vars
  PROVE  StatusTellsTruth'
<1> USE DEF vars, runner, jobs, env, IInv, TypeOK, Stage, OneGroupAtATime,
            PushedInOrder, StatusTellsTruth, Over, Uncut, Running, Ended,
            Jobs, Pending, Statuses
<1>1. CASE Prepare
  BY <1>1 DEF Prepare, Selection
<1>2. CASE BeginGroup
  BY <1>2 DEF BeginGroup, InFirstGroup
<1>3. CASE EndPushing
  BY <1>3 DEF EndPushing, AfterPass
<1>4. CASE EndPass
  BY <1>4 DEF EndPass, AfterPass
<1>5. CASE Finish
  BY <1>5 DEF Finish
<1>6. ASSUME NEW t \in Tasks, Push(t) PROVE StatusTellsTruth'
  BY <1>6 DEF Push
<1>7. ASSUME NEW t \in Tasks, QueueNotFound(t) PROVE StatusTellsTruth'
  BY <1>7 DEF QueueNotFound, NotFoundEvent, FatalOf
<1>8. ASSUME NEW t \in Tasks, CheckWorker(t) PROVE StatusTellsTruth'
  BY <1>8 DEF CheckWorker, UncheckedAfter, Awaited
<1>9. CASE RunnerRaises
  BY <1>9 DEF RunnerRaises, Rescue
<1>10. CASE KillRunner
  BY <1>10 DEF KillRunner
<1>11. ASSUME NEW t \in Tasks, PushRaises(t) PROVE StatusTellsTruth'
  BY <1>11 DEF PushRaises, Rescue
<1>12. ASSUME NEW t \in Tasks, Fetch(t) PROVE StatusTellsTruth'
  BY <1>12 DEF Fetch
<1>13. ASSUME NEW t \in Tasks, Start(t) PROVE StatusTellsTruth'
  BY <1>13 DEF Start
<1>14. ASSUME NEW t \in Tasks, Perform(t) PROVE StatusTellsTruth'
  BY <1>14 DEF Perform
<1>15. ASSUME NEW t \in Tasks, WorkerRaises(t) PROVE StatusTellsTruth'
  BY <1>15 DEF WorkerRaises, WorkerEvent, FatalOf
<1>16. ASSUME NEW t \in Tasks, WorkerRescueRaises(t) PROVE StatusTellsTruth'
  BY <1>16 DEF WorkerRescueRaises
<1>17. ASSUME NEW t \in Tasks, Terminate(t) PROVE StatusTellsTruth'
  BY <1>17 DEF Terminate, AfterTermination
<1>18. ASSUME NEW t \in Tasks, Lapse(t) PROVE StatusTellsTruth'
  BY <1>18 DEF Lapse
<1>19. CASE ProcessesChange
  BY <1>19 DEF ProcessesChange
<1>20. ASSUME NEW t \in Tasks, EditTask(t) PROVE StatusTellsTruth'
  BY <1>20 DEF EditTask
<1>21. CASE UNCHANGED vars
  BY <1>21
<1> QED
  BY <1>1, <1>2, <1>3, <1>4, <1>5, <1>6, <1>7, <1>8, <1>9, <1>10, <1>11,
     <1>12, <1>13, <1>14, <1>15, <1>16, <1>17, <1>18, <1>19, <1>20,
     <1>21
  DEF Next, RunnerStep, RunnerFails, JobStep, Return, Environment

\* A task leaves toPush for workers or with an event, and leaves workers
\* only when its job is over.
LEMMA CoveredStep ==
  ASSUME IInv, [Next]_vars
  PROVE  Covered'
<1> USE DEF vars, runner, jobs, env, IInv, TypeOK, Stage, PushedInOrder,
            StatusTellsTruth, Covered, Skipped, Over, Uncut, Running, Ended,
            Jobs, Pending, Statuses
<1>1. CASE Prepare
  BY <1>1 DEF Prepare, Selection
<1>2. CASE BeginGroup
  BY <1>2 DEF BeginGroup, InFirstGroup
<1>3. CASE EndPushing
  BY <1>3 DEF EndPushing, AfterPass
<1>4. CASE EndPass
  BY <1>4 DEF EndPass, AfterPass
<1>5. CASE Finish
  BY <1>5 DEF Finish
<1>6. ASSUME NEW t \in Tasks, Push(t) PROVE Covered'
  BY <1>6 DEF Push
<1>7. ASSUME NEW t \in Tasks, QueueNotFound(t) PROVE Covered'
  BY <1>7 DEF QueueNotFound, NotFoundEvent, FatalOf
<1>8. ASSUME NEW t \in Tasks, CheckWorker(t) PROVE Covered'
  BY <1>8 DEF CheckWorker, UncheckedAfter, Awaited
<1>9. CASE RunnerRaises
  BY <1>9 DEF RunnerRaises, Rescue
<1>10. CASE KillRunner
  BY <1>10 DEF KillRunner
<1>11. ASSUME NEW t \in Tasks, PushRaises(t) PROVE Covered'
  BY <1>11 DEF PushRaises, Rescue
<1>12. ASSUME NEW t \in Tasks, Fetch(t) PROVE Covered'
  BY <1>12 DEF Fetch
<1>13. ASSUME NEW t \in Tasks, Start(t) PROVE Covered'
  BY <1>13 DEF Start
<1>14. ASSUME NEW t \in Tasks, Perform(t) PROVE Covered'
  BY <1>14 DEF Perform
<1>15. ASSUME NEW t \in Tasks, WorkerRaises(t) PROVE Covered'
  BY <1>15 DEF WorkerRaises, WorkerEvent, FatalOf
<1>16. ASSUME NEW t \in Tasks, WorkerRescueRaises(t) PROVE Covered'
  BY <1>16 DEF WorkerRescueRaises
<1>17. ASSUME NEW t \in Tasks, Terminate(t) PROVE Covered'
  BY <1>17 DEF Terminate, AfterTermination
<1>18. ASSUME NEW t \in Tasks, Lapse(t) PROVE Covered'
  BY <1>18 DEF Lapse
<1>19. CASE ProcessesChange
  BY <1>19 DEF ProcessesChange
<1>20. ASSUME NEW t \in Tasks, EditTask(t) PROVE Covered'
  BY <1>20 DEF EditTask
<1>21. CASE UNCHANGED vars
  BY <1>21
<1> QED
  BY <1>1, <1>2, <1>3, <1>4, <1>5, <1>6, <1>7, <1>8, <1>9, <1>10, <1>11,
     <1>12, <1>13, <1>14, <1>15, <1>16, <1>17, <1>18, <1>19, <1>20,
     <1>21
  DEF Next, RunnerStep, RunnerFails, JobStep, Return, Environment

\* A job is in the queue once, because its task leaves toPush when pushed.
LEMMA RunsStep ==
  ASSUME IInv, [Next]_vars
  PROVE  RunsMatchJob'
<1> USE DEF vars, runner, jobs, env, IInv, TypeOK, PushedInOrder,
            RunsMatchJob, Uncut, Running, Jobs
<1>1. CASE Prepare
  BY <1>1 DEF Prepare, Selection
<1>2. CASE BeginGroup
  BY <1>2 DEF BeginGroup, InFirstGroup
<1>3. CASE EndPushing
  BY <1>3 DEF EndPushing, AfterPass
<1>4. CASE EndPass
  BY <1>4 DEF EndPass, AfterPass
<1>5. CASE Finish
  BY <1>5 DEF Finish
<1>6. ASSUME NEW t \in Tasks, Push(t) PROVE RunsMatchJob'
  BY <1>6 DEF Push
<1>7. ASSUME NEW t \in Tasks, QueueNotFound(t) PROVE RunsMatchJob'
  BY <1>7 DEF QueueNotFound, NotFoundEvent, FatalOf
<1>8. ASSUME NEW t \in Tasks, CheckWorker(t) PROVE RunsMatchJob'
  BY <1>8 DEF CheckWorker, UncheckedAfter, Awaited
<1>9. CASE RunnerRaises
  BY <1>9 DEF RunnerRaises, Rescue
<1>10. CASE KillRunner
  BY <1>10 DEF KillRunner
<1>11. ASSUME NEW t \in Tasks, PushRaises(t) PROVE RunsMatchJob'
  BY <1>11 DEF PushRaises, Rescue
<1>12. ASSUME NEW t \in Tasks, Fetch(t) PROVE RunsMatchJob'
  BY <1>12 DEF Fetch
<1>13. ASSUME NEW t \in Tasks, Start(t) PROVE RunsMatchJob'
  BY <1>13 DEF Start
<1>14. ASSUME NEW t \in Tasks, Perform(t) PROVE RunsMatchJob'
  BY <1>14 DEF Perform
<1>15. ASSUME NEW t \in Tasks, WorkerRaises(t) PROVE RunsMatchJob'
  BY <1>15 DEF WorkerRaises, WorkerEvent, FatalOf
<1>16. ASSUME NEW t \in Tasks, WorkerRescueRaises(t) PROVE RunsMatchJob'
  BY <1>16 DEF WorkerRescueRaises
<1>17. ASSUME NEW t \in Tasks, Terminate(t) PROVE RunsMatchJob'
  BY <1>17 DEF Terminate, AfterTermination
<1>18. ASSUME NEW t \in Tasks, Lapse(t) PROVE RunsMatchJob'
  BY <1>18 DEF Lapse
<1>19. CASE ProcessesChange
  BY <1>19 DEF ProcessesChange
<1>20. ASSUME NEW t \in Tasks, EditTask(t) PROVE RunsMatchJob'
  BY <1>20 DEF EditTask
<1>21. CASE UNCHANGED vars
  BY <1>21
<1> QED
  BY <1>1, <1>2, <1>3, <1>4, <1>5, <1>6, <1>7, <1>8, <1>9, <1>10, <1>11,
     <1>12, <1>13, <1>14, <1>15, <1>16, <1>17, <1>18, <1>19, <1>20,
     <1>21
  DEF Next, RunnerStep, RunnerFails, JobStep, Return, Environment

\* Only the two ways out of perform write "complete", and events stay.
LEMMA CompleteStep ==
  ASSUME IInv, [Next]_vars
  PROVE  CompleteExplained'
<1> USE DEF vars, runner, jobs, env, IInv, TypeOK, CompleteExplained, Jobs,
            Statuses, Pending
<1>1. CASE Prepare
  BY <1>1 DEF Prepare, Selection
<1>2. CASE BeginGroup
  BY <1>2 DEF BeginGroup, InFirstGroup
<1>3. CASE EndPushing
  BY <1>3 DEF EndPushing, AfterPass
<1>4. CASE EndPass
  BY <1>4 DEF EndPass, AfterPass
<1>5. CASE Finish
  BY <1>5 DEF Finish
<1>6. ASSUME NEW t \in Tasks, Push(t) PROVE CompleteExplained'
  BY <1>6 DEF Push
<1>7. ASSUME NEW t \in Tasks, QueueNotFound(t) PROVE CompleteExplained'
  BY <1>7 DEF QueueNotFound, NotFoundEvent, FatalOf
<1>8. ASSUME NEW t \in Tasks, CheckWorker(t) PROVE CompleteExplained'
  BY <1>8 DEF CheckWorker, UncheckedAfter, Awaited
<1>9. CASE RunnerRaises
  BY <1>9 DEF RunnerRaises, Rescue
<1>10. CASE KillRunner
  BY <1>10 DEF KillRunner
<1>11. ASSUME NEW t \in Tasks, PushRaises(t) PROVE CompleteExplained'
  BY <1>11 DEF PushRaises, Rescue
<1>12. ASSUME NEW t \in Tasks, Fetch(t) PROVE CompleteExplained'
  BY <1>12 DEF Fetch
<1>13. ASSUME NEW t \in Tasks, Start(t) PROVE CompleteExplained'
  BY <1>13 DEF Start
<1>14. ASSUME NEW t \in Tasks, Perform(t) PROVE CompleteExplained'
  BY <1>14 DEF Perform
<1>15. ASSUME NEW t \in Tasks, WorkerRaises(t) PROVE CompleteExplained'
  BY <1>15 DEF WorkerRaises, WorkerEvent, FatalOf
<1>16. ASSUME NEW t \in Tasks, WorkerRescueRaises(t) PROVE CompleteExplained'
  BY <1>16 DEF WorkerRescueRaises
<1>17. ASSUME NEW t \in Tasks, Terminate(t) PROVE CompleteExplained'
  BY <1>17 DEF Terminate, AfterTermination
<1>18. ASSUME NEW t \in Tasks, Lapse(t) PROVE CompleteExplained'
  BY <1>18 DEF Lapse
<1>19. CASE ProcessesChange
  BY <1>19 DEF ProcessesChange
<1>20. ASSUME NEW t \in Tasks, EditTask(t) PROVE CompleteExplained'
  BY <1>20 DEF EditTask
<1>21. CASE UNCHANGED vars
  BY <1>21
<1> QED
  BY <1>1, <1>2, <1>3, <1>4, <1>5, <1>6, <1>7, <1>8, <1>9, <1>10, <1>11,
     <1>12, <1>13, <1>14, <1>15, <1>16, <1>17, <1>18, <1>19, <1>20,
     <1>21
  DEF Next, RunnerStep, RunnerFails, JobStep, Return, Environment

\* When a task is pushed the jobs of smaller groups are not in workers, so
\* they are over by StatusTellsTruth.
LEMMA BarrierStep ==
  ASSUME IInv, [Next]_vars
  PROVE  GroupBarrier'
<1> USE TasksAssumption DEF vars, runner, jobs, env, IInv, TypeOK, Stage,
            OneGroupAtATime, PushedInOrder, StatusTellsTruth, GroupBarrier,
            Over, Uncut, Running, Ended, Jobs
<1>1. CASE Prepare
  BY <1>1 DEF Prepare, Selection
<1>2. CASE BeginGroup
  BY <1>2 DEF BeginGroup, InFirstGroup
<1>3. CASE EndPushing
  BY <1>3 DEF EndPushing, AfterPass
<1>4. CASE EndPass
  BY <1>4 DEF EndPass, AfterPass
<1>5. CASE Finish
  BY <1>5 DEF Finish
<1>6. ASSUME NEW t \in Tasks, Push(t) PROVE GroupBarrier'
  BY <1>6 DEF Push
<1>7. ASSUME NEW t \in Tasks, QueueNotFound(t) PROVE GroupBarrier'
  BY <1>7 DEF QueueNotFound, NotFoundEvent, FatalOf
<1>8. ASSUME NEW t \in Tasks, CheckWorker(t) PROVE GroupBarrier'
  BY <1>8 DEF CheckWorker, UncheckedAfter, Awaited
<1>9. CASE RunnerRaises
  BY <1>9 DEF RunnerRaises, Rescue
<1>10. CASE KillRunner
  BY <1>10 DEF KillRunner
<1>11. ASSUME NEW t \in Tasks, PushRaises(t) PROVE GroupBarrier'
  BY <1>11 DEF PushRaises, Rescue
<1>12. ASSUME NEW t \in Tasks, Fetch(t) PROVE GroupBarrier'
  BY <1>12 DEF Fetch
<1>13. ASSUME NEW t \in Tasks, Start(t) PROVE GroupBarrier'
  BY <1>13 DEF Start
<1>14. ASSUME NEW t \in Tasks, Perform(t) PROVE GroupBarrier'
  BY <1>14 DEF Perform
<1>15. ASSUME NEW t \in Tasks, WorkerRaises(t) PROVE GroupBarrier'
  BY <1>15 DEF WorkerRaises, WorkerEvent, FatalOf
<1>16. ASSUME NEW t \in Tasks, WorkerRescueRaises(t) PROVE GroupBarrier'
  BY <1>16 DEF WorkerRescueRaises
<1>17. ASSUME NEW t \in Tasks, Terminate(t) PROVE GroupBarrier'
  BY <1>17 DEF Terminate, AfterTermination
<1>18. ASSUME NEW t \in Tasks, Lapse(t) PROVE GroupBarrier'
  BY <1>18 DEF Lapse
<1>19. CASE ProcessesChange
  BY <1>19 DEF ProcessesChange
<1>20. ASSUME NEW t \in Tasks, EditTask(t) PROVE GroupBarrier'
  BY <1>20 DEF EditTask
<1>21. CASE UNCHANGED vars
  BY <1>21
<1> QED
  BY <1>1, <1>2, <1>3, <1>4, <1>5, <1>6, <1>7, <1>8, <1>9, <1>10, <1>11,
     <1>12, <1>13, <1>14, <1>15, <1>16, <1>17, <1>18, <1>19, <1>20,
     <1>21
  DEF Next, RunnerStep, RunnerFails, JobStep, Return, Environment
-----------------------------------------------------------------------------
\* A run begins in the inductive invariant.
LEMMA InitInv == Init => IInv
BY DEF Init, IInv, TypeOK, Stage, OneGroupAtATime, PushedInOrder, Covered,
       StatusTellsTruth, RunsMatchJob, CompleteExplained, GroupBarrier, Rows, Running, Ended,
       Jobs, Statuses, Pending, Events

\* Every step of the runner, of a job or of the environment keeps it.
LEMMA StepInv == IInv /\ [Next]_vars => IInv'
BY TypeStep, StageStep, OneGroupStep, PushedStep, StatusStep, CoveredStep,
   RunsStep, CompleteStep, BarrierStep DEF IInv

\* The inductive invariant holds in every reachable state.
THEOREM Invariance == Spec => []IInv
<1>1. QED BY InitInv, StepInv, PTL DEF Spec

\* Every variable keeps its type.
THEOREM TypeCorrect == Spec => []TypeOK
<1>1. IInv => TypeOK
  BY DEF IInv
<1>2. QED BY <1>1, Invariance, PTL

\* perform's loop is a barrier between groups, up to lapsed status keys.
THEOREM BarrierHolds == Spec => []GroupBarrier
<1>1. IInv => GroupBarrier
  BY DEF IInv
<1>2. QED BY <1>1, Invariance, PTL

\* A run that gets to its end has dealt with each of its tasks, and a job
\* that is complete ran its task or wrote an event.
THEOREM NothingIsForgotten == Spec => []NothingForgotten
<1>1. IInv => NothingForgotten
  BY DEF IInv, Stage, Covered, Uncut, CompleteExplained, NothingForgotten
<1>2. QED BY <1>1, Invariance, PTL

\* No job is performed twice, whichever processes are terminated.
THEOREM PerformedAtMostOnce == Spec => []AtMostOnce
<1>1. IInv => AtMostOnce
  BY DEF IInv, RunsMatchJob, AtMostOnce
<1>2. QED BY <1>1, Invariance, PTL

-----------------------------------------------------------------------------
(* TaskRunner implements OrderedGroups.                                    *)

\* Before a run no group is open, as in OrderedGroups.
LEMMA InitRefines == Init => Groups!Init
BY DEF Init, Groups!Init, Phase, Running

\* A task about to be pushed may be released: nothing of a smaller group is
\* in left, toPush or workers.
LEMMA ToPushMayGo ==
  ASSUME IInv, NEW t \in toPush
  PROVE  Phase[t] = "waiting" /\ Groups!EarlierGroupsOver(t)
<1>1. t \in Tasks /\ t \in selected /\ t \in left \cup toPush
  BY DEF IInv, TypeOK
<1>2. Phase[t] = "waiting"
  BY <1>1 DEF Phase
<1>3. ASSUME NEW u \in Tasks, GroupOf[u] < GroupOf[t]
      PROVE  Phase[u] \in {"out", "settled"}
  <2>1. GroupOf[u] \in Nat /\ GroupOf[t] \in Nat
    BY <1>1, TasksAssumption
  <2>2. u \notin left /\ u \notin toPush /\ u \notin workers
    <3>1. u \in left => GroupOf[t] < GroupOf[u]
      BY DEF IInv, OneGroupAtATime
    <3>2. u \in toPush \/ u \in workers => GroupOf[t] = GroupOf[u]
      BY DEF IInv, OneGroupAtATime
    <3> QED BY <1>3, <2>1, <3>1, <3>2
  <2>3. u \notin left \cup toPush
    BY <2>2
  <2> QED BY <2>2, <2>3 DEF Phase
<1> QED BY <1>2, <1>3 DEF Groups!EarlierGroupsOver

\* Pushing, skipping and dropping a task are the steps of OrderedGroups, an
\* exception or a termination is its Stop, and all the rest stutters.
LEMMA StepRefines ==
  ASSUME IInv, [Next]_vars
  PROVE  [Groups!Next]_(Groups!vars)
<1> USE DEF vars, runner, jobs, env
<1>1. CASE Prepare
  <2>1. Selection \in SUBSET Tasks
    BY DEF IInv, TypeOK, Selection
  <2>2. \A t \in Tasks : Phase[t] = "out"
    BY <1>1 DEF IInv, Stage, Prepare, Phase
  <2>3. Phase' = [t \in Tasks |-> IF t \in Selection THEN "waiting" ELSE "out"]
    BY <1>1, <2>1 DEF IInv, Stage, Prepare, Phase
  <2>4. Groups!Select(Selection)
    BY <1>1, <2>2, <2>3 DEF Prepare, Groups!Select, Running
  <2> QED BY <2>1, <2>4 DEF Groups!Next
<1>2. CASE BeginGroup
  <2>1. left' \cup toPush' = left \cup toPush
    BY <1>2 DEF IInv, Stage, BeginGroup
  <2>2. workers' = workers /\ selected' = selected
    BY <1>2 DEF BeginGroup
  <2>3. Phase' = Phase
    BY <2>1, <2>2 DEF Phase
  <2> QED BY <1>2, <2>3 DEF BeginGroup, Groups!vars, Running
<1>3. CASE EndPushing
  BY <1>3 DEF EndPushing, AfterPass, Phase, Groups!vars, Running
<1>4. CASE EndPass
  BY <1>4 DEF EndPass, AfterPass, Phase, Groups!vars, Running
<1>5. CASE Finish
  BY <1>5 DEF Finish, Phase, Groups!vars, Running
<1>6. ASSUME NEW t \in Tasks, Push(t) PROVE [Groups!Next]_(Groups!vars)
  <2> USE <1>6 DEF IInv, TypeOK, OneGroupAtATime
  <2>1. Phase[t] = "waiting" /\ Groups!EarlierGroupsOver(t)
    BY ToPushMayGo DEF Push
  <2>2. Phase' = [Phase EXCEPT ![t] = "released"]
    BY DEF Push, Phase
  <2>3. Groups!Release(t)
    BY <2>1, <2>2 DEF Push, Groups!Release, Running
  <2> QED BY <2>3 DEF Groups!Next
<1>7. ASSUME NEW t \in Tasks, QueueNotFound(t) PROVE [Groups!Next]_(Groups!vars)
  <2> USE <1>7 DEF IInv, TypeOK, OneGroupAtATime
  <2>1. Phase[t] = "waiting" /\ Groups!EarlierGroupsOver(t)
    BY ToPushMayGo DEF QueueNotFound
  <2>2. Phase' = [Phase EXCEPT ![t] = "settled"]
    BY DEF QueueNotFound, Phase
  <2>3. Groups!Skip(t)
    BY <2>1, <2>2 DEF QueueNotFound, Groups!Skip, Running
  <2> QED BY <2>3 DEF Groups!Next
<1>8. ASSUME NEW t \in Tasks, CheckWorker(t) PROVE [Groups!Next]_(Groups!vars)
  <2>1. CASE Awaited(t)
    BY <1>8, <2>1 DEF CheckWorker, Phase, Groups!vars, Running
  <2>2. CASE ~Awaited(t)
    <3> USE <1>8, <2>2 DEF IInv, TypeOK, OneGroupAtATime
    <3>1. Phase[t] = "released"
      BY DEF CheckWorker, Phase
    <3>2. Phase' = [Phase EXCEPT ![t] = "settled"]
      BY DEF CheckWorker, Phase
    <3>3. Groups!Settle(t)
      BY <3>1, <3>2 DEF CheckWorker, Groups!Settle, Running
    <3> QED BY <3>3 DEF Groups!Next
  <2> QED BY <2>1, <2>2
<1>9. CASE RunnerRaises
  <2>1. Groups!Stop
    BY <1>9 DEF RunnerRaises, Rescue, Phase, Groups!Stop, Running, Ended
  <2> QED BY <2>1 DEF Groups!Next
<1>10. CASE KillRunner
  <2>1. Groups!Stop
    BY <1>10 DEF KillRunner, Phase, Groups!Stop, Running, Ended
  <2> QED BY <2>1 DEF Groups!Next
<1>11. ASSUME NEW t \in Tasks, PushRaises(t) PROVE [Groups!Next]_(Groups!vars)
  <2>1. Groups!Stop
    BY <1>11 DEF PushRaises, Rescue, Phase, Groups!Stop, Running, Ended
  <2> QED BY <2>1 DEF Groups!Next
<1>12. ASSUME NEW t \in Tasks, Fetch(t) PROVE [Groups!Next]_(Groups!vars)
  BY <1>12 DEF Fetch, Phase, Groups!vars, Running
<1>13. ASSUME NEW t \in Tasks, Start(t) PROVE [Groups!Next]_(Groups!vars)
  BY <1>13 DEF Start, Phase, Groups!vars, Running
<1>14. ASSUME NEW t \in Tasks, Perform(t) PROVE [Groups!Next]_(Groups!vars)
  BY <1>14 DEF Perform, Phase, Groups!vars, Running
<1>15. ASSUME NEW t \in Tasks, WorkerRaises(t) PROVE [Groups!Next]_(Groups!vars)
  BY <1>15 DEF WorkerRaises, WorkerEvent, FatalOf, Phase, Groups!vars, Running
<1>16. ASSUME NEW t \in Tasks, WorkerRescueRaises(t) PROVE [Groups!Next]_(Groups!vars)
  BY <1>16 DEF WorkerRescueRaises, Phase, Groups!vars, Running
<1>17. ASSUME NEW t \in Tasks, Terminate(t) PROVE [Groups!Next]_(Groups!vars)
  BY <1>17 DEF Terminate, AfterTermination, Phase, Groups!vars, Running
<1>18. ASSUME NEW t \in Tasks, Lapse(t) PROVE [Groups!Next]_(Groups!vars)
  BY <1>18 DEF Lapse, Phase, Groups!vars, Running
<1>19. CASE ProcessesChange
  BY <1>19 DEF ProcessesChange, Phase, Groups!vars
<1>20. ASSUME NEW t \in Tasks, EditTask(t) PROVE [Groups!Next]_(Groups!vars)
  BY <1>20 DEF EditTask, Phase, Groups!vars
<1>21. CASE UNCHANGED vars
  BY <1>21 DEF Phase, Groups!vars
<1> QED
  BY <1>1, <1>2, <1>3, <1>4, <1>5, <1>6, <1>7, <1>8, <1>9, <1>10, <1>11,
     <1>12, <1>13, <1>14, <1>15, <1>16, <1>17, <1>18, <1>19, <1>20,
     <1>21
  DEF Next, RunnerStep, RunnerFails, JobStep, Return, Environment

\* The runner implements OrderedGroups.
THEOREM ImplementsGroups == Spec => GroupsInOrder
<1>1. QED
  BY InitRefines, StepRefines, Invariance, PTL
  DEF Spec, GroupsInOrder, Groups!Spec

-----------------------------------------------------------------------------
(* The progress count                                                      *)

\* A task that was given up is nowhere else, and the numbers add up.
Accounts ==
  /\ rpc = "begin" =>
       /\ count = 0
       /\ \A t \in Tasks : [source |-> "TaskRunner", task |-> t] \notin events
  /\ \A t \in left \cup toPush \cup workers : t \notin Skipped
  /\ AccountedFor

\* Any set of tasks can be counted.
LEMMA FiniteTasks ==
  ASSUME NEW S \in SUBSET Tasks
  PROVE  IsFiniteSet(S) /\ Cardinality(S) \in Nat
BY TasksAssumption, FS_Subset, FS_CardinalityType

\* A task that joins a set counts one more.
LEMMA OneMore ==
  ASSUME NEW S \in SUBSET Tasks, NEW x \in Tasks, x \notin S
  PROVE  Cardinality(S \cup {x}) = Cardinality(S) + 1
BY FiniteTasks, FS_AddElement

\* A task that leaves a set counts one less.
LEMMA OneLess ==
  ASSUME NEW S \in SUBSET Tasks, NEW x \in S
  PROVE  Cardinality(S \ {x}) + 1 = Cardinality(S)
BY FiniteTasks, FS_RemoveElement

\* The group taken and the groups left add up.
LEMMA TwoParts ==
  ASSUME NEW S \in SUBSET Tasks, NEW A, NEW B, S = A \cup B, A \cap B = {}
  PROVE  Cardinality(A) + Cardinality(B) = Cardinality(S)
<1>1. A \in SUBSET Tasks /\ B \in SUBSET Tasks
  OBVIOUS
<1>2. Cardinality(A \cap B) = 0
  BY FS_EmptySet
<1> QED BY <1>1, <1>2, FiniteTasks, FS_Union

\* The numbers that the sum is made of are numbers, before and after a step.
Numbers ==
  /\ Cardinality(left) \in Nat /\ Cardinality(toPush) \in Nat
  /\ Cardinality(workers) \in Nat /\ Cardinality(Skipped) \in Nat
  /\ Cardinality(selected) \in Nat /\ count \in Nat

\* All of them are natural numbers, and the invariant relates them.
LEMMA NumbersAdd ==
  ASSUME IInv, [Next]_vars
  PROVE  Numbers /\ Numbers'
<1>1. /\ left \in SUBSET Tasks /\ toPush \in SUBSET Tasks
      /\ workers \in SUBSET Tasks /\ selected \in SUBSET Tasks
      /\ Skipped \in SUBSET Tasks /\ count \in Nat
  BY DEF IInv, TypeOK, Skipped
<1>2. IInv'
  BY StepInv
<1>3. /\ left' \in SUBSET Tasks /\ toPush' \in SUBSET Tasks
      /\ workers' \in SUBSET Tasks /\ selected' \in SUBSET Tasks
      /\ Skipped' \in SUBSET Tasks /\ count' \in Nat
  BY <1>2 DEF IInv, TypeOK, Skipped
<1> QED BY <1>1, <1>3, FiniteTasks DEF Numbers

\* What a step moves out of one set it moves into another, or counts.
LEMMA AccountsStep ==
  ASSUME IInv, Accounts, [Next]_vars
  PROVE  Accounts'
<1> USE DEF vars, runner, jobs, env, Running, Accounts
<1>1. CASE Prepare
  <2>1. Selection \in SUBSET Tasks
    BY DEF IInv, TypeOK, Selection
  <2>2. Skipped' = {}
    BY <1>1, <2>1 DEF Prepare, Skipped
  <2>3. toPush' = {} /\ workers' = {} /\ count' = 0 /\ rpc' = "groups"
    BY <1>1 DEF Prepare, IInv, Stage
  <2>4. Cardinality(selected') \in Nat /\ left' = selected'
    BY <1>1, <2>1, FiniteTasks DEF Prepare
  <2> QED BY <2>2, <2>3, <2>4, FS_EmptySet DEF AccountedFor
<1>2. CASE BeginGroup
  <2> USE <1>2
  <2>1. Skipped' = Skipped
    BY DEF BeginGroup, Skipped
  <2>2. left = left' \cup toPush' /\ left' \cap toPush' = {}
    BY DEF BeginGroup
  <2>3. Cardinality(left') + Cardinality(toPush') = Cardinality(left)
    BY <2>2, TwoParts DEF IInv, TypeOK
  <2>4. Cardinality(toPush) = 0
    BY FS_EmptySet DEF BeginGroup, IInv, Stage
  <2>5. AccountedFor'
    BY <2>1, <2>3, <2>4, NumbersAdd DEF Numbers, BeginGroup, AccountedFor
  <2>6. \A t \in left' \cup toPush' \cup workers' : t \notin Skipped'
    BY <2>1, <2>2 DEF BeginGroup
  <2> QED BY <2>5, <2>6 DEF BeginGroup
<1>3. CASE EndPushing
  <2>1. Skipped' = Skipped
    BY <1>3 DEF EndPushing, AfterPass, Skipped
  <2> QED BY <1>3, <2>1 DEF EndPushing, AfterPass, AccountedFor
<1>4. CASE EndPass
  <2>1. Skipped' = Skipped
    BY <1>4 DEF EndPass, AfterPass, Skipped
  <2> QED BY <1>4, <2>1 DEF EndPass, AfterPass, AccountedFor
<1>5. CASE Finish
  <2>1. Skipped' = Skipped
    BY <1>5 DEF Finish, Skipped
  <2> QED BY <1>5, <2>1 DEF Finish, AccountedFor
<1>6. ASSUME NEW t \in Tasks, Push(t) PROVE Accounts'
  <2> USE <1>6 DEF IInv, TypeOK, OneGroupAtATime
  <2>1. Skipped' = Skipped
    BY DEF Push, Skipped
  <2>2. Cardinality(toPush') + 1 = Cardinality(toPush)
    BY OneLess DEF Push
  <2>3. Cardinality(workers') = Cardinality(workers) + 1
    BY OneMore DEF Push
  <2>4. AccountedFor'
    BY <2>1, <2>2, <2>3, NumbersAdd DEF Numbers, Push, AccountedFor
  <2> QED BY <2>1, <2>4 DEF Push
<1>7. ASSUME NEW t \in Tasks, QueueNotFound(t) PROVE Accounts'
  <2> USE <1>7 DEF IInv, TypeOK, OneGroupAtATime
  <2>1. Skipped' = Skipped \cup {t}
    BY DEF QueueNotFound, NotFoundEvent, FatalOf, Skipped
  <2>2. t \notin Skipped /\ Skipped \in SUBSET Tasks
    BY DEF QueueNotFound, Skipped
  <2>3. Cardinality(toPush') + 1 = Cardinality(toPush)
    BY OneLess DEF QueueNotFound
  <2>4. Cardinality(Skipped') = Cardinality(Skipped) + 1
    BY <2>1, <2>2, OneMore
  <2>5. AccountedFor'
    BY <2>3, <2>4, NumbersAdd DEF Numbers, QueueNotFound, AccountedFor
  <2>6. \A u \in left' \cup toPush' \cup workers' : u \notin Skipped'
    BY <2>1 DEF QueueNotFound
  <2> QED BY <2>5, <2>6 DEF QueueNotFound
<1>8. ASSUME NEW t \in Tasks, CheckWorker(t) PROVE Accounts'
  <2> USE <1>8 DEF IInv, TypeOK
  <2>1. Skipped' = Skipped
    BY DEF CheckWorker, Skipped
  <2>2. \/ workers' = workers /\ count' = count
        \/ Cardinality(workers') + 1 = Cardinality(workers) /\ count' = count + 1
    BY OneLess DEF CheckWorker
  <2>3. AccountedFor'
    BY <2>1, <2>2, NumbersAdd DEF Numbers, CheckWorker, AccountedFor
  <2> QED BY <2>1, <2>3 DEF CheckWorker
<1>9. CASE RunnerRaises
  <2>1. Skipped' = Skipped
    BY <1>9 DEF RunnerRaises, Rescue, Skipped
  <2> QED BY <1>9, <2>1 DEF RunnerRaises, Rescue, AccountedFor
<1>10. CASE KillRunner
  <2>1. Skipped' = Skipped
    BY <1>10 DEF KillRunner, Skipped
  <2> QED BY <1>10, <2>1 DEF KillRunner, AccountedFor
<1>11. ASSUME NEW t \in Tasks, PushRaises(t) PROVE Accounts'
  <2>1. Skipped' = Skipped
    BY <1>11 DEF PushRaises, Rescue, Skipped
  <2> QED BY <1>11, <2>1 DEF PushRaises, Rescue, AccountedFor
<1>12. ASSUME NEW t \in Tasks, Fetch(t) PROVE Accounts'
  <2>1. Skipped' = Skipped
    BY <1>12 DEF Fetch, Skipped
  <2> QED BY <1>12, <2>1 DEF Fetch, AccountedFor
<1>13. ASSUME NEW t \in Tasks, Start(t) PROVE Accounts'
  <2>1. Skipped' = Skipped
    BY <1>13 DEF Start, Skipped
  <2> QED BY <1>13, <2>1 DEF Start, AccountedFor
<1>14. ASSUME NEW t \in Tasks, Perform(t) PROVE Accounts'
  <2>1. Skipped' = Skipped
    BY <1>14 DEF Perform, Skipped
  <2> QED BY <1>14, <2>1 DEF Perform, AccountedFor
<1>15. ASSUME NEW t \in Tasks, WorkerRaises(t) PROVE Accounts'
  <2>1. Skipped' = Skipped
    BY <1>15 DEF WorkerRaises, WorkerEvent, FatalOf, Skipped
  <2> QED BY <1>15, <2>1 DEF WorkerRaises, WorkerEvent, FatalOf, AccountedFor
<1>16. ASSUME NEW t \in Tasks, WorkerRescueRaises(t) PROVE Accounts'
  <2>1. Skipped' = Skipped
    BY <1>16 DEF WorkerRescueRaises, Skipped
  <2> QED BY <1>16, <2>1 DEF WorkerRescueRaises, AccountedFor
<1>17. ASSUME NEW t \in Tasks, Terminate(t) PROVE Accounts'
  <2>1. Skipped' = Skipped
    BY <1>17 DEF Terminate, AfterTermination, Skipped
  <2> QED BY <1>17, <2>1 DEF Terminate, AfterTermination, AccountedFor
<1>18. ASSUME NEW t \in Tasks, Lapse(t) PROVE Accounts'
  <2>1. Skipped' = Skipped
    BY <1>18 DEF Lapse, Skipped
  <2> QED BY <1>18, <2>1 DEF Lapse, AccountedFor
<1>19. CASE ProcessesChange
  <2>1. Skipped' = Skipped
    BY <1>19 DEF ProcessesChange, Skipped
  <2> QED BY <1>19, <2>1 DEF ProcessesChange, AccountedFor
<1>20. ASSUME NEW t \in Tasks, EditTask(t) PROVE Accounts'
  <2>1. Skipped' = Skipped
    BY <1>20 DEF EditTask, Skipped
  <2> QED BY <1>20, <2>1 DEF EditTask, AccountedFor
<1>21. CASE UNCHANGED vars
  <2>1. Skipped' = Skipped
    BY <1>21 DEF Skipped
  <2> QED BY <1>21, <2>1 DEF AccountedFor
<1> QED
  BY <1>1, <1>2, <1>3, <1>4, <1>5, <1>6, <1>7, <1>8, <1>9, <1>10, <1>11,
     <1>12, <1>13, <1>14, <1>15, <1>16, <1>17, <1>18, <1>19, <1>20,
     <1>21
  DEF Next, RunnerStep, RunnerFails, JobStep, Return, Environment

\* count, what is waited for, what is to come and what was given up always add
\* up to the total the user is shown.
THEOREM AllAccountedFor == Spec => []AccountedFor
<1>1. Init => Accounts
  BY DEF Init, Accounts, AccountedFor, Skipped
<1>2. IInv /\ Accounts /\ [Next]_vars => Accounts'
  BY AccountsStep
<1>3. Accounts => AccountedFor
  BY DEF Accounts
<1> QED BY <1>1, <1>2, <1>3, Invariance, PTL DEF Spec
=============================================================================
