---------------------------- MODULE TaskSchedule ----------------------------
(***************************************************************************)
(* The rows of the tasks table and the sidekiq-scheduler hash in Redis     *)
(* that app/models/task.rb keeps in step with them: an entry for a task    *)
(* starts a TaskRunner for it at its frequency.  The actors are the        *)
(* requests of TasksController, the TaskWorker jobs (each saves its task   *)
(* several times) and booting processes.                                   *)
(*                                                                         *)
(* A save is an UPDATE, the after_save callback, and the COMMIT.  It       *)
(* writes only the columns the actor changed, but the callback decides by  *)
(* the copy of the row the actor loaded.  Until the commit the row is      *)
(* locked and its change is invisible.  The scheduler gem is modelled as   *)
(* it is used here: set_schedule adds one entry, and "schedule =" replaces *)
(* the whole hash.                                                         *)
(***************************************************************************)
CONSTANTS Tasks,     \* the tasks
          Actors,    \* requests, jobs and booting processes
          MayDo      \* the kinds of operation each actor performs

Saves == {"create", "update", "enable", "disable", "schedule", "unschedule", "run"}
Bulk  == {"bulkEnable", "bulkDisable", "bulkDelete", "boot"}
Kinds == Saves \cup Bulk \cup {"destroy"}

ASSUME ScheduleAssumption ==
  /\ MayDo \in [Actors -> SUBSET Kinds]

VARIABLES
  rows,       \* the tasks that have a row
  enabled,    \* those whose column enabled is true
  freq,       \* those whose column frequency is not blank
  fresh,      \* the ids no task has had yet
  sched,      \* the tasks with an entry in the schedule
  op,         \* what each actor is doing
  drifted     \* have operations overlapped since the last rebuild? (history)

table == <<rows, enabled, freq, fresh>>
vars == <<rows, enabled, freq, fresh, sched, op, drifted>>

Stages == {"load", "save", "read", "write", "commit", "after",
           "bulk", "clear", "query", "add"}

Idle == [kind |-> "idle"]
Ops ==
  [kind : Kinds, tasks : SUBSET Tasks, stage : Stages,
   en : BOOLEAN, fr : BOOLEAN,   \* the loaded copy of the row
   dirty : SUBSET {"enabled", "frequency"},  \* the columns it will write
   saved : BOOLEAN,              \* is the save over?
   seen : SUBSET Tasks,          \* entries or rows read and not yet written
   alone : BOOLEAN]              \* has no other operation overlapped?

TypeOK ==
  /\ rows \in SUBSET Tasks
  /\ enabled \in SUBSET rows
  /\ freq \in SUBSET rows
  /\ fresh \in SUBSET (Tasks \ rows)
  /\ sched \in SUBSET (Tasks \ fresh)
  /\ op \in [Actors -> Ops \cup {Idle}]
  /\ drifted \in BOOLEAN

Init ==
  /\ rows \in SUBSET Tasks
  /\ fresh = Tasks \ rows
  /\ enabled \in SUBSET rows
  /\ freq \in SUBSET rows
  /\ sched = enabled \cap freq
  /\ op = [a \in Actors |-> Idle]
  /\ drifted = FALSE

-----------------------------------------------------------------------------
Busy(a) == op[a] # Idle
At(a, s) == Busy(a) /\ op[a].stage = s
Task(a) == CHOOSE t \in Tasks : op[a].tasks = {t}

Goto(a, s) == op' = [op EXCEPT ![a].stage = s]
End(a) == op' = [op EXCEPT ![a] = Idle]

\* A request, job or boot begins: a single task or several, for bulk ones.
Begin(a, k, ts) ==
  /\ ~Busy(a)
  /\ k \in MayDo[a]
  /\ k \in Bulk \/ \E t \in Tasks : ts = {t}
  /\ IF k = "create" THEN ts \subseteq fresh /\ fresh' = fresh \ ts
     ELSE ts \subseteq Tasks \ fresh /\ UNCHANGED fresh
  /\ k = "boot" => ts = {}
  /\ op' = [b \in Actors |->
       IF b = a
         THEN [kind |-> k, tasks |-> ts, en |-> FALSE, fr |-> FALSE, dirty |-> {},
               stage |-> IF k \in Bulk THEN "bulk" ELSE "load",
               saved |-> FALSE, seen |-> {}, alone |-> \A c \in Actors : ~Busy(c)]
         ELSE IF Busy(b) THEN [op[b] EXCEPT !.alone = FALSE] ELSE Idle]
  /\ drifted' = (drifted \/ \E b \in Actors : Busy(b))
  /\ UNCHANGED <<rows, enabled, freq, sched>>

\* The value the operation gives to the copy of a column, of the value loaded.
Assigns(k, now, on, off) ==
  IF k \in {"create", "update"} THEN BOOLEAN
  ELSE IF k = on THEN {TRUE} ELSE IF k = off THEN {FALSE} ELSE {now}

\* The columns of t that a copy with these values will write.
Differing(t, en, fr) ==
  {c \in {"enabled", "frequency"} :
     IF c = "enabled" THEN en # (t \in enabled) ELSE fr # (t \in freq)}

\* Task.find and the assignment of the attributes: enable and disable do
\* nothing when the row has that value already; destroy goes on to
\* unschedule_from_sidekiq.  Only the attributes that changed are written.
Load(a) ==
  LET t == Task(a) k == op[a].kind IN
  /\ At(a, "load")
  /\ \/ /\ \/ k # "create" /\ t \notin rows
           \/ k = "enable" /\ t \in enabled
           \/ k = "disable" /\ t \notin enabled
        /\ End(a)
     \/ /\ k = "create" \/ t \in rows
        /\ ~(k = "enable" /\ t \in enabled) /\ ~(k = "disable" /\ t \notin enabled)
        /\ \E en \in Assigns(k, t \in enabled, "enable", "disable"),
              fr \in Assigns(k, t \in freq, "schedule", "unschedule") :
             op' = [op EXCEPT ![a] = [@ EXCEPT
               !.en = en, !.fr = fr, !.dirty = Differing(t, en, fr),
               !.stage = IF k = "destroy" THEN "read" ELSE "save"]]
  /\ UNCHANGED <<table, sched>>

Locks(a, t) ==
  Busy(a) /\ t \in op[a].tasks /\ op[a].kind \in Saves /\ ~op[a].saved
    /\ op[a].stage \in {"read", "write", "commit"}

\* schedule(cron) of Task.
AddEntry(t) == sched' = sched \cup {t}

\* The UPDATE (waits for the row) and update_schedule up to its first Redis
\* call.  An UPDATE of a deleted row does nothing, and raises nothing.
Save(a) ==
  LET t == Task(a) IN
  /\ At(a, "save")
  /\ \A b \in Actors : ~Locks(b, t)
  /\ IF op[a].en /\ op[a].fr
       THEN AddEntry(t) /\ Goto(a, "commit")
       ELSE UNCHANGED sched /\ Goto(a, "read")
  /\ UNCHANGED table

\* unschedule_from_sidekiq: get_all_schedules, then "schedule =".
ReadSchedules(a) ==
  /\ At(a, "read")
  /\ op' = [op EXCEPT ![a] = [@ EXCEPT !.seen = sched, !.stage = "write"]]
  /\ UNCHANGED <<table, sched>>

\* Mutant: the reject keeps every entry.
WithoutTaskKept(a) == op[a].seen
WithoutTask(a) == op[a].seen \ {Task(a)}

\* unschedule calls it once more after its save; destroy calls it alone.
\* What others did to the hash since the read is lost.
WriteSchedules(a) ==
  /\ At(a, "write")
  /\ sched' = WithoutTask(a)
  /\ op' = [op EXCEPT ![a] = [@ EXCEPT
       !.seen = {}, !.stage = IF op[a].kind \in Saves /\ ~op[a].saved THEN "commit" ELSE "after"]]
  /\ UNCHANGED table

Written(set, a, column, value) ==
  IF column \notin op[a].dirty THEN set
  ELSE IF value THEN set \cup (op[a].tasks \cap rows') ELSE set \ op[a].tasks

\* A job goes on saving; schedule and unschedule go on after the save.
Commit(a) ==
  /\ At(a, "commit")
  /\ rows' = IF op[a].kind = "create" THEN rows \cup op[a].tasks ELSE rows
  /\ enabled' = Written(enabled, a, "enabled", op[a].en)
  /\ freq' = Written(freq, a, "frequency", op[a].fr)
  /\ IF op[a].kind \in {"create", "update", "enable", "disable"}
       THEN End(a)
       ELSE op' = [op EXCEPT ![a] = [@ EXCEPT
              !.saved = (op[a].kind # "run"), !.dirty = {},
              !.stage = IF op[a].kind = "unschedule" THEN "read" ELSE "after"]]
  /\ UNCHANGED <<fresh, sched>>

\* schedule_with_params schedules the task once more, enabled or not;
\* a job goes on saving; destroy deletes the row.
After(a) ==
  LET t == Task(a) k == op[a].kind IN
  /\ At(a, "after")
  /\ \/ k = "schedule" /\ AddEntry(t) /\ End(a) /\ UNCHANGED table
     \/ k = "unschedule" /\ End(a) /\ UNCHANGED <<table, sched>>
     \/ k = "run" /\ (Goto(a, "save") \/ End(a))
          /\ UNCHANGED <<table, sched>>
     \/ /\ k = "destroy"
        /\ \A b \in Actors : ~Locks(b, t)
        /\ rows' = rows \ {t} /\ enabled' = enabled \ {t} /\ freq' = freq \ {t}
        /\ End(a)
        /\ UNCHANGED <<fresh, sched>>

RowsAfter(a) == IF op[a].kind = "bulkDelete" THEN rows \ op[a].tasks ELSE rows

\* update_all or delete_all, then Task.update_schedules (boot: only that).
BulkUpdate(a) ==
  LET ts == op[a].tasks k == op[a].kind IN
  /\ At(a, "bulk")
  /\ \A b \in Actors, t \in ts : ~Locks(b, t)
  /\ rows' = RowsAfter(a)
  /\ enabled' = IF k = "bulkEnable" THEN enabled \cup (ts \cap rows)
                ELSE IF k = "boot" THEN enabled ELSE enabled \ ts
  /\ freq' = IF k = "bulkDelete" THEN freq \ ts ELSE freq
  /\ Goto(a, "clear")
  /\ UNCHANGED <<fresh, sched>>

ClearSchedule(a) ==
  /\ At(a, "clear")
  /\ sched' = {}
  /\ Goto(a, "query")
  /\ UNCHANGED table

\* Mutant: the query forgets enabled.
ToScheduleAll == freq
ToSchedule == enabled \cap freq

QueryTasks(a) ==
  /\ At(a, "query")
  /\ op' = [op EXCEPT ![a] = [@ EXCEPT !.seen = ToSchedule, !.stage = "add"]]
  /\ UNCHANGED <<table, sched>>

AddNext(a) ==
  /\ At(a, "add")
  /\ \/ /\ \E t \in op[a].seen :
             AddEntry(t) /\ op' = [op EXCEPT ![a] = [@ EXCEPT !.seen = op[a].seen \ {t}]]
        /\ UNCHANGED drifted
     \/ /\ op[a].seen = {}
        /\ End(a)
        /\ drifted' = (drifted /\ ~op[a].alone)
        /\ UNCHANGED sched
  /\ UNCHANGED table

-----------------------------------------------------------------------------
Step(a) ==
  \/ /\ \/ Load(a) \/ Save(a) \/ ReadSchedules(a) \/ WriteSchedules(a) \/ Commit(a)
        \/ After(a) \/ BulkUpdate(a) \/ ClearSchedule(a) \/ QueryTasks(a)
     /\ UNCHANGED drifted
  \/ AddNext(a)

Next ==
  \E a \in Actors :
    \/ Step(a)
    \/ \E k \in Kinds, ts \in SUBSET Tasks : Begin(a, k, ts)

Spec == Init /\ [][Next]_vars

-----------------------------------------------------------------------------
AllIdle == \A a \in Actors : ~Busy(a)

\* Unless operations overlapped since the last rebuild that ran undisturbed,
\* the schedule follows the table (update_schedule, task.rb:45): each enabled
\* task with a frequency has an entry, and no task without a row or a frequency
\* has one.  An entry of a disabled task is legal: schedule_with_params makes
\* it.
InSync ==
  AllIdle /\ ~drifted => /\ enabled \cap freq \subseteq sched
                         /\ sched \subseteq freq

\* Whatever overlapping saves did to the schedule, the next boot or bulk
\* update that runs undisturbed leaves in it exactly the enabled tasks with a
\* frequency (update_schedules, task.rb:53).
RepairedByRebuild ==
  [][\A a \in Actors :
       (Busy(a) /\ op[a].kind \in Bulk /\ op[a].alone /\ op'[a] = Idle)
         => sched' = enabled' \cap freq']_vars
=============================================================================
