------------------------ MODULE TaskSchedule_proofs -------------------------
(***************************************************************************)
(* The schedule follows the table as long as no two operations overlap,    *)
(* and a rebuild that runs undisturbed repairs it, for every number of     *)
(* tasks and of requests, jobs and booting processes.                      *)
(*                                                                         *)
(* An operation is alone when no other has overlapped with it (AloneMeans).*)
(* While a rebuild is alone, what is in the schedule and what it still has *)
(* to add are the tasks it queried (Rebuilding).  While a save is alone    *)
(* and nothing has drifted, only the entry of its own task may disagree    *)
(* with the table, in the way that its stage and its copy of the row tell  *)
(* (Saving).                                                               *)
(***************************************************************************)
EXTENDS TaskSchedule, TLAPS

Own(a, t) == op[a].tasks = {t}

\* An operation is at a stage of its kind; only new tasks leave fresh.
OpTypes ==
  \A a \in Actors : Busy(a) =>
    /\ op[a].stage \in {"bulk", "clear", "query", "add"} <=> op[a].kind \in Bulk
    /\ op[a].kind \in Bulk \/ \E t \in Tasks : Own(a, t)
    /\ op[a].tasks \cap fresh = {} /\ op[a].seen \cap fresh = {}

AloneMeans ==
  \A a \in Actors : Busy(a) =>
    /\ op[a].alone => \A b \in Actors \ {a} : ~Busy(b)
    /\ drifted \/ op[a].alone

Rebuilding ==
  \A a \in Actors : Busy(a) /\ op[a].alone =>
    /\ op[a].stage = "query" => sched = {}
    /\ op[a].stage = "add" => sched \cup op[a].seen = enabled \cap freq

\* The schedule agrees with the table about the tasks in ts.
Agrees(ts) == /\ enabled \cap freq \cap ts \subseteq sched
              /\ sched \cap ts \subseteq freq

\* What a save will write is what distinguishes its copy from the row.
Copy(a, t) ==
  /\ t \in rows <=> op[a].kind # "create"
  /\ "enabled" \in op[a].dirty <=> op[a].en # (t \in enabled)
  /\ "frequency" \in op[a].dirty <=> op[a].fr # (t \in freq)

\* The stages of a save before its COMMIT, after it, and of a destroy.
Before(a, t) ==
  LET both == op[a].en /\ op[a].fr IN
  /\ op[a].stage \in {"save", "read", "write", "commit"} /\ Copy(a, t)
  /\ op[a].stage = "save" => Agrees(Tasks)
  /\ op[a].stage \in {"read", "write"} => ~both
  /\ op[a].stage = "write" => op[a].seen = sched
  /\ op[a].stage = "commit" => (t \in sched <=> both)
Afterwards(a, t) ==
  /\ Agrees(Tasks)
  /\ op[a].stage = "write" => op[a].seen = sched
  /\ op[a].kind = "schedule" => op[a].stage = "after" /\ t \in freq
  /\ op[a].kind = "unschedule" => op[a].stage \in {"read", "write", "after"} /\ t \notin freq
Destroying(a, t) ==
  /\ op[a].stage \in {"read", "write", "after"}
  /\ op[a].stage = "write" => op[a].seen = sched
  /\ op[a].stage = "after" => t \notin sched

SaveState(a, t) ==
  /\ Agrees(Tasks \ {t})
  /\ op[a].stage = "load" =>
       Agrees(Tasks) /\ ~op[a].saved /\ (op[a].kind = "create" => t \notin rows)
  /\ op[a].kind = "schedule" => op[a].stage = "load" \/ op[a].fr
  /\ op[a].kind = "unschedule" => op[a].stage = "load" \/ ~op[a].fr
  /\ op[a].saved => op[a].kind \in {"schedule", "unschedule"} /\ Afterwards(a, t)
  /\ ~op[a].saved /\ op[a].stage # "load" =>
       \/ op[a].kind = "destroy" /\ Destroying(a, t)
       \/ /\ op[a].kind = "run" /\ op[a].stage = "after"
          /\ Agrees(Tasks) /\ op[a].dirty = {} /\ Copy(a, t)
       \/ op[a].kind # "destroy" /\ Before(a, t)

Saving ==
  ~drifted => \A a \in Actors, t \in Tasks :
    Busy(a) /\ op[a].kind \notin Bulk /\ Own(a, t) => SaveState(a, t)

IdleInSync == AllIdle /\ ~drifted => Agrees(Tasks)

IInv == TypeOK /\ OpTypes /\ AloneMeans /\ Rebuilding /\ Saving /\ IdleInSync

USE ScheduleAssumption

-----------------------------------------------------------------------------
(* Types                                                                   *)

LEMMA TaskIs ==
  ASSUME NEW a, NEW t \in Tasks, Own(a, t)
  PROVE  Task(a) = t
<1>1. \A u \in Tasks : op[a].tasks = {u} <=> u = t
  BY DEF Own
<1> QED
  BY <1>1 DEF Task

LEMMA BusyIsOp ==
  ASSUME TypeOK, NEW a \in Actors
  PROVE  /\ Busy(a) => op[a] \in Ops
         /\ \A o \in Ops : o # Idle
<1>1. \A o \in Ops : o.kind # "idle"
  BY DEF Ops, Kinds, Saves, Bulk
<1> QED
  BY <1>1 DEF TypeOK, Busy, Idle

\* The operation of a goes on as o, or ends; the others stand still.
LEMMA Moves ==
  ASSUME TypeOK, NEW a \in Actors, NEW o \in Ops \cup {Idle}, op' = [op EXCEPT ![a] = o]
  PROVE  /\ op' \in [Actors -> Ops \cup {Idle}] /\ op'[a] = o
         /\ \A b \in Actors \ {a} : op'[b] = op[b]
  BY DEF TypeOK

\* The values assigned to a column are Boolean.
LEMMA AssignsBoolean ==
  \A k, t, S, on, off : Assigns(k, t \in S, on, off) \subseteq BOOLEAN
<1>1. \A k, on, off, now : now \in BOOLEAN => Assigns(k, now, on, off) \subseteq BOOLEAN
  BY Zenon DEF Assigns
<1>2. \A t, S : (t \in S) \in BOOLEAN
  OBVIOUS
<1> QED
  BY <1>1, <1>2, Zenon

\* What a step of a does to its operation.
GoesOn(a) ==
  /\ op' \in [Actors -> Ops \cup {Idle}] /\ \A b \in Actors \ {a} : op'[b] = op[b]
  /\ \/ op'[a] = Idle
     \/ /\ op'[a] \in Ops
        /\ op'[a].kind = op[a].kind /\ op'[a].tasks = op[a].tasks /\ op'[a].alone = op[a].alone
        /\ op'[a].stage \in {"bulk", "clear", "query", "add"} <=> op[a].kind \in Bulk
        /\ op'[a].seen \cap fresh = {}

LEMMA OpStep ==
  ASSUME TypeOK, OpTypes, NEW a \in Actors, Step(a)
  PROVE  Busy(a) /\ op[a] \in Ops /\ GoesOn(a) /\ fresh' = fresh
<1>0. Busy(a) /\ op[a] \in Ops /\ op[a].kind \in Kinds
  <2>1. Busy(a)
    BY DEF Step, Load, Save, ReadSchedules, WriteSchedules, Commit, After, BulkUpdate,
           ClearSchedule, QueryTasks, AddNext, At
  <2> QED
    BY <2>1, BusyIsOp DEF Ops
<1>t. /\ op[a].stage \in {"bulk", "clear", "query", "add"} <=> op[a].kind \in Bulk
      /\ op[a].seen \cap fresh = {} /\ sched \cap fresh = {} /\ freq \cap fresh = {}
      /\ sched \subseteq Tasks /\ freq \subseteq Tasks
      /\ op \in [Actors -> Ops \cup {Idle}]
  BY <1>0 DEF OpTypes, TypeOK
<1>e. ASSUME End(a)
      PROVE  GoesOn(a)
  BY <1>e, Moves DEF End, GoesOn
<1>g. ASSUME NEW s \in Stages, Goto(a, s), s \in {"bulk", "clear", "query", "add"} <=> op[a].kind \in Bulk
      PROVE  GoesOn(a)
  <2>1. [op[a] EXCEPT !.stage = s] \in Ops
    BY <1>0 DEF Ops
  <2>2. op' = [op EXCEPT ![a] = [op[a] EXCEPT !.stage = s]]
    BY <1>g DEF Goto
  <2>3. op'[a] = [op[a] EXCEPT !.stage = s]
    BY <2>1, <2>2, Moves
  <2>4. /\ op'[a].kind = op[a].kind /\ op'[a].tasks = op[a].tasks /\ op'[a].alone = op[a].alone
        /\ op'[a].stage = s /\ op'[a].seen = op[a].seen
    BY <2>3, <1>0 DEF Ops
  <2> QED
    BY <1>g, <1>t, <2>1, <2>2, <2>3, <2>4, Moves DEF GoesOn
<1>u. ASSUME NEW o \in Ops, op' = [op EXCEPT ![a] = o], o.kind = op[a].kind, o.tasks = op[a].tasks,
             o.alone = op[a].alone, o.seen \cap fresh = {},
             o.stage \in {"bulk", "clear", "query", "add"} <=> op[a].kind \in Bulk
      PROVE  GoesOn(a)
  <2>1. op'[a] = o
    BY <1>u, Moves
  <2> QED
    BY <1>u, <2>1, Moves DEF GoesOn
<1>1. CASE Load(a)
  <2>1. CASE End(a)
    BY <2>1, <1>e, <1>1, <1>0 DEF Load, table
  <2>2. CASE ~ End(a)
    <3>1. PICK en \in BOOLEAN, fr \in BOOLEAN :
            op' = [op EXCEPT ![a] = [op[a] EXCEPT
               !.en = en, !.fr = fr, !.dirty = Differing(Task(a), en, fr),
               !.stage = IF op[a].kind = "destroy" THEN "read" ELSE "save"]]
      <4>1. /\ Assigns(op[a].kind, Task(a) \in enabled, "enable", "disable") \subseteq BOOLEAN
            /\ Assigns(op[a].kind, Task(a) \in freq, "schedule", "unschedule") \subseteq BOOLEAN
        BY AssignsBoolean
      <4>2. \E en \in Assigns(op[a].kind, Task(a) \in enabled, "enable", "disable"),
               fr \in Assigns(op[a].kind, Task(a) \in freq, "schedule", "unschedule") :
              op' = [op EXCEPT ![a] = [op[a] EXCEPT
                !.en = en, !.fr = fr, !.dirty = Differing(Task(a), en, fr),
                !.stage = IF op[a].kind = "destroy" THEN "read" ELSE "save"]]
        BY <1>1, <2>2, Zenon DEF Load
      <4> QED
        BY <4>1, <4>2
    <3> DEFINE o == [op[a] EXCEPT
               !.en = en, !.fr = fr, !.dirty = Differing(Task(a), en, fr),
               !.stage = IF op[a].kind = "destroy" THEN "read" ELSE "save"]
    <3>2. Differing(Task(a), en, fr) \in SUBSET {"enabled", "frequency"}
      BY DEF Differing
    <3>3. o \in Ops /\ o.kind = op[a].kind /\ o.tasks = op[a].tasks /\ o.alone = op[a].alone
          /\ o.seen = op[a].seen /\ o.stage \in {"read", "save"}
      BY <1>0, <3>2, ZenonT(30) DEF Ops, Stages
    <3>4. op[a].kind \notin Bulk
      BY <1>1, <1>t DEF Load, At
    <3> QED
      BY <1>u, <3>1, <3>3, <3>4, <1>t, <1>1, <1>0 DEF Load, table
  <2> QED
    BY <2>1, <2>2
<1>2. CASE Save(a)
  <2>1. op[a].kind \notin Bulk /\ (Goto(a, "commit") \/ Goto(a, "read")) /\ fresh' = fresh
    BY <1>2, <1>t DEF Save, At, table
  <2> QED
    BY <2>1, <1>0, <1>g DEF Stages
<1>3. CASE ReadSchedules(a)
  <2> DEFINE o == [op[a] EXCEPT !.seen = sched, !.stage = "write"]
  <2>1. o \in Ops /\ o.kind = op[a].kind /\ o.tasks = op[a].tasks /\ o.alone = op[a].alone
        /\ o.seen = sched /\ o.stage = "write"
    BY <1>0, <1>t DEF Ops, Stages
  <2>2. op[a].kind \notin Bulk /\ op' = [op EXCEPT ![a] = o] /\ fresh' = fresh
    BY <1>3, <1>t DEF ReadSchedules, At, table
  <2> QED
    BY <1>u, <2>1, <2>2, <1>t, <1>0
<1>4. CASE WriteSchedules(a)
  <2> DEFINE o == [op[a] EXCEPT
       !.seen = {}, !.stage = IF op[a].kind \in Saves /\ ~op[a].saved THEN "commit" ELSE "after"]
  <2>1. o \in Ops /\ o.kind = op[a].kind /\ o.tasks = op[a].tasks /\ o.alone = op[a].alone
        /\ o.seen = {} /\ o.stage \in {"commit", "after"}
    BY <1>0, <1>t DEF Ops, Stages
  <2>2. op[a].kind \notin Bulk /\ op' = [op EXCEPT ![a] = o] /\ fresh' = fresh
    BY <1>4, <1>t DEF WriteSchedules, At, table
  <2> QED
    BY <1>u, <2>1, <2>2, <1>0
<1>5. CASE Commit(a)
  <2> DEFINE o == [op[a] EXCEPT
              !.saved = (op[a].kind # "run"), !.dirty = {},
              !.stage = IF op[a].kind = "unschedule" THEN "read" ELSE "after"]
  <2>1. o \in Ops /\ o.kind = op[a].kind /\ o.tasks = op[a].tasks /\ o.alone = op[a].alone
        /\ o.seen = op[a].seen /\ o.stage \in {"read", "after"}
    BY <1>0, <1>t DEF Ops, Stages
  <2>2. op[a].kind \notin Bulk /\ fresh' = fresh /\ (End(a) \/ op' = [op EXCEPT ![a] = o])
    BY <1>5, <1>t DEF Commit, At
  <2> QED
    BY <1>u, <1>e, <2>1, <2>2, <1>t, <1>0
<1>6. CASE After(a)
  <2>1. op[a].kind \notin Bulk /\ (End(a) \/ Goto(a, "save")) /\ fresh' = fresh
    BY <1>6, <1>t DEF After, At, table
  <2> QED
    BY <2>1, <1>0, <1>g, <1>e DEF Stages
<1>7. CASE BulkUpdate(a)
  <2>1. op[a].kind \in Bulk /\ Goto(a, "clear") /\ fresh' = fresh
    BY <1>7, <1>t DEF BulkUpdate, At
  <2> QED
    BY <2>1, <1>0, <1>g DEF Stages
<1>8. CASE ClearSchedule(a)
  <2>1. op[a].kind \in Bulk /\ Goto(a, "query") /\ fresh' = fresh
    BY <1>8, <1>t DEF ClearSchedule, At, table
  <2> QED
    BY <2>1, <1>0, <1>g DEF Stages
<1>9. CASE QueryTasks(a)
  <2> DEFINE o == [op[a] EXCEPT !.seen = ToSchedule, !.stage = "add"]
  <2>1. o \in Ops /\ o.kind = op[a].kind /\ o.tasks = op[a].tasks /\ o.alone = op[a].alone
        /\ o.seen = ToSchedule /\ o.stage = "add"
    BY <1>0, <1>t DEF Ops, Stages, ToSchedule
  <2>2. op[a].kind \in Bulk /\ op' = [op EXCEPT ![a] = o] /\ fresh' = fresh
    BY <1>9, <1>t DEF QueryTasks, At, table
  <2> QED
    BY <1>u, <2>1, <2>2, <1>t, <1>0 DEF ToSchedule
<1>10. CASE AddNext(a)
  <2>1. op[a].kind \in Bulk /\ op[a].stage = "add" /\ fresh' = fresh
    BY <1>10, <1>t DEF AddNext, At, table
  <2>2. CASE End(a)
    BY <2>1, <2>2, <1>e, <1>0
  <2>3. CASE \E t \in op[a].seen : op' = [op EXCEPT ![a] = [op[a] EXCEPT !.seen = op[a].seen \ {t}]]
    <3>1. PICK t \in op[a].seen : op' = [op EXCEPT ![a] = [op[a] EXCEPT !.seen = op[a].seen \ {t}]]
      BY <2>3
    <3> DEFINE o == [op[a] EXCEPT !.seen = op[a].seen \ {t}]
    <3>2. o \in Ops /\ o.kind = op[a].kind /\ o.tasks = op[a].tasks /\ o.alone = op[a].alone
          /\ o.seen = op[a].seen \ {t} /\ o.stage = op[a].stage
      BY <1>0 DEF Ops
    <3> QED
      BY <1>u, <2>1, <3>1, <3>2, <1>t, <1>0
  <2> QED
    BY <1>10, <2>2, <2>3 DEF AddNext
<1> QED
  BY <1>1, <1>2, <1>3, <1>4, <1>5, <1>6, <1>7, <1>8, <1>9, <1>10 DEF Step

-----------------------------------------------------------------------------
LEMMA Started ==
  ASSUME TypeOK, NEW a \in Actors, NEW k \in Kinds, NEW ts \in SUBSET Tasks, Begin(a, k, ts)
  PROVE  /\ op' \in [Actors -> Ops \cup {Idle}]
         /\ op'[a].kind = k /\ op'[a].tasks = ts /\ op'[a].seen = {} /\ ~op'[a].saved
         /\ op'[a].stage = IF k \in Bulk THEN "bulk" ELSE "load"
         /\ op'[a].alone = \A c \in Actors : ~Busy(c)
         /\ \A b \in Actors \ {a} :
              IF Busy(b) THEN op'[b] = [op[b] EXCEPT !.alone = FALSE] ELSE op'[b] = Idle
<1> DEFINE new == [kind |-> k, tasks |-> ts, en |-> FALSE, fr |-> FALSE, dirty |-> {},
                   stage |-> IF k \in Bulk THEN "bulk" ELSE "load",
                   saved |-> FALSE, seen |-> {}, alone |-> \A c \in Actors : ~Busy(c)]
<1> DEFINE next(b) == IF b = a THEN new
                      ELSE IF Busy(b) THEN [op[b] EXCEPT !.alone = FALSE] ELSE Idle
<1>1. op' = [b \in Actors |-> next(b)]
  BY DEF Begin
<1>2. new \in Ops
  <2>1. (\A c \in Actors : ~Busy(c)) \in BOOLEAN
    OBVIOUS
  <2> QED
    BY <2>1 DEF Ops, Stages
<1>3. \A b \in Actors : Busy(b) => [op[b] EXCEPT !.alone = FALSE] \in Ops
  BY BusyIsOp DEF Ops
<1>4. \A b \in Actors : next(b) \in Ops \cup {Idle}
  BY <1>2, <1>3
<1>5. op' \in [Actors -> Ops \cup {Idle}] /\ op'[a] = new /\ \A b \in Actors : op'[b] = next(b)
  BY <1>1, <1>4
<1>6. /\ new.kind = k /\ new.tasks = ts /\ new.seen = {} /\ ~new.saved
      /\ new.stage = IF k \in Bulk THEN "bulk" ELSE "load"
      /\ new.alone = \A c \in Actors : ~Busy(c)
  OBVIOUS
<1>7. \A b \in Actors \ {a} :
        IF Busy(b) THEN op'[b] = [op[b] EXCEPT !.alone = FALSE] ELSE op'[b] = Idle
  BY <1>5
<1> HIDE DEF new, next
<1> QED
  BY <1>5, <1>6, <1>7

LEMMA Types ==
  ASSUME TypeOK, OpTypes, Next
  PROVE  TypeOK' /\ OpTypes'
<1>1. PICK a \in Actors :
        Step(a) \/ \E k \in Kinds, ts \in SUBSET Tasks : Begin(a, k, ts)
  BY DEF Next
<1>2. CASE Step(a)
  <2>1. Busy(a) /\ op[a] \in Ops /\ GoesOn(a) /\ fresh' = fresh
    BY <1>2, OpStep
  <2>2. OpTypes'
    <3>1. \A b \in Actors \ {a} : op'[b] = op[b]
      BY <2>1 DEF GoesOn
    <3>2. Busy(a)' => op'[a] \in Ops /\ op'[a].kind = op[a].kind /\ op'[a].tasks = op[a].tasks
             /\ (op'[a].stage \in {"bulk", "clear", "query", "add"} <=> op[a].kind \in Bulk)
             /\ op'[a].seen \cap fresh = {}
      BY <2>1 DEF GoesOn, Busy
    <3> QED
      BY <2>1, <3>1, <3>2 DEF OpTypes, Own, Busy
  <2>3. /\ op[a].tasks \cap fresh = {} /\ op[a].tasks \subseteq Tasks
        /\ op[a].seen \cap fresh = {} /\ op[a].seen \subseteq Tasks
        /\ op[a].kind \notin Bulk => \E t \in Tasks : Own(a, t)
    BY <2>1 DEF OpTypes, Ops
  <2>4. op[a].kind \notin Bulk => Task(a) \in op[a].tasks
    BY <2>3, TaskIs DEF Own
  <2>5. op[a].stage \in {"bulk", "clear", "query", "add"} <=> op[a].kind \in Bulk
    BY <2>1 DEF OpTypes
  <2> DEFINE TableOK == /\ rows' \in SUBSET Tasks /\ enabled' \in SUBSET rows'
                        /\ freq' \in SUBSET rows' /\ fresh \in SUBSET (Tasks \ rows')
                        /\ sched' \in SUBSET (Tasks \ fresh)
  <2>6. TableOK
    <3>1. CASE Load(a) \/ ReadSchedules(a) \/ QueryTasks(a) \/ ClearSchedule(a)
      BY <3>1 DEF Load, ReadSchedules, QueryTasks, ClearSchedule, table, TypeOK
    <3>2. CASE Save(a)
      BY <3>2, <2>3, <2>4, <2>5 DEF Save, At, AddEntry, table, TypeOK
    <3>3. CASE WriteSchedules(a)
      BY <3>3, <2>3 DEF WriteSchedules, WithoutTask, table, TypeOK
    <3>4. CASE Commit(a)
      <4>1. rows' \in SUBSET Tasks /\ rows \subseteq rows' /\ fresh \cap rows' = {} /\ sched' = sched
        BY <3>4, <2>3 DEF Commit, TypeOK
      <4>2. /\ enabled' = Written(enabled, a, "enabled", op[a].en)
            /\ freq' = Written(freq, a, "frequency", op[a].fr)
        BY <3>4 DEF Commit
      <4>3. \A S, c, v : S \subseteq rows' => Written(S, a, c, v) \subseteq rows'
        BY DEF Written
      <4> QED
        BY <4>1, <4>2, <4>3 DEF TypeOK
    <3>5. CASE After(a)
      BY <3>5, <2>3, <2>4, <2>5 DEF After, At, AddEntry, table, TypeOK
    <3>6. CASE BulkUpdate(a)
      <4>1. op[a].kind = "bulkEnable" => rows' = rows
        BY <3>6 DEF BulkUpdate, RowsAfter
      <4>2. rows' = rows \/ rows' = rows \ op[a].tasks
        BY <3>6 DEF BulkUpdate, RowsAfter
      <4>3. rows' # rows => op[a].kind = "bulkDelete"
        BY <3>6 DEF BulkUpdate, RowsAfter
      <4> QED
        BY <3>6, <4>1, <4>2, <4>3 DEF BulkUpdate, TypeOK
    <3>7. CASE AddNext(a)
      BY <3>7, <2>3 DEF AddNext, AddEntry, table, TypeOK
    <3> QED
      BY <1>2, <3>1, <3>2, <3>3, <3>4, <3>5, <3>6, <3>7 DEF Step
  <2>7. drifted' \in BOOLEAN
    BY <1>2 DEF Step, AddNext, TypeOK
  <2> QED
    BY <2>1, <2>2, <2>6, <2>7 DEF TypeOK, GoesOn
<1>3. CASE \E k \in Kinds, ts \in SUBSET Tasks : Begin(a, k, ts)
  <2>1. PICK k \in Kinds, ts \in SUBSET Tasks : Begin(a, k, ts)
    BY <1>3
  <2>2. /\ fresh' \subseteq fresh /\ ts \cap fresh' = {}
        /\ k \in Bulk \/ \E t \in Tasks : ts = {t}
        /\ rows' = rows /\ enabled' = enabled /\ freq' = freq /\ sched' = sched
        /\ drifted' \in BOOLEAN
    BY <2>1 DEF Begin, TypeOK
  <2>3. /\ op' \in [Actors -> Ops \cup {Idle}]
        /\ op'[a].kind = k /\ op'[a].tasks = ts /\ op'[a].seen = {}
        /\ op'[a].stage = IF k \in Bulk THEN "bulk" ELSE "load"
        /\ \A b \in Actors \ {a} :
             IF Busy(b) THEN op'[b] = [op[b] EXCEPT !.alone = FALSE] ELSE op'[b] = Idle
    BY <2>1, Started
  <2>4. \A b \in Actors \ {a} : Busy(b)' =>
          /\ Busy(b) /\ op'[b].kind = op[b].kind /\ op'[b].tasks = op[b].tasks
          /\ op'[b].seen = op[b].seen /\ op'[b].stage = op[b].stage
    BY <2>3, BusyIsOp DEF Busy, Ops
  <2>5. OpTypes'
    <3>1. ASSUME NEW b \in Actors, Busy(b)'
          PROVE  /\ op'[b].stage \in {"bulk", "clear", "query", "add"} <=> op'[b].kind \in Bulk
                 /\ op'[b].kind \in Bulk \/ \E t \in Tasks : op'[b].tasks = {t}
                 /\ op'[b].tasks \cap fresh' = {} /\ op'[b].seen \cap fresh' = {}
      <4>1. CASE b = a
        BY <4>1, <2>2, <2>3
      <4>2. CASE b # a
        BY <4>2, <3>1, <2>2, <2>4 DEF OpTypes, Own
      <4> QED
        BY <4>1, <4>2
    <3> QED
      BY <3>1 DEF OpTypes, Own
  <2> QED
    BY <2>2, <2>3, <2>5 DEF TypeOK
<1> QED
  BY <1>1, <1>2, <1>3

-----------------------------------------------------------------------------
(* Overlaps and rebuilds                                                   *)

LEMMA AloneStep ==
  ASSUME TypeOK, OpTypes, AloneMeans, Next
  PROVE  AloneMeans'
<1>1. PICK a \in Actors :
        Step(a) \/ \E k \in Kinds, ts \in SUBSET Tasks : Begin(a, k, ts)
  BY DEF Next
<1>2. CASE Step(a)
  <2>1. Busy(a) /\ \A b \in Actors \ {a} : op'[b] = op[b]
    BY <1>2, OpStep DEF GoesOn
  <2>2. Busy(a)' => op'[a].alone = op[a].alone
    BY <1>2, OpStep DEF GoesOn, Busy
  <2>3. drifted' = drifted \/ (op[a].alone /\ ~Busy(a)')
    <3>1. CASE AddNext(a)
      <4>1. drifted' = drifted \/ (End(a) /\ drifted' = (drifted /\ ~op[a].alone))
        BY <3>1 DEF AddNext
      <4>2. End(a) => ~Busy(a)'
        BY Moves DEF End, Busy
      <4>3. drifted \in BOOLEAN
        BY DEF TypeOK
      <4> QED
        BY <4>1, <4>2, <4>3, Zenon
    <3>2. CASE drifted' = drifted
      BY <3>2
    <3> QED
      BY <1>2, <3>1, <3>2 DEF Step
  <2>4. ASSUME NEW b \in Actors, Busy(b)'
        PROVE  /\ op'[b].alone => \A c \in Actors \ {b} : ~Busy(c)'
               /\ drifted' \/ op'[b].alone
    <3>1. CASE b = a
      BY <3>1, <2>1, <2>2, <2>3, <2>4 DEF AloneMeans, Busy
    <3>2. CASE b # a
      <4>1. Busy(b) /\ op'[b].alone = op[b].alone
        BY <3>2, <2>1, <2>4 DEF Busy
      <4>2. ~op[b].alone /\ ~op[a].alone
        BY <3>2, <4>1, <2>1 DEF AloneMeans
      <4>3. drifted /\ drifted' = drifted
        BY <4>1, <4>2, <2>3 DEF AloneMeans
      <4> QED
        BY <4>1, <4>2, <4>3
    <3> QED
      BY <3>1, <3>2
  <2> QED
    BY <2>4 DEF AloneMeans
<1>3. CASE \E k \in Kinds, ts \in SUBSET Tasks : Begin(a, k, ts)
  <2>1. PICK k \in Kinds, ts \in SUBSET Tasks : Begin(a, k, ts)
    BY <1>3
  <2>2. /\ op'[a].alone <=> \A c \in Actors : ~Busy(c)
        /\ \A b \in Actors \ {a} :
             IF Busy(b) THEN op'[b] = [op[b] EXCEPT !.alone = FALSE] ELSE op'[b] = Idle
    BY <2>1, Started
  <2>3. \A b \in Actors \ {a} : Busy(b)' => Busy(b) /\ op'[b].alone = FALSE
    BY <2>2, BusyIsOp DEF Busy, Ops
  <2>4. drifted' <=> (drifted \/ \E b \in Actors : Busy(b))
    BY <2>1 DEF Begin
  <2>5. ASSUME NEW b \in Actors, Busy(b)'
        PROVE  /\ op'[b].alone => \A c \in Actors \ {b} : ~Busy(c)'
               /\ drifted' \/ op'[b].alone
    <3>1. CASE b = a
      BY <3>1, <2>2, <2>3, <2>4
    <3>2. CASE b # a
      BY <3>2, <2>3, <2>4, <2>5
    <3> QED
      BY <3>1, <3>2
  <2> QED
    BY <2>5 DEF AloneMeans
<1> QED
  BY <1>1, <1>2, <1>3

LEMMA RebuildingStep ==
  ASSUME TypeOK, OpTypes, AloneMeans, Rebuilding, Next
  PROVE  Rebuilding'
<1>1. PICK a \in Actors :
        Step(a) \/ \E k \in Kinds, ts \in SUBSET Tasks : Begin(a, k, ts)
  BY DEF Next
<1>2. CASE Step(a)
  <2>1. Busy(a) /\ op[a] \in Ops /\ GoesOn(a)
    BY <1>2, OpStep
  <2>2. ASSUME NEW b \in Actors, Busy(b)', op'[b].alone, b # a
        PROVE  FALSE
    <3>1. Busy(b) /\ op[b].alone
      BY <2>1, <2>2 DEF GoesOn, Busy
    <3> QED
      BY <3>1, <2>1, <2>2 DEF AloneMeans
  <2>3. ASSUME Busy(a)', op'[a].alone
        PROVE  /\ op'[a].stage = "query" => sched' = {}
               /\ op'[a].stage = "add" => sched' \cup op'[a].seen = enabled' \cap freq'
    <3>1. op'[a] \in Ops /\ op'[a].kind = op[a].kind /\ op[a].alone
          /\ (op'[a].stage \in {"bulk", "clear", "query", "add"} <=> op[a].kind \in Bulk)
      BY <2>1, <2>3 DEF GoesOn, Busy
    <3>2. CASE op[a].kind \notin Bulk
      BY <3>1, <3>2
    <3>3. CASE BulkUpdate(a) \/ ClearSchedule(a)
      <4>1. \A r \in {"clear", "query"} : Goto(a, r) => op'[a].stage = r
        BY <2>1 DEF Goto, Ops, TypeOK
      <4> QED
        BY <3>3, <4>1 DEF BulkUpdate, ClearSchedule
    <3>4. CASE QueryTasks(a)
      <4>1. op'[a].stage = "add" /\ op'[a].seen = enabled \cap freq
        BY <3>4, <2>1 DEF QueryTasks, ToSchedule, Ops, TypeOK
      <4>2. op[a].stage = "query"
        BY <3>4 DEF QueryTasks, At
      <4>3. sched = {}
        BY <4>2, <3>1, <2>1 DEF Rebuilding
      <4> QED
        BY <3>4, <4>1, <4>3 DEF QueryTasks, table
    <3>5. CASE AddNext(a)
      <4>1. ~End(a)
        BY <2>3, Moves DEF End, Busy
      <4>2. PICK t \in op[a].seen :
              /\ sched' = sched \cup {t}
              /\ op' = [op EXCEPT ![a] = [op[a] EXCEPT !.seen = op[a].seen \ {t}]]
        BY <3>5, <4>1, Zenon DEF AddNext, AddEntry
      <4>3. op'[a].seen = op[a].seen \ {t}
        BY <4>2, <2>1 DEF Ops, TypeOK
      <4>4. op[a].stage = "add"
        BY <3>5 DEF AddNext, At
      <4>5. sched \cup op[a].seen = enabled \cap freq
        BY <4>4, <3>1, <2>1 DEF Rebuilding
      <4>6. op'[a].stage = "add" /\ enabled' = enabled /\ freq' = freq
        BY <3>5, <4>2, <4>4, <2>1 DEF AddNext, table, Ops, TypeOK
      <4> QED
        BY <4>2, <4>3, <4>5, <4>6
    <3>6. op[a].kind \in Bulk =>
            ~Load(a) /\ ~Save(a) /\ ~ReadSchedules(a) /\ ~WriteSchedules(a) /\ ~Commit(a) /\ ~After(a)
      <4>1. op[a].kind \in Bulk => op[a].stage \in {"bulk", "clear", "query", "add"}
        BY <2>1 DEF OpTypes
      <4> QED
        BY <4>1 DEF Load, Save, ReadSchedules, WriteSchedules, Commit, After, At
    <3> QED
      BY <1>2, <3>2, <3>3, <3>4, <3>5, <3>6 DEF Step
  <2> QED
    BY <2>2, <2>3 DEF Rebuilding
<1>3. CASE \E k \in Kinds, ts \in SUBSET Tasks : Begin(a, k, ts)
  <2>1. PICK k \in Kinds, ts \in SUBSET Tasks : Begin(a, k, ts)
    BY <1>3
  <2>2. /\ op'[a].stage \in {"bulk", "load"}
        /\ \A b \in Actors \ {a} :
             IF Busy(b) THEN op'[b] = [op[b] EXCEPT !.alone = FALSE] ELSE op'[b] = Idle
    BY <2>1, Started
  <2>3. \A b \in Actors \ {a} : Busy(b)' => op'[b].alone = FALSE
    BY <2>2, BusyIsOp DEF Busy, Ops
  <2> QED
    BY <2>2, <2>3 DEF Rebuilding
<1> QED
  BY <1>1, <1>2, <1>3

\* A rebuild that was alone ends with the tasks it queried in the schedule.
LEMMA BulkEnds ==
  ASSUME TypeOK, OpTypes, Rebuilding, NEW a \in Actors, Step(a), op[a].kind \in Bulk,
         op[a].alone, op'[a] = Idle
  PROVE  sched' = enabled' \cap freq'
<1>0. Busy(a) /\ op[a] \in Ops /\ \A o \in Ops : o # op'[a]
  BY OpStep, BusyIsOp
<1>1. op[a].stage \in {"bulk", "clear", "query", "add"}
  BY <1>0 DEF OpTypes
<1>2. ~Load(a) /\ ~Save(a) /\ ~ReadSchedules(a) /\ ~WriteSchedules(a) /\ ~Commit(a) /\ ~After(a)
  BY <1>1 DEF Load, Save, ReadSchedules, WriteSchedules, Commit, After, At
<1>3. ~BulkUpdate(a) /\ ~ClearSchedule(a)
  <2>1. \A r \in {"clear", "query"} : Goto(a, r) => op'[a] \in Ops
    BY <1>0 DEF Goto, Ops, Stages, TypeOK
  <2> QED
    BY <2>1, <1>0 DEF BulkUpdate, ClearSchedule
<1>4. ~QueryTasks(a)
  <2>1. ToSchedule \in SUBSET Tasks
    BY DEF ToSchedule, TypeOK
  <2>2. [op[a] EXCEPT !.seen = ToSchedule, !.stage = "add"] \in Ops
    BY <1>0, <2>1 DEF Ops, Stages
  <2>3. QueryTasks(a) => op'[a] \in Ops
    BY <2>2, Moves DEF QueryTasks
  <2> QED
    BY <2>3, <1>0
<1>5. AddNext(a)
  BY <1>2, <1>3, <1>4 DEF Step
<1>6. \A u : op' # [op EXCEPT ![a] = [op[a] EXCEPT !.seen = op[a].seen \ {u}]]
  <2>1. \A u : [op[a] EXCEPT !.seen = op[a].seen \ {u}] \in Ops
    BY <1>0 DEF Ops
  <2> QED
    BY <2>1, <1>0, Moves
<1>7. op[a].stage = "add" /\ op[a].seen = {} /\ UNCHANGED <<sched, enabled, freq>>
  BY <1>5, <1>6 DEF AddNext, At, table
<1> QED
  BY <1>0, <1>7 DEF Rebuilding

-----------------------------------------------------------------------------
(* Saves that nothing overlaps                                             *)

LEMMA SaveStep ==
  ASSUME IInv, NEW a \in Actors, NEW t \in Tasks, Step(a), ~drifted, Own(a, t),
         op[a].kind \notin Bulk
  PROVE  IF Busy(a)' THEN SaveState(a, t)' ELSE Agrees(Tasks)'
<1>0. /\ Busy(a) /\ op[a] \in Ops /\ Task(a) = t /\ op[a].tasks = {t}
      /\ op \in [Actors -> Ops \cup {Idle}]
      /\ SaveState(a, t)
      /\ sched \subseteq Tasks /\ enabled \subseteq rows /\ freq \subseteq rows /\ rows \subseteq Tasks
  BY OpStep, TaskIs DEF IInv, Saving, Own, TypeOK
<1>k. op[a].kind \in Saves \cup {"destroy"} /\ op[a].saved \in BOOLEAN
  BY <1>0 DEF Ops, Kinds
<1>e. End(a) => ~Busy(a)'
  BY Moves DEF End, Busy, IInv
<1>b. op'[a].kind = op[a].kind => Busy(a)'
  <2>1. op[a].kind # "idle"
    BY <1>k DEF Saves
  <2> QED
    BY <2>1 DEF Busy, Idle
<1>f. op[a].stage # "load" =>
        /\ op[a].kind = "schedule" => op[a].fr
        /\ op[a].kind = "unschedule" => ~op[a].fr
  BY <1>0 DEF SaveState
<1>g. ASSUME NEW s \in Stages, Goto(a, s)
      PROVE  op'[a] = [op[a] EXCEPT !.stage = s]
  BY <1>g, <1>0 DEF Goto
<1>1. CASE Load(a)
  <2>0. /\ op[a].stage = "load" /\ Agrees(Tasks) /\ ~op[a].saved
        /\ op[a].kind = "create" => t \notin rows
        /\ rows' = rows /\ enabled' = enabled /\ freq' = freq /\ sched' = sched
    BY <1>1, <1>0 DEF Load, At, SaveState, table
  <2>1. CASE End(a)
    BY <2>0, <2>1, <1>e DEF Agrees
  <2>2. CASE ~End(a)
    <3>1. PICK en \in Assigns(op[a].kind, t \in enabled, "enable", "disable"),
               fr \in Assigns(op[a].kind, t \in freq, "schedule", "unschedule") :
            op' = [op EXCEPT ![a] = [op[a] EXCEPT
               !.en = en, !.fr = fr, !.dirty = Differing(t, en, fr),
               !.stage = IF op[a].kind = "destroy" THEN "read" ELSE "save"]]
      BY <1>1, <2>2, <1>0, Zenon DEF Load
    <3>2. op[a].kind = "create" \/ t \in rows
      BY <1>1, <2>2, <1>0 DEF Load
    <3>3. en \in BOOLEAN /\ fr \in BOOLEAN
      BY AssignsBoolean
    <3>4. op'[a] = [op[a] EXCEPT !.en = en, !.fr = fr, !.dirty = Differing(t, en, fr),
               !.stage = IF op[a].kind = "destroy" THEN "read" ELSE "save"]
      BY <3>1, <1>0
    <3>5. /\ op'[a].en = en /\ op'[a].fr = fr /\ op'[a].dirty = Differing(t, en, fr)
          /\ op'[a].kind = op[a].kind /\ op'[a].saved = FALSE
          /\ op'[a].stage = IF op[a].kind = "destroy" THEN "read" ELSE "save"
      BY <3>4, <1>0, <2>0, <1>k DEF Ops
    <3>6. /\ "enabled" \in Differing(t, en, fr) <=> en # (t \in enabled)
          /\ "frequency" \in Differing(t, en, fr) <=> fr # (t \in freq)
      BY DEF Differing
    <3>7. /\ op[a].kind = "schedule" => fr
          /\ op[a].kind = "unschedule" => ~fr
      BY DEF Assigns
    <3>8. Copy(a, t)'
      BY <3>2, <3>5, <3>6, <2>0 DEF Copy
    <3> QED
      BY <3>5, <3>7, <3>8, <2>0, <1>0 DEF SaveState, Agrees, Destroying, Before, Copy
  <2> QED
    BY <2>1, <2>2
<1>2. CASE Save(a)
  <2>0. /\ op[a].stage = "save" /\ ~op[a].saved /\ Before(a, t) /\ op[a].kind # "destroy"
        /\ rows' = rows /\ enabled' = enabled /\ freq' = freq /\ Agrees(Tasks)
    BY <1>2, <1>0 DEF Save, At, SaveState, Destroying, Afterwards, Before, table
  <2>1. CASE op[a].en /\ op[a].fr
    <3>1. sched' = sched \cup {t} /\ op'[a] = [op[a] EXCEPT !.stage = "commit"]
      BY <1>2, <2>1, <1>0, <1>g DEF Save, AddEntry, Stages
    <3>2. /\ op'[a].stage = "commit" /\ op'[a].kind = op[a].kind /\ op'[a].en = op[a].en
          /\ op'[a].fr = op[a].fr /\ op'[a].dirty = op[a].dirty /\ op'[a].saved = op[a].saved
      BY <3>1, <1>0 DEF Ops
    <3> QED
      <4>1. Agrees(Tasks \ {t})'
        BY <3>1, <2>0 DEF Agrees
      <4>2. Before(a, t)'
        BY <3>1, <3>2, <2>0, <2>1 DEF Before, Copy
      <4> QED
        BY <3>2, <4>1, <4>2, <2>0, <1>f, <1>b DEF SaveState
  <2>2. CASE ~(op[a].en /\ op[a].fr)
    <3>1. sched' = sched /\ op'[a] = [op[a] EXCEPT !.stage = "read"]
      BY <1>2, <2>2, <1>0, <1>g DEF Save, Stages
    <3>2. /\ op'[a].stage = "read" /\ op'[a].kind = op[a].kind /\ op'[a].en = op[a].en
          /\ op'[a].fr = op[a].fr /\ op'[a].dirty = op[a].dirty /\ op'[a].saved = op[a].saved
      BY <3>1, <1>0 DEF Ops
    <3> QED
      BY <3>1, <3>2, <2>0, <2>2, <1>0 DEF SaveState, Agrees, Before, Copy
  <2> QED
    BY <2>1, <2>2
<1>3. CASE ReadSchedules(a)
  <2>1. /\ op[a].stage = "read"
        /\ op'[a] = [op[a] EXCEPT !.seen = sched, !.stage = "write"]
        /\ rows' = rows /\ enabled' = enabled /\ freq' = freq /\ sched' = sched
    BY <1>3, <1>0 DEF ReadSchedules, At, table
  <2>2. /\ op'[a].stage = "write" /\ op'[a].kind = op[a].kind /\ op'[a].en = op[a].en
        /\ op'[a].fr = op[a].fr /\ op'[a].dirty = op[a].dirty /\ op'[a].saved = op[a].saved
        /\ op'[a].seen = sched
    BY <2>1, <1>0 DEF Ops
  <2> QED
    <3>1. Agrees(Tasks \ {t})'
      BY <2>1, <1>0 DEF SaveState, Agrees
    <3>2. Afterwards(a, t) => Afterwards(a, t)'
      BY <2>1, <2>2 DEF Afterwards, Agrees
    <3>3. Destroying(a, t) => Destroying(a, t)'
      BY <2>1, <2>2 DEF Destroying
    <3>4. Before(a, t) => Before(a, t)'
      BY <2>1, <2>2 DEF Before, Copy
    <3>5. \/ op[a].saved /\ op[a].kind \in {"schedule", "unschedule"} /\ Afterwards(a, t)
          \/ ~op[a].saved /\ op[a].kind = "destroy" /\ Destroying(a, t)
          \/ ~op[a].saved /\ op[a].kind # "destroy" /\ Before(a, t)
      BY <2>1, <1>0, <1>k DEF SaveState
    <3> QED
      BY <2>1, <2>2, <3>1, <3>2, <3>3, <3>4, <3>5, <1>f, <1>b DEF SaveState
<1>4. CASE WriteSchedules(a)
  <2>1. /\ op[a].stage = "write" /\ sched' = op[a].seen \ {t}
        /\ op'[a] = [op[a] EXCEPT !.seen = {},
              !.stage = IF op[a].kind \in Saves /\ ~op[a].saved THEN "commit" ELSE "after"]
        /\ rows' = rows /\ enabled' = enabled /\ freq' = freq
    BY <1>4, <1>0 DEF WriteSchedules, WithoutTask, At, table
  <2>2. /\ op'[a].kind = op[a].kind /\ op'[a].en = op[a].en
        /\ op'[a].fr = op[a].fr /\ op'[a].dirty = op[a].dirty /\ op'[a].saved = op[a].saved
        /\ op'[a].stage = IF op[a].kind \in Saves /\ ~op[a].saved THEN "commit" ELSE "after"
    BY <2>1, <1>0 DEF Ops
  <2>3. op[a].seen = sched
    BY <2>1, <1>0 DEF SaveState, Before, Destroying, Afterwards
  <2>4. CASE op[a].saved
    BY <2>1, <2>2, <2>3, <2>4, <1>0 DEF SaveState, Agrees, Afterwards
  <2>5. CASE op[a].kind = "destroy"
    <3>1. Agrees(Tasks \ {t})' /\ t \notin sched' /\ ~op[a].saved
      <4>1. Agrees(Tasks \ {t}) /\ ~op[a].saved
        BY <2>5, <1>0, <1>k DEF SaveState
      <4> QED
        BY <4>1, <2>1, <2>3 DEF Agrees
    <3>2. op'[a].stage = "after"
      BY <2>2, <2>5 DEF Saves
    <3> QED
      BY <2>2, <2>5, <3>1, <3>2, <1>b DEF SaveState, Destroying
  <2>6. CASE ~op[a].saved /\ op[a].kind # "destroy"
    <3>1. Before(a, t) /\ op[a].kind \in Saves /\ op'[a].stage = "commit"
      BY <2>1, <2>2, <2>6, <1>0, <1>k DEF SaveState
    <3> QED
      <4>1. Agrees(Tasks \ {t})'
        BY <2>1, <2>3, <1>0 DEF SaveState, Agrees
      <4>2. Before(a, t)'
        BY <2>1, <2>2, <2>3, <3>1 DEF Before, Copy
      <4> QED
        BY <2>1, <2>2, <2>6, <3>1, <4>1, <4>2, <1>f, <1>b DEF SaveState
  <2> QED
    BY <2>4, <2>5, <2>6
<1>5. CASE Commit(a)
  <2>1. op[a].stage = "commit" /\ sched' = sched
    BY <1>5 DEF Commit, At
  <2>2. ~op[a].saved /\ op[a].kind # "destroy" /\ Before(a, t) /\ Agrees(Tasks \ {t})
    BY <2>1, <1>0 DEF SaveState, Destroying, Afterwards
  <2>3. /\ t \in rows'
        /\ t \in enabled' <=> op[a].en
        /\ t \in freq' <=> op[a].fr
        /\ \A u \in Tasks \ {t} : (u \in enabled' <=> u \in enabled) /\ (u \in freq' <=> u \in freq)
    <3>1. t \in rows'
      BY <1>5, <1>0, <2>2 DEF Commit, Before, Copy
    <3>2. /\ enabled' = Written(enabled, a, "enabled", op[a].en)
          /\ freq' = Written(freq, a, "frequency", op[a].fr)
      BY <1>5 DEF Commit
    <3>3. op[a].en \in BOOLEAN /\ op[a].fr \in BOOLEAN
      BY <1>0 DEF Ops
    <3> QED
      BY <3>1, <3>2, <3>3, <2>2, <1>0 DEF Written, Before, Copy
  <2>4. t \in sched <=> (op[a].en /\ op[a].fr)
    BY <2>1, <2>2 DEF Before
  <2>5. enabled' \subseteq Tasks /\ freq' \subseteq Tasks
    BY <1>0, Types DEF IInv, TypeOK, Next
  <2>6. Agrees(Tasks)'
    BY <2>1, <2>2, <2>3, <2>4, <2>5, <1>0 DEF Agrees
  <2>7. CASE End(a)
    BY <2>6, <2>7, <1>e
  <2>8. CASE ~End(a)
    <3>1. /\ op[a].kind \in {"schedule", "unschedule", "run"}
          /\ op'[a] = [op[a] EXCEPT
              !.saved = (op[a].kind # "run"), !.dirty = {},
              !.stage = IF op[a].kind = "unschedule" THEN "read" ELSE "after"]
      <4>1. /\ op[a].kind \notin {"create", "update", "enable", "disable"}
            /\ op' = [op EXCEPT ![a] = [op[a] EXCEPT
              !.saved = (op[a].kind # "run"), !.dirty = {},
              !.stage = IF op[a].kind = "unschedule" THEN "read" ELSE "after"]]
        BY <1>5, <2>8, Zenon DEF Commit
      <4> QED
        BY <4>1, <2>2, <1>0, <1>k DEF Saves
    <3>2. /\ op'[a].kind = op[a].kind /\ op'[a].en = op[a].en /\ op'[a].fr = op[a].fr
          /\ op'[a].dirty = {} /\ op'[a].saved = (op[a].kind # "run")
          /\ op'[a].stage = IF op[a].kind = "unschedule" THEN "read" ELSE "after"
      BY <3>1, <1>0 DEF Ops
    <3>3. Agrees(Tasks \ {t})'
      BY <2>6 DEF Agrees
    <3>4. CASE op[a].kind = "run"
      <4>1. Copy(a, t)'
        BY <3>2, <3>4, <2>3, <1>0 DEF Copy, Ops
      <4> QED
        BY <3>2, <3>3, <3>4, <4>1, <2>6 DEF SaveState
    <3>5. CASE op[a].kind = "schedule"
      BY <3>2, <3>3, <3>5, <2>1, <2>3, <2>6, <1>0 DEF SaveState, Afterwards
    <3>6. CASE op[a].kind = "unschedule"
      BY <3>2, <3>3, <3>6, <2>1, <2>3, <2>6, <1>0 DEF SaveState, Afterwards
    <3> QED
      BY <3>1, <3>4, <3>5, <3>6
  <2> QED
    BY <2>7, <2>8
<1>6. CASE After(a)
  <2>1. op[a].stage = "after"
    BY <1>6 DEF After, At
  <2>2. CASE op[a].kind = "destroy"
    <3>1. t \notin sched /\ Agrees(Tasks \ {t})
      BY <2>1, <2>2, <1>0 DEF SaveState, Destroying
    <3>2. /\ enabled' = enabled \ {t} /\ freq' = freq \ {t} /\ sched' = sched /\ End(a)
      BY <1>6, <2>2, <1>0 DEF After
    <3> QED
      BY <3>1, <3>2, <1>e DEF Agrees
  <2>3. CASE op[a].kind = "run"
    <3>1. /\ Agrees(Tasks) /\ op[a].dirty = {} /\ Copy(a, t) /\ ~op[a].saved
          /\ rows' = rows /\ enabled' = enabled /\ freq' = freq /\ sched' = sched
      BY <1>6, <2>1, <2>3, <1>0 DEF After, SaveState, Before, table
    <3>2. CASE End(a)
      BY <3>1, <3>2, <1>e DEF Agrees
    <3>3. CASE Goto(a, "save")
      <4>1. op'[a] = [op[a] EXCEPT !.stage = "save"]
        BY <3>3, <1>g DEF Stages
      <4>2. /\ op'[a].stage = "save" /\ op'[a].kind = op[a].kind /\ op'[a].en = op[a].en
            /\ op'[a].fr = op[a].fr /\ op'[a].dirty = op[a].dirty /\ op'[a].saved = op[a].saved
        BY <4>1, <1>0 DEF Ops
      <4> QED
        BY <3>1, <4>2, <2>3 DEF SaveState, Before, Copy, Agrees
    <3> QED
      BY <1>6, <2>3, <3>2, <3>3 DEF After
  <2>4. CASE op[a].kind \in {"schedule", "unschedule"}
    <3>1. Afterwards(a, t)
      BY <2>1, <2>4, <1>0 DEF SaveState, Before
    <3>2. /\ End(a) /\ rows' = rows /\ enabled' = enabled /\ freq' = freq
          /\ sched' = IF op[a].kind = "schedule" THEN sched \cup {t} ELSE sched
      BY <1>6, <2>4, <1>0 DEF After, AddEntry, table
    <3> QED
      BY <3>1, <3>2, <2>4, <1>e DEF Afterwards, Agrees
  <2> QED
    BY <1>6, <2>2, <2>3, <2>4 DEF After
<1>7. ~BulkUpdate(a) /\ ~ClearSchedule(a) /\ ~QueryTasks(a) /\ ~AddNext(a)
  <2>1. op[a].stage \notin {"bulk", "clear", "query", "add"}
    BY <1>0 DEF IInv, OpTypes
  <2> QED
    BY <2>1 DEF BulkUpdate, ClearSchedule, QueryTasks, AddNext, At
<1> QED
  BY <1>1, <1>2, <1>3, <1>4, <1>5, <1>6, <1>7 DEF Step

LEMMA SavingStep ==
  ASSUME IInv, Next
  PROVE  Saving' /\ IdleInSync'
<1>0. TypeOK /\ OpTypes /\ AloneMeans /\ Rebuilding
  BY DEF IInv
<1>1. PICK a \in Actors :
        Step(a) \/ \E k \in Kinds, ts \in SUBSET Tasks : Begin(a, k, ts)
  BY DEF Next
<1>2. CASE Step(a)
  <2>1. Busy(a) /\ op[a] \in Ops /\ GoesOn(a)
    BY <1>2, <1>0, OpStep
  <2>2. Busy(a)' => op'[a].kind = op[a].kind /\ op'[a].tasks = op[a].tasks
    BY <2>1 DEF GoesOn, Busy
  <2>3. AddNext(a) => op[a].kind \in Bulk
    BY <2>1, <1>0 DEF AddNext, At, OpTypes
  <2>4. ASSUME op[a].kind \notin Bulk, ~drifted'
        PROVE  /\ ~drifted
               /\ \A b \in Actors \ {a} : ~Busy(b)'
               /\ \E t \in Tasks : Own(a, t)
    <3>1. ~drifted
      BY <1>2, <2>3, <2>4 DEF Step
    <3>2. op[a].alone
      BY <3>1, <2>1, <1>0 DEF AloneMeans
    <3> QED
      BY <3>1, <3>2, <2>1, <2>4, <1>0 DEF AloneMeans, GoesOn, OpTypes, Busy
  <2>5. ASSUME op[a].kind \in Bulk, ~drifted'
        PROVE  /\ \A b \in Actors \ {a} : ~Busy(b)'
               /\ ~Busy(a)' => Agrees(Tasks)'
    <3>1. drifted' = drifted \/ (AddNext(a) /\ drifted' = (drifted /\ ~op[a].alone))
      BY <1>2 DEF Step, AddNext
    <3>2. op[a].alone
      <4>1. drifted \in BOOLEAN /\ op[a].alone \in BOOLEAN
        BY <1>0, <2>1 DEF TypeOK, Ops
      <4>2. drifted \/ op[a].alone
        BY <2>1, <1>0 DEF AloneMeans
      <4> QED
        BY <3>1, <2>5, <4>1, <4>2, Zenon
    <3>3. \A b \in Actors \ {a} : ~Busy(b)'
      BY <3>2, <2>1, <1>0 DEF AloneMeans, GoesOn, Busy
    <3>4. ASSUME ~Busy(a)'
          PROVE  Agrees(Tasks)'
      <4>1. sched' = enabled' \cap freq'
        BY <1>0, <1>2, <2>1, <2>5, <3>2, <3>4, BulkEnds DEF Busy
      <4> QED
        BY <4>1 DEF Agrees
    <3> QED
      BY <3>3, <3>4
  <2>6. ASSUME NEW t \in Tasks, op[a].kind \notin Bulk, ~drifted, Own(a, t)
        PROVE  IF Busy(a)' THEN SaveState(a, t)' ELSE Agrees(Tasks)'
    BY <1>2, <2>6, SaveStep
  <2>7. Saving'
    <3> SUFFICES ASSUME ~drifted', NEW b \in Actors, NEW t \in Tasks, Busy(b)', op'[b].kind \notin Bulk, Own(b, t)'
                 PROVE  SaveState(b, t)'
      BY DEF Saving
    <3>1. b = a
      BY <2>4, <2>5
    <3>2. op[a].kind \notin Bulk /\ Own(a, t)
      BY <3>1, <2>2 DEF Own
    <3> QED
      BY <3>1, <3>2, <2>4, <2>6
  <2>8. IdleInSync'
    <3> SUFFICES ASSUME ~drifted', \A b \in Actors : ~Busy(b)'
                 PROVE  Agrees(Tasks)'
      BY DEF IdleInSync, AllIdle
    <3> QED
      BY <2>4, <2>5, <2>6
  <2> QED
    BY <2>7, <2>8
<1>3. CASE \E k \in Kinds, ts \in SUBSET Tasks : Begin(a, k, ts)
  <2>1. PICK k \in Kinds, ts \in SUBSET Tasks : Begin(a, k, ts)
    BY <1>3
  <2>2. /\ op' \in [Actors -> Ops \cup {Idle}]
        /\ op'[a].kind = k /\ op'[a].tasks = ts /\ op'[a].seen = {} /\ ~op'[a].saved
        /\ op'[a].stage = IF k \in Bulk THEN "bulk" ELSE "load"
        /\ \A b \in Actors \ {a} : ~Busy(b) => op'[b] = Idle
    BY <2>1, <1>0, Started
  <2>3. /\ rows' = rows /\ enabled' = enabled /\ freq' = freq /\ sched' = sched
        /\ k = "create" => ts \subseteq fresh
        /\ ~drifted' => ~drifted /\ AllIdle
    BY <2>1 DEF Begin, AllIdle
  <2>4. Busy(a)'
    <3>1. k # "idle"
      BY DEF Kinds, Saves, Bulk
    <3> QED
      BY <3>1, <2>2 DEF Busy, Idle
  <2>5. ~drifted' => Agrees(Tasks)
    BY <2>3 DEF IInv, IdleInSync
  <2>6. Saving'
    <3> SUFFICES ASSUME ~drifted', NEW b \in Actors, NEW t \in Tasks, Busy(b)', op'[b].kind \notin Bulk, Own(b, t)'
                 PROVE  SaveState(b, t)'
      BY DEF Saving
    <3>1. b = a
      BY <2>2, <2>3 DEF AllIdle, Busy
    <3>2. op'[a].stage = "load" /\ op'[a].kind = k /\ ~op'[a].saved
      BY <3>1, <2>2
    <3>3. k = "create" => t \notin rows
      BY <3>1, <2>2, <2>3, <1>0 DEF Own, TypeOK
    <3>4. Agrees(Tasks)' /\ Agrees(Tasks \ {t})'
      BY <2>3, <2>5 DEF Agrees
    <3> QED
      BY <3>1, <3>2, <3>3, <3>4, <2>3 DEF SaveState
  <2>7. IdleInSync'
    BY <2>4 DEF IdleInSync, AllIdle
  <2> QED
    BY <2>6, <2>7
<1> QED
  BY <1>1, <1>2, <1>3

-----------------------------------------------------------------------------
LEMMA InitInv == Init => IInv
<1> SUFFICES ASSUME Init
             PROVE  IInv
  OBVIOUS
<1>1. \A a \in Actors : op[a] = Idle
  BY DEF Init
<1>2. \A a \in Actors : ~Busy(a)
  BY <1>1 DEF Busy
<1>3. TypeOK
  BY DEF Init, TypeOK
<1>4. Agrees(Tasks)
  BY DEF Init, Agrees
<1> QED
  BY <1>2, <1>3, <1>4 DEF IInv, OpTypes, AloneMeans, Rebuilding, Saving, IdleInSync

LEMMA NextInv == IInv /\ [Next]_vars => IInv'
<1>1. ASSUME IInv, Next
      PROVE  IInv'
  <2>1. TypeOK /\ OpTypes /\ AloneMeans /\ Rebuilding
    BY <1>1 DEF IInv
  <2> QED
    BY <1>1, <2>1, Types, AloneStep, RebuildingStep, SavingStep DEF IInv
<1>2. ASSUME IInv, UNCHANGED vars
      PROVE  IInv'
  BY <1>2 DEF IInv, vars, TypeOK, OpTypes, AloneMeans, Rebuilding, Saving, IdleInSync, AllIdle,
     Busy, Own, SaveState, Agrees, Copy, Before, Afterwards, Destroying
<1> QED
  BY <1>1, <1>2

\* The invariant of the argument: what a save or a rebuild that nothing
\* overlaps has left of the schedule at each of its stages.
THEOREM Invariance == Spec => []IInv
<1> QED
  BY InitInv, NextInv, PTL DEF Spec

\* Every save writes to rows that exist, and only tasks that once had an id
\* have entries in the schedule.
THEOREM TypeCorrect == Spec => []TypeOK
<1>1. IInv => TypeOK
  BY DEF IInv
<1> QED
  BY <1>1, Invariance, PTL

\* Between operations, unless some overlapped since the last rebuild that ran
\* undisturbed, each enabled task with a frequency has its entry, and no task
\* without a frequency has one (Task#update_schedule).
THEOREM SchedulesInSync == Spec => []InSync
<1>1. IInv => InSync
  <2> SUFFICES ASSUME IInv, AllIdle, ~drifted
               PROVE  enabled \cap freq \subseteq sched /\ sched \subseteq freq
    BY DEF InSync
  <2>1. Agrees(Tasks) /\ enabled \cap freq \subseteq Tasks /\ sched \subseteq Tasks
    BY DEF IInv, IdleInSync, TypeOK
  <2> QED
    BY <2>1 DEF Agrees
<1> QED
  BY <1>1, Invariance, PTL

\* A boot or a bulk update that runs undisturbed leaves exactly the enabled
\* tasks with a frequency in the schedule, whatever was there before
\* (Task.update_schedules).
THEOREM RebuildRepairs == Spec => RepairedByRebuild
<1>1. ASSUME IInv, Next, NEW a \in Actors, Busy(a), op[a].kind \in Bulk, op[a].alone, op'[a] = Idle
      PROVE  sched' = enabled' \cap freq'
  <2>0. TypeOK /\ OpTypes /\ AloneMeans /\ Rebuilding /\ op[a] \in Ops
    BY <1>1, BusyIsOp DEF IInv
  <2>1. PICK b \in Actors :
          Step(b) \/ \E k \in Kinds, ts \in SUBSET Tasks : Begin(b, k, ts)
    BY <1>1 DEF Next
  <2>2. ~\E k \in Kinds, ts \in SUBSET Tasks : Begin(b, k, ts)
    <3> SUFFICES ASSUME NEW k \in Kinds, NEW ts \in SUBSET Tasks, Begin(b, k, ts)
                 PROVE  FALSE
      OBVIOUS
    <3>1. b # a
      BY <1>1 DEF Begin
    <3>2. op'[a] = [op[a] EXCEPT !.alone = FALSE]
      BY <3>1, <1>1, <2>0, Started
    <3>3. op'[a] \in Ops
      BY <3>2, <2>0 DEF Ops
    <3> QED
      BY <3>3, <1>1, <2>0, BusyIsOp
  <2>3. Step(b) /\ b = a
    <3>1. Step(b) /\ Busy(b)
      BY <2>0, <2>1, <2>2, OpStep
    <3> QED
      BY <3>1, <1>1, <2>0 DEF AloneMeans
  <2> QED
    BY <1>1, <2>0, <2>3, BulkEnds
<1>2. IInv /\ [Next]_vars =>
        [\A a \in Actors :
           (Busy(a) /\ op[a].kind \in Bulk /\ op[a].alone /\ op'[a] = Idle)
             => sched' = enabled' \cap freq']_vars
  BY <1>1
<1> QED
  BY <1>2, Invariance, PTL DEF Spec, RepairedByRebuild
=============================================================================
