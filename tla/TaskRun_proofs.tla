--------------------------- MODULE TaskRun_proofs ----------------------------
(***************************************************************************)
(* What a run records as its own saves is its own, for every number of     *)
(* threads, tasks and jobs, until an exception lets a run escape.          *)
(*                                                                         *)
(* A job is on at most one thread, and never comes back (PlacesOK).  While *)
(* a run is on a thread, the notes in the locals are the saves of that run *)
(* (SavesOK, Clean), and the notes of its workers are in the Redis set and *)
(* then in its copy of the metadata (Gathered): no worker is at work once  *)
(* the run has left its loop (PartsOK).  So whatever reaches the lists of  *)
(* a task was saved by a job of that task, or by a screenshot job (Goods). *)
(***************************************************************************)
EXTENDS TaskRun, TLAPS

InRun == {"created", "waiting", "running", "importing", "failed", "ending"}
NotesOf(t) == IF local[t].results = None THEN {} ELSE local[t].results

PlacesOK ==
  \A t \in Threads :
    /\ on[t].pc = "idle" <=> on[t].job = None
    /\ on[t].pc = "working" => on[t].job \in Parts \/ KindOf[on[t].job] = "screenshot"
    /\ on[t].pc \notin {"idle", "working"} => on[t].job \in Runs
    /\ on[t].pc = "waiting" => KindOf[on[t].job] = "async"
    /\ on[t].job \notin over
    /\ \A s \in Threads : on[s].job = on[t].job /\ on[t].job # None => s = t

LocalOK ==
  \A t \in Threads :
    /\ on[t].pc \in {"created", "running", "importing"} /\ KindOf[on[t].job] # "async" =>
         local[t].task # None
    /\ on[t].pc \in InRun /\ KindOf[on[t].job] = "async" =>
         IF local[t].task = None THEN local[t].results = None ELSE on[t].pc \in {"failed", "ending"}
    /\ on[t].pc \in {"waiting", "running", "importing"} /\ KindOf[on[t].job] = "async" => local[t].parent = None
    /\ local[t].parent # None => KindOf[local[t].parent] = "async"
    /\ on[t].job \in Parts => local[t].parent = ParentOf[on[t].job]
    /\ on[t].pc \in InRun /\ KindOf[on[t].job] # "async" /\ on[t].job \notin Refused =>
         on[t].mem.current = {}

PartsOK ==
  /\ \A p \in Parts : Taken(p) => Taken(ParentOf[p])
  /\ \A t \in Threads : on[t].job \in Parts =>
       \E s \in Threads : on[s].pc = "waiting" /\ on[s].job = ParentOf[on[t].job]
  /\ \A t \in Threads :
       on[t].pc \in {"loaded", "created"} \/ (on[t].pc \in InRun /\ local[t].task # None) =>
         \A p \in PartsOf(on[t].job) : ~Taken(p)

SavesOK ==
  /\ \A n \in saves : Taken(n[1])
  /\ \A t \in Threads :
       /\ on[t].pc = "loaded" => SavesOf({on[t].job}) = {}
       /\ on[t].pc \in InRun /\ KindOf[on[t].job] # "async" =>
            SavesOf({on[t].job}) \subseteq NotesOf(t)

\* A thread outside a run has no task and no notes.
Clean ==
  \A t \in Threads :
    IF on[t].pc \in InRun THEN NotesOf(t) \subseteq SavesOf({on[t].job})
                          ELSE local[t].task = None /\ NotesOf(t) = {}

Gathered ==
  \A t \in Threads :
    on[t].pc \in InRun \ {"created"} /\ KindOf[on[t].job] = "async" =>
      SavesOf(PartsOf(on[t].job)) \subseteq
        (IF on[t].pc = "waiting" THEN redis[on[t].job] ELSE on[t].mem.current)

\* The notes that may be in the lists of k.
Good(k) ==
  {n \in Notes : KindOf[n[1]] = "screenshot" \/ (n[1] \in Runs \cup Parts /\ TaskOf[n[1]] = k)}

Goods ==
  /\ \A k \in Tasks : row[k].current \cup row[k].previous \subseteq Good(k)
  /\ \A t \in Threads : on[t].job \in Runs =>
       on[t].mem.current \cup on[t].mem.previous \subseteq Good(TaskOf[on[t].job])
  /\ \A j \in Jobs : IF KindOf[j] = "async" THEN redis[j] \subseteq Good(TaskOf[j])
                                            ELSE redis[j] = {}

IInv ==
  /\ TypeOK /\ PlacesOK /\ LocalOK /\ PartsOK /\ SavesOK
  /\ escaped = {} => Clean /\ Gathered /\ Goods

USE TaskRunAssumption

-----------------------------------------------------------------------------
(* What a step does to its thread; the other threads stand still.          *)

OnTypes == [pc : Places, job : Jobs \cup {None}, mem : Lists]
LocalTypes == [task : Tasks \cup {None}, parent : Jobs \cup {None},
               results : {None} \cup SUBSET Notes]

Thread(t, p, j, m) ==
  /\ on' \in [Threads -> OnTypes]
  /\ on'[t].pc = p /\ on'[t].job = j /\ on'[t].mem = m
  /\ \A s \in Threads \ {t} : on'[s] = on[s]

Locals(t, k, j, r) ==
  /\ local' \in [Threads -> LocalTypes]
  /\ local'[t].task = k /\ local'[t].parent = j /\ local'[t].results = r
  /\ \A s \in Threads \ {t} : local'[s] = local[s]

Stored(k, m) ==
  /\ row' \in [Tasks -> Lists]
  /\ row'[k] = m /\ \A i \in Tasks \ {k} : row'[i] = row[i]

LEMMA SetsThread ==
  ASSUME TypeOK, NEW t \in Threads, NEW o \in OnTypes, on' = [on EXCEPT ![t] = o]
  PROVE  Thread(t, o.pc, o.job, o.mem)
BY DEF TypeOK, Thread, OnTypes

LEMMA Goes ==
  ASSUME TypeOK, NEW t \in Threads, NEW p \in Places, NEW m \in Lists, Go(t, p, m)
  PROVE  Thread(t, p, on[t].job, m)
<1>1. on[t] \in OnTypes
  BY DEF TypeOK, OnTypes
<1> DEFINE o == [on[t] EXCEPT !.pc = p, !.mem = m]
<1>2. o \in OnTypes /\ o.pc = p /\ o.job = on[t].job /\ o.mem = m
  BY <1>1 DEF OnTypes
<1>3. on' = [on EXCEPT ![t] = o]
  BY <1>1 DEF Go, TypeOK, OnTypes
<1> HIDE DEF o
<1> QED
  BY <1>2, <1>3, SetsThread DEF Thread

LEMMA Types ==
  ASSUME TypeOK, NEW t \in Threads
  PROVE  /\ on[t] \in OnTypes /\ on[t].pc \in Places /\ on[t].job \in Jobs \cup {None}
         /\ on[t].mem \in Lists
         /\ local[t] \in LocalTypes /\ local[t].task \in Tasks \cup {None}
         /\ local[t].parent \in Jobs \cup {None} /\ local[t].results \in {None} \cup SUBSET Notes
         /\ NotesOf(t) \subseteq Notes
BY DEF TypeOK, OnTypes, LocalTypes, NotesOf

LEMMA RunsAreJobs ==
  /\ Runs \subseteq Jobs /\ Parts \subseteq Jobs /\ Runs \cap Parts = {}
  /\ \A j \in Runs \cup Parts : TaskOf[j] \in Tasks /\ KindOf[j] # "screenshot"
  /\ \A j \in Jobs : KindOf[j] = "async" => j \in Runs
  /\ \A p \in Parts : ParentOf[p] \in Runs /\ KindOf[ParentOf[p]] = "async" /\ p \in PartsOf(ParentOf[p])
                      /\ TaskOf[ParentOf[p]] = TaskOf[p]
  /\ \A j \in Runs : KindOf[j] # "async" => PartsOf(j) = {}
  /\ \A j \in Refused : j \in Runs /\ KindOf[j] # "async"
BY DEF Refused, Runs, Parts, PartsOf, Kinds

-----------------------------------------------------------------------------
(* The actions, one after the other.                                       *)

LEMMA LoadTaskStep ==
  ASSUME IInv, NEW t \in Threads, NEW j \in Jobs, LoadTask(t, j)
  PROVE  IInv'
<1>1. TypeOK /\ PlacesOK /\ LocalOK /\ PartsOK /\ SavesOK
  BY DEF IInv
<1>2. /\ on[t].pc = "idle" /\ ~Taken(j) /\ j \in Runs /\ row[TaskOf[j]] \in Lists
      /\ local' = local /\ redis' = redis /\ row' = row /\ over' = over
      /\ escaped' = escaped /\ saves' = saves
  BY <1>1, RunsAreJobs DEF LoadTask, At, TypeOK
<1>3. Thread(t, "loaded", j, row[TaskOf[j]])
  <2> DEFINE o == [pc |-> "loaded", job |-> j, mem |-> row[TaskOf[j]]]
  <2>1. o \in OnTypes /\ on' = [on EXCEPT ![t] = o]
    BY <1>2 DEF LoadTask, OnTypes, Places
  <2> QED
    BY <2>1, <1>1, SetsThread
<1>4. on[t].job = None /\ j # None /\ \A i \in Jobs : Taken(i)' <=> Taken(i) \/ i = j
  BY <1>1, <1>2, <1>3 DEF Thread, Taken, PlacesOK
<1>5. TypeOK'
  BY <1>1, <1>2, <1>3 DEF TypeOK, Thread, OnTypes
<1>6. PlacesOK'
  BY <1>1, <1>2, <1>3, <1>4 DEF PlacesOK, Thread, Taken
<1>7. LocalOK'
  BY <1>1, <1>2, <1>3, <1>4, RunsAreJobs DEF LocalOK, Thread, InRun
<1>8. PartsOK'
  BY <1>1, <1>2, <1>3, <1>4, RunsAreJobs DEF PartsOK, Thread, PartsOf, InRun
<1>9. SavesOK'
  <2>1. \A n \in saves : n[1] \in Jobs /\ Taken(n[1])
    BY <1>1 DEF SavesOK, TypeOK, Notes
  <2>2. SavesOf({j})' = {}
    BY <2>1, <1>2 DEF SavesOf
  <2> QED
    BY <1>1, <1>2, <1>3, <1>4, <2>1, <2>2 DEF SavesOK, Thread, SavesOf, NotesOf, InRun
<1>10. ASSUME escaped' = {}
       PROVE  Clean' /\ Gathered' /\ Goods'
  <2>1. Clean /\ Gathered /\ Goods
    BY <1>10, <1>2 DEF IInv
  <2>2. Clean'
    BY <2>1, <1>2, <1>3 DEF Clean, Thread, SavesOf, NotesOf, InRun
  <2>3. Gathered'
    BY <2>1, <1>2, <1>3 DEF Gathered, Thread, SavesOf, InRun
  <2>4. Goods'
    BY <2>1, <1>2, <1>3, RunsAreJobs DEF Goods, Thread, Good
  <2> QED
    BY <2>2, <2>3, <2>4
<1> QED
  BY <1>5, <1>6, <1>7, <1>8, <1>9, <1>10 DEF IInv

LEMMA RefuseStep ==
  ASSUME IInv, NEW t \in Threads, Refuse(t)
  PROVE  IInv'
<1>1. TypeOK /\ PlacesOK /\ LocalOK /\ PartsOK /\ SavesOK
  BY DEF IInv
<1>0. PICK j : on[t].job = j
  OBVIOUS
<1>2. /\ on[t].job = j /\ on[t].pc = "loaded" /\ j \in Runs /\ j \in Refused /\ KindOf[j] # "async"
      /\ local' = local /\ redis' = redis /\ row' = row /\ over' = over
      /\ escaped' = escaped /\ saves' = saves
  BY <1>0, RunsAreJobs DEF Refuse, At
<1>3. Thread(t, "failed", j, on[t].mem)
  <2>1. "failed" \in Places /\ on[t].mem \in Lists
    BY <1>1, Types DEF Places
  <2> QED
    BY <2>1, <1>1, <1>2, Goes DEF Refuse
<1>6. \A i \in Jobs : Taken(i)' <=> Taken(i)
  BY <1>1, <1>2, <1>3 DEF Thread, Taken
<1>8. TypeOK'
  BY <1>1, <1>2, <1>3 DEF TypeOK, Thread, OnTypes
<1>9. PlacesOK'
  BY <1>1, <1>2, <1>3 DEF PlacesOK, Thread
<1>10. LocalOK'
  BY <1>1, <1>2, <1>3, RunsAreJobs DEF LocalOK, Thread, InRun
<1>11. PartsOK'
  BY <1>1, <1>2, <1>3, <1>6, RunsAreJobs DEF PartsOK, Thread, PartsOf, InRun
<1>12. SavesOK'
  <2>1. \A n \in saves : n[1] \in Jobs /\ Taken(n[1])'
    BY <1>1, <1>6 DEF SavesOK, TypeOK, Notes
  <2> QED
    BY <1>1, <1>2, <1>3, <2>1 DEF SavesOK, Thread, SavesOf, NotesOf, InRun
<1>13. ASSUME escaped' = {}
       PROVE  Clean' /\ Gathered' /\ Goods'
  <2>1. Clean /\ Gathered /\ Goods
    BY <1>13, <1>2 DEF IInv
  <2>2. Clean'
    BY <2>1, <1>2, <1>3 DEF Clean, Thread, SavesOf, NotesOf, InRun
  <2>3. Gathered'
    BY <2>1, <1>2, <1>3 DEF Gathered, Thread, SavesOf, InRun
  <2>4. Goods'
    BY <2>1, <1>2, <1>3, RunsAreJobs DEF Goods, Thread, Good
  <2> QED
    BY <2>2, <2>3, <2>4
<1> QED
  BY <1>8, <1>9, <1>10, <1>11, <1>12, <1>13 DEF IInv

LEMMA InitializeStep ==
  ASSUME IInv, NEW t \in Threads, Initialize(t)
  PROVE  IInv'
<1>1. TypeOK /\ PlacesOK /\ LocalOK /\ PartsOK /\ SavesOK
  BY DEF IInv
<1>0. PICK j : on[t].job = j
  OBVIOUS
<1> DEFINE m == Moved(on[t].mem)
<1>2. /\ on[t].job = j /\ on[t].pc = "loaded" /\ j \in Runs /\ TaskOf[j] \in Tasks
      /\ redis' = redis /\ over' = over /\ escaped' = escaped /\ saves' = saves
  BY <1>0, <1>1, RunsAreJobs DEF Initialize, At, PlacesOK
<1>m. m \in Lists /\ m.current = {}
      /\ m.previous \subseteq on[t].mem.current \cup on[t].mem.previous
  BY <1>1, Types, ZenonT(30) DEF Moved, Lists
<1> DEFINE l == Tracked(local[t], TaskOf[j])
<1>t. /\ local[t] \in LocalTypes
      /\ l \in LocalTypes /\ l.task = TaskOf[j] /\ l.parent = local[t].parent /\ l.results = local[t].results
      /\ Untracked(l) \in LocalTypes /\ Untracked(l).task = None
      /\ Untracked(l).parent = local[t].parent /\ Untracked(l).results = None
  BY <1>1, <1>2, Types, ZenonT(30) DEF Tracked, Untracked, LocalTypes
<1>s. \A r \in LocalTypes : local' = [local EXCEPT ![t] = r] => Locals(t, r.task, r.parent, r.results)
  BY <1>1 DEF Locals, TypeOK, LocalTypes
<1>3. PICK p \in {"created", "failed"}, k \in {TaskOf[j], None} :
        /\ Thread(t, p, j, m)
        /\ IF k = None THEN KindOf[j] = "async" /\ Locals(t, None, local[t].parent, None)
                       ELSE /\ Locals(t, k, local[t].parent, local[t].results)
                            /\ p = "failed" \/ KindOf[j] # "async"
  <2>1. \A p \in {"created", "failed"} : Go(t, p, m) => Thread(t, p, j, m)
    <3>1. {"created", "failed"} \subseteq Places
      BY DEF Places
    <3> QED
      BY <3>1, <1>1, <1>2, <1>m, Goes
  <2>2. TaskOf[j] # None
    BY <1>2
  <2>3. CASE Go(t, "failed", m) /\ local' = [local EXCEPT ![t] = l]
    BY <2>1, <2>2, <2>3, <1>t, <1>s
  <2>4. CASE /\ \E p \in {"created", "failed"} : Go(t, p, m)
             /\ local' = [local EXCEPT ![t] = IF Kind(t) = "async" THEN Untracked(l) ELSE l]
    <3>1. PICK p \in {"created", "failed"} : Go(t, p, m)
      BY <2>4
    <3>2. Thread(t, p, j, m)
      BY <2>1, <3>1
    <3>3. CASE KindOf[j] = "async"
      <4>1. local' = [local EXCEPT ![t] = Untracked(l)]
        BY <2>4, <3>3, <1>2 DEF Kind
      <4>2. Locals(t, None, local[t].parent, None)
        BY <4>1, <1>t, <1>s
      <4> QED
        BY <4>2, <3>2, <3>3
    <3>4. CASE KindOf[j] # "async"
      <4>1. local' = [local EXCEPT ![t] = l]
        BY <2>4, <3>4, <1>2 DEF Kind
      <4>2. Locals(t, TaskOf[j], local[t].parent, local[t].results)
        BY <4>1, <1>t, <1>s
      <4> QED
        BY <4>2, <3>2, <3>4, <2>2
    <3> QED
      BY <3>3, <3>4
  <2> QED
    BY <2>3, <2>4, <1>2 DEF Initialize
<1>4. Stored(TaskOf[j], m)
  BY <1>1, <1>2, <1>m DEF Initialize, Store, Stored, TypeOK
<1>5. /\ local' \in [Threads -> LocalTypes] /\ local'[t].parent = local[t].parent
      /\ \A s \in Threads \ {t} : local'[s] = local[s]
      /\ NotesOf(t)' \subseteq NotesOf(t)
  BY <1>3 DEF Locals, NotesOf
<1>k. /\ KindOf[j] # "async" => local'[t].task # None
      /\ KindOf[j] = "async" => IF local'[t].task = None THEN local'[t].results = None ELSE p = "failed"
  BY <1>2, <1>3 DEF Locals
<1>6. \A i \in Jobs : Taken(i)' <=> Taken(i)
  BY <1>1, <1>2, <1>3 DEF Thread, Taken
<1>7. \A i \in PartsOf(j) : ~Taken(i)
  BY <1>1, <1>2 DEF PartsOK
<1> HIDE DEF m, l
<1>8. TypeOK'
  BY <1>1, <1>2, <1>3, <1>4, <1>5 DEF TypeOK, Thread, Stored, OnTypes, LocalTypes
<1>9. PlacesOK'
  BY <1>1, <1>2, <1>3 DEF PlacesOK, Thread
<1>10. LocalOK'
  BY <1>1, <1>2, <1>3, <1>5, <1>k, <1>m, RunsAreJobs DEF LocalOK, Thread, InRun
<1>11. PartsOK'
  BY <1>1, <1>2, <1>3, <1>5, <1>6, <1>7, RunsAreJobs DEF PartsOK, Thread, PartsOf, InRun
<1>12. SavesOK'
  <2>1. \A n \in saves : n[1] \in Jobs /\ Taken(n[1])'
    BY <1>1, <1>6 DEF SavesOK, TypeOK, Notes
  <2>2. SavesOf({j})' = {}
    BY <1>1, <1>2 DEF SavesOK, SavesOf
  <2> QED
    BY <1>1, <1>2, <1>3, <1>5, <2>1, <2>2 DEF SavesOK, Thread, SavesOf, NotesOf, InRun
<1>13. ASSUME escaped' = {}
       PROVE  Clean' /\ Gathered' /\ Goods'
  <2>1. Clean /\ Gathered /\ Goods
    BY <1>13, <1>2 DEF IInv
  <2>2. Clean'
    <3>1. NotesOf(t) = {}
      BY <2>1, <1>2 DEF Clean, InRun
    <3> QED
      BY <2>1, <3>1, <1>2, <1>3, <1>5 DEF Clean, Thread, SavesOf, NotesOf, InRun
  <2>3. Gathered'
    <3>1. SavesOf(PartsOf(j))' = {}
      BY <1>1, <1>2, <1>7 DEF SavesOK, SavesOf
    <3> QED
      BY <2>1, <3>1, <1>2, <1>3 DEF Gathered, Thread, SavesOf, InRun
  <2>4. Goods'
    <3>1. on[t].mem.current \cup on[t].mem.previous \subseteq Good(TaskOf[j])
      BY <2>1, <1>2 DEF Goods
    <3>2. m.current \cup m.previous \subseteq Good(TaskOf[j])
      BY <3>1, <1>m
    <3> QED
      BY <2>1, <3>2, <1>2, <1>3, <1>4, RunsAreJobs DEF Goods, Thread, Stored, Good
  <2> QED
    BY <2>2, <2>3, <2>4
<1> QED
  BY <1>8, <1>9, <1>10, <1>11, <1>12, <1>13 DEF IInv

LEMMA StartStep ==
  ASSUME IInv, NEW t \in Threads, Start(t)
  PROVE  IInv'
<1>1. TypeOK /\ PlacesOK /\ LocalOK /\ PartsOK /\ SavesOK
  BY DEF IInv
<1>0. PICK j : on[t].job = j
  OBVIOUS
<1> DEFINE p == IF KindOf[j] = "async" THEN "waiting" ELSE "running"
<1>2. /\ on[t].job = j /\ on[t].pc = "created" /\ j \in Runs
      /\ redis' = redis /\ row' = row /\ over' = over /\ escaped' = escaped /\ saves' = saves
  BY <1>0, <1>1 DEF Start, At, PlacesOK
<1>3. Thread(t, p, j, on[t].mem)
  <2>1. p \in Places /\ on[t].mem \in Lists
    BY <1>1, Types DEF Places
  <2> QED
    BY <2>1, <1>1, <1>2, Goes DEF Start, Kind
<1>4. PICK q \in {None, local[t].parent} :
        /\ Locals(t, local[t].task, q, local[t].results)
        /\ KindOf[j] = "async" => q = None
  <2>1. local[t] \in LocalTypes /\ local' = [local EXCEPT ![t] = [local[t] EXCEPT !.parent =
          IF Kind(t) = "provider" THEN local[t].parent ELSE None]]
    BY <1>1, Types DEF Start
  <2> QED
    BY <2>1, <1>1, <1>2 DEF Locals, LocalTypes, TypeOK, Kind
<1>i. IF KindOf[j] = "async" THEN local[t].task = None /\ local[t].results = None ELSE local[t].task # None
  BY <1>1, <1>2 DEF LocalOK, InRun
<1>5. \A i \in Jobs : Taken(i)' <=> Taken(i)
  BY <1>1, <1>2, <1>3 DEF Thread, Taken
<1>6. \A i \in PartsOf(j) : ~Taken(i)
  BY <1>1, <1>2 DEF PartsOK
<1>7. p \in {"waiting", "running"} /\ (p = "waiting" <=> KindOf[j] = "async")
  OBVIOUS
<1> HIDE DEF p
<1>8. TypeOK'
  BY <1>1, <1>2, <1>3, <1>4 DEF TypeOK, Thread, Locals, OnTypes, LocalTypes
<1>9. PlacesOK'
  BY <1>1, <1>2, <1>3, <1>7 DEF PlacesOK, Thread
<1>10. LocalOK'
  BY <1>1, <1>2, <1>3, <1>4, <1>i, <1>7, RunsAreJobs DEF LocalOK, Thread, Locals, InRun
<1>11. PartsOK'
  BY <1>1, <1>2, <1>3, <1>4, <1>i, <1>5, <1>7, RunsAreJobs DEF PartsOK, Thread, Locals, PartsOf, InRun
<1>12. SavesOK'
  <2>1. \A n \in saves : n[1] \in Jobs /\ Taken(n[1])'
    BY <1>1, <1>5 DEF SavesOK, TypeOK, Notes
  <2> QED
    BY <1>1, <1>2, <1>3, <1>4, <1>7, <2>1 DEF SavesOK, Thread, Locals, SavesOf, NotesOf, InRun
<1>13. ASSUME escaped' = {}
       PROVE  Clean' /\ Gathered' /\ Goods'
  <2>1. Clean /\ Gathered /\ Goods
    BY <1>13, <1>2 DEF IInv
  <2>2. Clean'
    BY <2>1, <1>2, <1>3, <1>4, <1>7 DEF Clean, Thread, Locals, SavesOf, NotesOf, InRun
  <2>3. Gathered'
    <3>1. SavesOf(PartsOf(j))' = {}
      BY <1>1, <1>2, <1>6 DEF SavesOK, SavesOf
    <3> QED
      BY <2>1, <3>1, <1>2, <1>3 DEF Gathered, Thread, SavesOf, InRun
  <2>4. Goods'
    BY <2>1, <1>2, <1>3, RunsAreJobs DEF Goods, Thread, Good
  <2> QED
    BY <2>2, <2>3, <2>4
<1> QED
  BY <1>8, <1>9, <1>10, <1>11, <1>12, <1>13 DEF IInv

LEMMA CollectStep ==
  ASSUME IInv, NEW t \in Threads, Collect(t)
  PROVE  IInv'
<1>1. TypeOK /\ PlacesOK /\ LocalOK /\ PartsOK /\ SavesOK
  BY DEF IInv
<1>0. PICK j : on[t].job = j
  OBVIOUS
<1> DEFINE m == [on[t].mem EXCEPT !.current = redis[j]]
<1>2. /\ on[t].job = j /\ on[t].pc = "waiting" /\ j \in Runs /\ KindOf[j] = "async" /\ PartsOf(j) \subseteq over
      /\ local' = local /\ row' = row /\ over' = over /\ escaped' = escaped /\ saves' = saves
      /\ redis' = [redis EXCEPT ![j] = {}] /\ j \in Jobs
  BY <1>0, <1>1, RunsAreJobs DEF Collect, At, PlacesOK
<1>m. m \in Lists /\ m.current = redis[j] /\ m.previous = on[t].mem.previous
  <2>1. on[t].mem \in Lists /\ redis[j] \in SUBSET Notes
    BY <1>1, <1>2, Types DEF TypeOK
  <2> QED
    BY <2>1 DEF Lists
<1>3. Thread(t, "running", j, m)
  <2>1. "running" \in Places
    BY DEF Places
  <2> QED
    BY <2>1, <1>1, <1>2, <1>m, Goes DEF Collect
<1>4. /\ redis' \in [Jobs -> SUBSET Notes] /\ redis'[j] = {}
      /\ \A i \in Jobs \ {j} : redis'[i] = redis[i]
  BY <1>1, <1>2 DEF TypeOK
<1>5. \A i \in Jobs : Taken(i)' <=> Taken(i)
  BY <1>1, <1>2, <1>3 DEF Thread, Taken
<1> HIDE DEF m
<1>8. TypeOK'
  BY <1>1, <1>2, <1>3, <1>4 DEF TypeOK, Thread, OnTypes
<1>9. PlacesOK'
  BY <1>1, <1>2, <1>3 DEF PlacesOK, Thread
<1>10. LocalOK'
  BY <1>1, <1>2, <1>3, RunsAreJobs DEF LocalOK, Thread, InRun
<1>11. PartsOK'
  <2>1. ASSUME NEW s \in Threads, on'[s].job \in Parts
        PROVE  \E r \in Threads : on'[r].pc = "waiting" /\ on'[r].job = ParentOf[on'[s].job]
    <3>1. s # t /\ on'[s] = on[s]
      BY <2>1, <1>2, <1>3, RunsAreJobs DEF Thread
    <3>2. on[s].job \notin over
      BY <1>1 DEF PlacesOK
    <3>3. PICK r \in Threads : on[r].pc = "waiting" /\ on[r].job = ParentOf[on[s].job]
      BY <2>1, <3>1, <1>1 DEF PartsOK
    <3>4. r # t
      BY <2>1, <3>1, <3>2, <3>3, <1>2, RunsAreJobs
    <3> QED
      BY <3>1, <3>3, <3>4, <1>3 DEF Thread
  <2> QED
    BY <2>1, <1>1, <1>2, <1>3, <1>5, RunsAreJobs DEF PartsOK, Thread, PartsOf, InRun
<1>12. SavesOK'
  <2>1. \A n \in saves : n[1] \in Jobs /\ Taken(n[1])'
    BY <1>1, <1>5 DEF SavesOK, TypeOK, Notes
  <2> QED
    BY <1>1, <1>2, <1>3, <2>1 DEF SavesOK, Thread, SavesOf, NotesOf, InRun
<1>13. ASSUME escaped' = {}
       PROVE  Clean' /\ Gathered' /\ Goods'
  <2>1. Clean /\ Gathered /\ Goods
    BY <1>13, <1>2 DEF IInv
  <2>2. Clean'
    BY <2>1, <1>2, <1>3 DEF Clean, Thread, SavesOf, NotesOf, InRun
  <2>3. Gathered'
    <3>1. SavesOf(PartsOf(j)) \subseteq redis[j]
      BY <2>1, <1>2 DEF Gathered, InRun
    <3>2. \A s \in Threads \ {t} : on[s].job # j
      BY <1>1, <1>2 DEF PlacesOK
    <3>3. \A s \in Threads \ {t} : on[s].pc = "waiting" => redis'[on[s].job] = redis[on[s].job]
      BY <3>2, <1>1, <1>4, RunsAreJobs DEF PlacesOK
    <3> QED
      BY <2>1, <3>1, <3>3, <1>2, <1>3, <1>m DEF Gathered, Thread, SavesOf, InRun
  <2>4. Goods'
    <3>1. on[t].mem.previous \subseteq Good(TaskOf[j]) /\ redis[j] \subseteq Good(TaskOf[j])
      BY <2>1, <1>2 DEF Goods
    <3> QED
      BY <2>1, <3>1, <1>2, <1>3, <1>4, <1>m, RunsAreJobs DEF Goods, Thread, Good
  <2> QED
    BY <2>2, <2>3, <2>4
<1> QED
  BY <1>8, <1>9, <1>10, <1>11, <1>12, <1>13 DEF IInv

\* The run goes on, with the lists it had.
LEMMA GoesOnStep ==
  ASSUME IInv, NEW t \in Threads, Complete(t) \/ ProviderRaises(t) \/ Fail(t) \/ Imported(t)
  PROVE  IInv'
<1>1. TypeOK /\ PlacesOK /\ LocalOK /\ PartsOK /\ SavesOK
  BY DEF IInv
<1>0. PICK j : on[t].job = j
  OBVIOUS
<1>2. /\ on[t].job = j /\ on[t].pc \in {"running", "failed", "importing"} /\ j \in Runs /\ TaskOf[j] \in Tasks
      /\ local' = local /\ redis' = redis /\ over' = over /\ escaped' = escaped /\ saves' = saves
  BY <1>0, <1>1, RunsAreJobs DEF Complete, ProviderRaises, Fail, Imported, At, PlacesOK
<1>3. PICK p \in {"importing", "ending", "failed"}, m \in Lists :
        /\ Thread(t, p, j, m) /\ m.current = on[t].mem.current /\ m.previous = on[t].mem.previous
        /\ p = "importing" => on[t].pc = "running"
        /\ on[t].pc \in {"failed", "importing"} => p = "ending"
        /\ row' = row \/ Stored(TaskOf[j], m)
  <2>0. on[t].mem \in Lists /\ {"importing", "ending", "failed"} \subseteq Places
    BY <1>1, Types DEF Places
  <2>1. \A v \in {"Success", "Failed"} : LET m == [on[t].mem EXCEPT !.status = v] IN
          m \in Lists /\ m.current = on[t].mem.current /\ m.previous = on[t].mem.previous
    BY <2>0 DEF Lists
  <2>2. \A m \in Lists : Store(t, m) => Stored(TaskOf[j], m)
    BY <1>1, <1>2 DEF Store, Stored, TypeOK
  <2>3. CASE Complete(t)
    <3> DEFINE m == [on[t].mem EXCEPT !.status = "Success"]
    <3>1. PICK p \in {"importing", "ending"} : Go(t, p, m)
      BY <2>3 DEF Complete
    <3>2. m \in Lists /\ m.current = on[t].mem.current /\ m.previous = on[t].mem.previous
      BY <2>1
    <3>3. Thread(t, p, j, m)
      BY <3>1, <3>2, <2>0, <1>1, <1>2, Goes
    <3>4. Stored(TaskOf[j], m)
      BY <3>2, <2>2, <2>3 DEF Complete
    <3>5. on[t].pc = "running"
      BY <2>3 DEF Complete, At
    <3> HIDE DEF m
    <3> QED
      BY <3>2, <3>3, <3>4, <3>5
  <2>4. CASE Fail(t)
    <3> DEFINE m == [on[t].mem EXCEPT !.status = "Failed"]
    <3>1. Go(t, "ending", m)
      BY <2>4 DEF Fail
    <3>2. m \in Lists /\ m.current = on[t].mem.current /\ m.previous = on[t].mem.previous
      BY <2>1
    <3>3. Thread(t, "ending", j, m)
      BY <3>1, <3>2, <2>0, <1>1, <1>2, Goes
    <3>4. Stored(TaskOf[j], m)
      BY <3>2, <2>2, <2>4 DEF Fail
    <3> HIDE DEF m
    <3> QED
      BY <3>2, <3>3, <3>4
  <2>5. CASE ProviderRaises(t)
    <3>1. on[t].pc = "running" /\ Thread(t, "failed", j, on[t].mem) /\ row' = row
      BY <2>5, <2>0, <1>1, <1>2, Goes DEF ProviderRaises, At
    <3> QED
      BY <3>1, <2>0
  <2>6. CASE Imported(t)
    BY <2>6, <2>0, <1>1, <1>2, Goes DEF Imported
  <2> QED
    BY <2>3, <2>4, <2>5, <2>6
<1>5. \A i \in Jobs : Taken(i)' <=> Taken(i)
  BY <1>1, <1>2, <1>3 DEF Thread, Taken
<1>8. TypeOK'
  BY <1>1, <1>2, <1>3 DEF TypeOK, Thread, Stored, OnTypes
<1>9. PlacesOK'
  BY <1>1, <1>2, <1>3 DEF PlacesOK, Thread
<1>10. LocalOK'
  BY <1>1, <1>2, <1>3, RunsAreJobs DEF LocalOK, Thread, InRun
<1>11. PartsOK'
  BY <1>1, <1>2, <1>3, <1>5, RunsAreJobs DEF PartsOK, Thread, PartsOf, InRun
<1>12. SavesOK'
  <2>1. \A n \in saves : n[1] \in Jobs /\ Taken(n[1])'
    BY <1>1, <1>5 DEF SavesOK, TypeOK, Notes
  <2> QED
    BY <1>1, <1>2, <1>3, <2>1 DEF SavesOK, Thread, SavesOf, NotesOf, InRun
<1>13. ASSUME escaped' = {}
       PROVE  Clean' /\ Gathered' /\ Goods'
  <2>1. Clean /\ Gathered /\ Goods
    BY <1>13, <1>2 DEF IInv
  <2>2. Clean'
    BY <2>1, <1>2, <1>3 DEF Clean, Thread, SavesOf, NotesOf, InRun
  <2>3. Gathered'
    BY <2>1, <1>2, <1>3 DEF Gathered, Thread, SavesOf, InRun
  <2>4. Goods'
    <3>1. m.current \cup m.previous \subseteq Good(TaskOf[j])
      BY <2>1, <1>2, <1>3 DEF Goods
    <3> QED
      BY <2>1, <3>1, <1>2, <1>3, RunsAreJobs DEF Goods, Thread, Stored, Good
  <2> QED
    BY <2>2, <2>3, <2>4
<1> QED
  BY <1>8, <1>9, <1>10, <1>11, <1>12, <1>13 DEF IInv

LEMMA RecordStep ==
  ASSUME IInv, NEW t \in Threads, Record(t)
  PROVE  IInv'
<1>1. TypeOK /\ PlacesOK /\ LocalOK /\ PartsOK /\ SavesOK
  BY DEF IInv
<1>0. PICK j : on[t].job = j
  OBVIOUS
<1> DEFINE m == Merged(on[t].mem, local[t].results)
<1>2. /\ on[t].job = j /\ on[t].pc = "ending" /\ j \in Runs /\ j \in Jobs /\ TaskOf[j] \in Tasks
      /\ redis' = redis /\ over' = over \cup {j} /\ escaped' = escaped /\ saves' = saves
  BY <1>0, <1>1, RunsAreJobs DEF Record, At, PlacesOK
<1>m. /\ m \in Lists
      /\ m.current \cup m.previous \subseteq on[t].mem.current \cup on[t].mem.previous \cup NotesOf(t)
  <2>1. on[t].mem \in Lists /\ local[t].results \in {None} \cup SUBSET Notes
    BY <1>1, Types
  <2> QED
    BY <2>1 DEF Merged, Lists, NotesOf
<1>3. Thread(t, "idle", None, NoLists)
  <2>1. Idle \in OnTypes /\ Idle.pc = "idle" /\ Idle.job = None /\ Idle.mem = NoLists
    BY DEF Idle, OnTypes, Places, Lists, NoLists
  <2> QED
    BY <2>1, <1>1, SetsThread DEF Record, Thread
<1>4. Stored(TaskOf[j], m)
  BY <1>1, <1>2, <1>m DEF Record, Store, Stored, TypeOK
<1>5. Locals(t, None, local[t].parent, {})
  <2>1. local[t] \in LocalTypes
    BY <1>1, Types
  <2>2. local' = [local EXCEPT ![t] = [local[t] EXCEPT !.task = None, !.results = {}]]
    BY DEF Record, Cleared
  <2> QED
    BY <2>1, <2>2, <1>1 DEF Locals, LocalTypes, TypeOK
<1>6. \A i \in Jobs : Taken(i)' <=> Taken(i)
  BY <1>1, <1>2, <1>3 DEF Thread, Taken
<1>7. \A n \in saves : n \in Notes /\ n[1] \in Jobs /\ Taken(n[1])
  BY <1>1 DEF SavesOK, TypeOK, Notes
<1> HIDE DEF m
<1>8. TypeOK'
  BY <1>1, <1>2, <1>3, <1>4, <1>5 DEF TypeOK, Thread, Stored, Locals, OnTypes, LocalTypes
<1>9. PlacesOK'
  <2>1. None \notin over' /\ \A s \in Threads \ {t} : on[s].job # j
    BY <1>1, <1>2 DEF PlacesOK, TypeOK
  <2> QED
    BY <2>1, <1>1, <1>2, <1>3 DEF PlacesOK, Thread
<1>10. LocalOK'
  BY <1>1, <1>2, <1>3, <1>5, RunsAreJobs DEF LocalOK, Thread, Locals, InRun
<1>11. PartsOK'
  BY <1>1, <1>2, <1>3, <1>5, <1>6, RunsAreJobs DEF PartsOK, Thread, Locals, PartsOf, InRun
<1>12. SavesOK'
  BY <1>1, <1>2, <1>3, <1>5, <1>6, <1>7 DEF SavesOK, Thread, Locals, SavesOf, NotesOf, InRun
<1>13. ASSUME escaped' = {}
       PROVE  Clean' /\ Gathered' /\ Goods'
  <2>1. Clean /\ Gathered /\ Goods
    BY <1>13, <1>2 DEF IInv
  <2>2. Clean'
    BY <2>1, <1>2, <1>3, <1>5 DEF Clean, Thread, Locals, SavesOf, NotesOf, InRun
  <2>3. Gathered'
    BY <2>1, <1>2, <1>3 DEF Gathered, Thread, SavesOf, InRun
  <2>4. Goods'
    <3>1. on[t].mem.current \cup on[t].mem.previous \subseteq Good(TaskOf[j])
      BY <2>1, <1>2 DEF Goods
    <3>2. NotesOf(t) \subseteq SavesOf({j})
      BY <2>1, <1>2 DEF Clean, InRun
    <3>3. SavesOf({j}) \subseteq Good(TaskOf[j])
      BY <1>2, <1>7 DEF SavesOf, Good
    <3>4. m.current \cup m.previous \subseteq Good(TaskOf[j])
      BY <3>1, <3>2, <3>3, <1>m
    <3> QED
      BY <2>1, <3>4, <1>2, <1>3, <1>4, RunsAreJobs DEF Goods, Thread, Stored, Good
  <2> QED
    BY <2>2, <2>3, <2>4
<1> QED
  BY <1>8, <1>9, <1>10, <1>11, <1>12, <1>13 DEF IInv

LEMMA EscapeStep ==
  ASSUME IInv, NEW t \in Threads, Escape(t)
  PROVE  IInv'
<1>1. TypeOK /\ PlacesOK /\ LocalOK /\ PartsOK /\ SavesOK
  BY DEF IInv
<1>0. PICK j : on[t].job = j
  OBVIOUS
<1>2. /\ on[t].job = j /\ on[t].pc \in {"importing", "ending"} /\ j \in Jobs /\ j \in Runs
      /\ local' = local /\ redis' = redis /\ row' = row /\ over' = over \cup {j}
      /\ escaped' = escaped \cup {j} /\ saves' = saves
  BY <1>0, <1>1, RunsAreJobs DEF Escape, PlacesOK
<1>3. Thread(t, "idle", None, NoLists)
  <2>1. Idle \in OnTypes /\ Idle.pc = "idle" /\ Idle.job = None /\ Idle.mem = NoLists
    BY DEF Idle, OnTypes, Places, Lists, NoLists
  <2> QED
    BY <2>1, <1>1, SetsThread DEF Escape, Thread
<1>6. \A i \in Jobs : Taken(i)' <=> Taken(i)
  BY <1>1, <1>2, <1>3 DEF Thread, Taken
<1>7. \A n \in saves : n[1] \in Jobs /\ Taken(n[1])
  BY <1>1 DEF SavesOK, TypeOK, Notes
<1>8. TypeOK'
  BY <1>1, <1>2, <1>3 DEF TypeOK, Thread, OnTypes
<1>9. PlacesOK'
  <2>1. None \notin over' /\ \A s \in Threads \ {t} : on[s].job # j
    BY <1>1, <1>2 DEF PlacesOK, TypeOK
  <2> QED
    BY <2>1, <1>1, <1>2, <1>3 DEF PlacesOK, Thread
<1>10. LocalOK'
  BY <1>1, <1>2, <1>3, RunsAreJobs DEF LocalOK, Thread, InRun
<1>11. PartsOK'
  BY <1>1, <1>2, <1>3, <1>6, RunsAreJobs DEF PartsOK, Thread, PartsOf, InRun
<1>12. SavesOK'
  BY <1>1, <1>2, <1>3, <1>6, <1>7 DEF SavesOK, Thread, SavesOf, NotesOf, InRun
<1> QED
  BY <1>2, <1>8, <1>9, <1>10, <1>11, <1>12 DEF IInv

\* A part or a screenshot job starts.
LEMMA StartsStep ==
  ASSUME IInv, NEW t \in Threads, NEW j \in Jobs, StartPart(t, j) \/ StartScreenshot(t, j)
  PROVE  IInv'
<1>1. TypeOK /\ PlacesOK /\ LocalOK /\ PartsOK /\ SavesOK
  BY DEF IInv
<1>2. /\ on[t].pc = "idle" /\ ~Taken(j)
      /\ redis' = redis /\ row' = row /\ over' = over /\ escaped' = escaped /\ saves' = saves
  BY DEF StartPart, StartScreenshot, At
<1>3. Thread(t, "working", j, NoLists)
  <2> DEFINE o == [pc |-> "working", job |-> j, mem |-> NoLists]
  <2>1. o \in OnTypes /\ on' = [on EXCEPT ![t] = o]
    BY DEF StartPart, StartScreenshot, OnTypes, Places, Lists, NoLists
  <2> QED
    BY <2>1, <1>1, SetsThread
<1>4. \/ KindOf[j] = "screenshot" /\ local' = local
      \/ /\ j \in Parts /\ Locals(t, local[t].task, ParentOf[j], local[t].results)
         /\ \E s \in Threads : on[s].pc = "waiting" /\ on[s].job = ParentOf[j]
  <2>1. CASE StartScreenshot(t, j)
    BY <2>1 DEF StartScreenshot
  <2>2. CASE StartPart(t, j)
    <3>1. local[t] \in LocalTypes /\ j \in Parts /\ ParentOf[j] \in Jobs
      BY <2>2, <1>1, Types, RunsAreJobs DEF StartPart
    <3>2. local' = [local EXCEPT ![t] = [local[t] EXCEPT !.parent = ParentOf[j]]]
      BY <2>2 DEF StartPart
    <3>3. Locals(t, local[t].task, ParentOf[j], local[t].results)
      BY <3>1, <3>2, <1>1 DEF Locals, LocalTypes, TypeOK
    <3> QED
      BY <2>2, <3>1, <3>3 DEF StartPart, At
  <2> QED
    BY <2>1, <2>2
<1>5. j \notin Runs /\ on[t].job = None /\ None \notin Jobs
  BY <1>1, <1>2, <1>4, RunsAreJobs DEF PlacesOK
<1>6. \A i \in Jobs : Taken(i)' <=> Taken(i) \/ i = j
  BY <1>1, <1>2, <1>3, <1>5 DEF Thread, Taken
<1>7. \A n \in saves : n[1] \in Jobs /\ Taken(n[1])
  BY <1>1 DEF SavesOK, TypeOK, Notes
<1>8. TypeOK'
  BY <1>1, <1>2, <1>3, <1>4 DEF TypeOK, Thread, Locals, OnTypes, LocalTypes
<1>9. PlacesOK'
  BY <1>1, <1>2, <1>3, <1>4, <1>5 DEF PlacesOK, Thread, Taken
<1>10. LocalOK'
  BY <1>1, <1>2, <1>3, <1>4, RunsAreJobs DEF LocalOK, Thread, Locals, InRun
<1>11. PartsOK'
  <2>1. \A s \in Threads : on[s].pc = "waiting" => s # t
    BY <1>2
  <2>2. j \in Parts => Taken(ParentOf[j])
    BY <1>4, RunsAreJobs DEF Taken
  <2>3. ASSUME NEW s \in Threads, j \in PartsOf(on[s].job)
        PROVE  on[s].pc = "waiting" /\ local[s].task = None
    <3>1. PICK r \in Threads : on[r].pc = "waiting" /\ on[r].job = on[s].job
      BY <2>3, <1>4, RunsAreJobs DEF PartsOf, Parts
    <3>2. s = r /\ KindOf[on[s].job] = "async"
      BY <2>3, <3>1, <1>1, RunsAreJobs DEF PlacesOK, PartsOf
    <3> QED
      BY <3>1, <3>2, <1>1 DEF LocalOK, InRun
  <2>4. \A p \in Parts : Taken(p)' => Taken(ParentOf[p])'
    BY <1>1, <1>6, <2>2, RunsAreJobs DEF PartsOK
  <2>5. ASSUME NEW s \in Threads, on'[s].job \in Parts
        PROVE  \E r \in Threads : on'[r].pc = "waiting" /\ on'[r].job = ParentOf[on'[s].job]
    <3>1. PICK r \in Threads : on[r].pc = "waiting" /\ on[r].job = ParentOf[on'[s].job]
      BY <2>5, <1>1, <1>3, <1>4, RunsAreJobs DEF PartsOK, Thread
    <3> QED
      BY <3>1, <2>1, <1>3 DEF Thread
  <2>7. /\ \A s \in Threads : local'[s].task = local[s].task
        /\ \A s \in Threads \ {t} : on'[s] = on[s]
        /\ on'[t].pc = "working"
    BY <1>3, <1>4 DEF Locals, Thread
  <2>6. ASSUME NEW s \in Threads,
               on'[s].pc \in {"loaded", "created"} \/ (on'[s].pc \in InRun /\ local'[s].task # None),
               NEW p \in PartsOf(on'[s].job)
        PROVE  ~Taken(p)'
    <3>1. s # t /\ on'[s] = on[s] /\ local'[s].task = local[s].task
      BY <2>6, <2>7 DEF InRun
    <3>2. ~Taken(p)
      BY <2>6, <3>1, <1>1 DEF PartsOK
    <3>3. p # j
      BY <2>6, <3>1, <2>3
    <3> QED
      BY <3>2, <3>3, <1>6 DEF PartsOf, Parts
  <2> QED
    BY <2>4, <2>5, <2>6 DEF PartsOK, PartsOf
<1>12. SavesOK'
  <2>1. \A s \in Threads : NotesOf(s)' = NotesOf(s)
    BY <1>4 DEF Locals, NotesOf
  <2> QED
    BY <1>1, <1>2, <1>3, <1>6, <1>7, <2>1 DEF SavesOK, Thread, SavesOf, InRun
<1>13. ASSUME escaped' = {}
       PROVE  Clean' /\ Gathered' /\ Goods'
  <2>1. Clean /\ Gathered /\ Goods
    BY <1>13, <1>2 DEF IInv
  <2>2. Clean'
    <3>1. \A s \in Threads : NotesOf(s)' = NotesOf(s) /\ local'[s].task = local[s].task
      BY <1>4 DEF Locals, NotesOf
    <3> QED
      BY <2>1, <3>1, <1>2, <1>3 DEF Clean, Thread, SavesOf, InRun
  <2>3. Gathered'
    BY <2>1, <1>2, <1>3 DEF Gathered, Thread, SavesOf, InRun
  <2>4. Goods'
    BY <2>1, <1>2, <1>3, <1>5, RunsAreJobs DEF Goods, Thread, Good
  <2> QED
    BY <2>2, <2>3, <2>4
<1> QED
  BY <1>8, <1>9, <1>10, <1>11, <1>12, <1>13 DEF IInv

LEMMA EndJobStep ==
  ASSUME IInv, NEW t \in Threads, EndJob(t)
  PROVE  IInv'
<1>1. TypeOK /\ PlacesOK /\ LocalOK /\ PartsOK /\ SavesOK
  BY DEF IInv
<1>0. PICK j : on[t].job = j
  OBVIOUS
<1>2. /\ on[t].job = j /\ on[t].pc = "working" /\ j \in Jobs
      /\ local' = local /\ redis' = redis /\ row' = row /\ over' = over \cup {j}
      /\ escaped' = escaped /\ saves' = saves
  BY <1>0, <1>1, Types DEF EndJob, At, PlacesOK
<1>3. Thread(t, "idle", None, NoLists)
  <2>1. Idle \in OnTypes /\ Idle.pc = "idle" /\ Idle.job = None /\ Idle.mem = NoLists
    BY DEF Idle, OnTypes, Places, Lists, NoLists
  <2> QED
    BY <2>1, <1>1, SetsThread DEF EndJob, Thread
<1>6. \A i \in Jobs : Taken(i)' <=> Taken(i)
  BY <1>1, <1>2, <1>3 DEF Thread, Taken
<1>7. \A n \in saves : n[1] \in Jobs /\ Taken(n[1])
  BY <1>1 DEF SavesOK, TypeOK, Notes
<1>8. TypeOK'
  BY <1>1, <1>2, <1>3 DEF TypeOK, Thread, OnTypes
<1>9. PlacesOK'
  <2>1. None \notin over' /\ \A s \in Threads \ {t} : on[s].job # j
    BY <1>1, <1>2 DEF PlacesOK, TypeOK
  <2> QED
    BY <2>1, <1>1, <1>2, <1>3 DEF PlacesOK, Thread
<1>10. LocalOK'
  BY <1>1, <1>2, <1>3, RunsAreJobs DEF LocalOK, Thread, InRun
<1>11. PartsOK'
  BY <1>1, <1>2, <1>3, <1>6, RunsAreJobs DEF PartsOK, Thread, PartsOf, InRun
<1>12. SavesOK'
  BY <1>1, <1>2, <1>3, <1>6, <1>7 DEF SavesOK, Thread, SavesOf, NotesOf, InRun
<1>13. ASSUME escaped' = {}
       PROVE  Clean' /\ Gathered' /\ Goods'
  <2>1. Clean /\ Gathered /\ Goods
    BY <1>13, <1>2 DEF IInv
  <2>2. Clean'
    BY <2>1, <1>2, <1>3 DEF Clean, Thread, SavesOf, NotesOf, InRun
  <2>3. Gathered'
    BY <2>1, <1>2, <1>3 DEF Gathered, Thread, SavesOf, InRun
  <2>4. Goods'
    BY <2>1, <1>2, <1>3, RunsAreJobs DEF Goods, Thread, Good
  <2> QED
    BY <2>2, <2>3, <2>4
<1> QED
  BY <1>8, <1>9, <1>10, <1>11, <1>12, <1>13 DEF IInv

LEMMA SaveStep ==
  ASSUME IInv, NEW t \in Threads, on[t].pc \in {"running", "importing", "working"}, Save(t)
  PROVE  IInv'
<1>1. TypeOK /\ PlacesOK /\ LocalOK /\ PartsOK /\ SavesOK
  BY DEF IInv
<1>0. PICK j : on[t].job = j
  OBVIOUS
<1>2. PICK u \in Urls :
        /\ saves' = saves \cup {<<j, u>>}
        /\ IF local[t].task # None
              THEN local' = [local EXCEPT ![t].results = Noted(@, <<j, u>>)] /\ redis' = redis
            ELSE IF local[t].parent # None
              THEN /\ redis' = [redis EXCEPT ![local[t].parent] = @ \cup {<<j, u>>}]
                   /\ local' = local
            ELSE local' = local /\ redis' = redis
  BY <1>0 DEF Save
<1> DEFINE n == <<j, u>>
<1>3. /\ on[t].job = j /\ j \in Jobs /\ n \in Notes /\ n[1] = j /\ Taken(j) /\ saves' = saves \cup {n}
      /\ on' = on /\ row' = row /\ over' = over /\ escaped' = escaped
  <2>1. j \in Jobs
    BY <1>0, <1>1, Types DEF PlacesOK
  <2> QED
    BY <2>1, <1>0, <1>2 DEF Notes, Taken, Save
<1> HIDE DEF n
<1>4. ASSUME local[t].task # None
      PROVE  /\ redis' = redis
             /\ Locals(t, local[t].task, local[t].parent, NotesOf(t) \cup {n})
  <2>1. local[t] \in LocalTypes /\ local[t].results \in {None} \cup SUBSET Notes
    BY <1>1, Types
  <2> DEFINE l == [local[t] EXCEPT !.results = Noted(@, n)]
  <2>2. local' = [local EXCEPT ![t] = l] /\ redis' = redis
    BY <1>1, <1>2, <1>4, <2>1 DEF n, TypeOK, LocalTypes
  <2>3. Noted(local[t].results, n) = NotesOf(t) \cup {n}
    BY DEF Noted, NotesOf
  <2>4. NotesOf(t) \cup {n} \in SUBSET Notes
    BY <1>1, <1>3, Types
  <2>5. /\ l \in LocalTypes /\ l.task = local[t].task /\ l.parent = local[t].parent
        /\ l.results = NotesOf(t) \cup {n}
    BY <2>1, <2>3, <2>4 DEF LocalTypes
  <2> HIDE DEF l
  <2> QED
    BY <2>2, <2>5, <1>1 DEF Locals, TypeOK, LocalTypes
<1>5. ASSUME local[t].task = None, local[t].parent # None
      PROVE  /\ local' = local /\ local[t].parent \in Jobs
             /\ redis' \in [Jobs -> SUBSET Notes]
             /\ redis'[local[t].parent] = redis[local[t].parent] \cup {n}
             /\ \A i \in Jobs \ {local[t].parent} : redis'[i] = redis[i]
  <2>1. local[t].parent \in Jobs
    BY <1>1, <1>5, Types
  <2>2. redis' = [redis EXCEPT ![local[t].parent] = redis[local[t].parent] \cup {n}] /\ local' = local
    BY <1>2, <1>5 DEF n
  <2> QED
    BY <2>1, <2>2, <1>1, <1>3 DEF TypeOK
<1>6. ASSUME local[t].task = None, local[t].parent = None
      PROVE  local' = local /\ redis' = redis
  BY <1>2, <1>6
<1>7. \A i \in Jobs : Taken(i)' <=> Taken(i)
  BY <1>3 DEF Taken
<1>8. /\ SavesOf({j})' = SavesOf({j}) \cup {n}
      /\ \A S : j \notin S => SavesOf(S)' = SavesOf(S)
      /\ \A S : SavesOf(S)' \subseteq SavesOf(S) \cup {n}
  BY <1>3 DEF SavesOf
<1>9. \A s \in Threads \ {t} : on[s].job # j
  BY <1>1, <1>3 DEF PlacesOK
<1>10. on[t].pc \in InRun <=> on[t].pc # "working"
  BY DEF InRun
<1>p. on[t].pc = "working" \/ on[t].pc \in {"running", "importing"}
  OBVIOUS
<1>11. TypeOK'
  BY <1>1, <1>3, <1>4, <1>5, <1>6 DEF TypeOK, Locals, LocalTypes
<1>12. PlacesOK'
  BY <1>1, <1>3 DEF PlacesOK
<1>u. \A s \in Threads : local'[s].task = local[s].task /\ local'[s].parent = local[s].parent
  BY <1>4, <1>5, <1>6 DEF Locals
<1>13. LocalOK'
  <2>1. \A s \in Threads : local'[s].task = local[s].task /\ local'[s].parent = local[s].parent
    BY <1>u
  <2>2. \A s \in Threads \ {t} : local'[s].results = local[s].results
    BY <1>4, <1>5, <1>6 DEF Locals
  <2>3. local[t].task = None => local'[t].results = local[t].results
    BY <1>5, <1>6
  <2> QED
    BY <2>1, <2>2, <2>3, <1>1, <1>3 DEF LocalOK
<1>14. PartsOK'
  BY <1>1, <1>3, <1>7, <1>u, RunsAreJobs DEF PartsOK, PartsOf
<1>15. SavesOK'
  <2>1. \A x \in saves' : Taken(x[1])'
    BY <1>1, <1>3, <1>7 DEF SavesOK, TypeOK, Notes
  <2>2. \A s \in Threads \ {t} : NotesOf(s)' = NotesOf(s) /\ SavesOf({on[s].job})' = SavesOf({on[s].job})
    BY <1>3, <1>4, <1>5, <1>6, <1>8, <1>9 DEF NotesOf, Locals
  <2>3. on[t].pc \in InRun /\ KindOf[j] # "async" => NotesOf(t)' = NotesOf(t) \cup {n}
    <3>1. on[t].pc \in InRun /\ KindOf[j] # "async" => local[t].task # None
      BY <1>1, <1>3, <1>10 DEF LocalOK, InRun
    <3>2. NotesOf(t) \cup {n} # None
      BY <1>1, <1>3, Types DEF Notes
    <3> QED
      BY <3>1, <3>2, <1>4 DEF NotesOf, Locals
  <2> QED
    BY <2>1, <2>2, <2>3, <1>1, <1>3, <1>8 DEF SavesOK
<1>16. ASSUME escaped' = {}
       PROVE  Clean' /\ Gathered' /\ Goods'
  <2>1. Clean /\ Gathered /\ Goods
    BY <1>16, <1>3 DEF IInv
  <2>2. on[t].pc = "working" => local[t].task = None
    BY <2>1, <1>10 DEF Clean
  <2>3. NotesOf(t)' \subseteq NotesOf(t) \cup {n} /\ (on[t].pc = "working" => NotesOf(t)' = NotesOf(t))
    BY <2>2, <1>4, <1>5, <1>6 DEF NotesOf, Locals
  <2>4. \A s \in Threads \ {t} : NotesOf(s)' = NotesOf(s)
    BY <1>4, <1>5, <1>6 DEF NotesOf, Locals
  <2>5. \A s \in Threads : local'[s].task = local[s].task
    BY <1>4, <1>5, <1>6 DEF Locals
  <2>6. Clean'
    <3>1. \A s \in Threads \ {t} : SavesOf({on[s].job})' = SavesOf({on[s].job})
      BY <1>3, <1>8, <1>9
    <3>2. \A s \in Threads :
            IF on[s].pc \in InRun THEN NotesOf(s) \subseteq SavesOf({on[s].job})
                                  ELSE local[s].task = None /\ NotesOf(s) = {}
      BY <2>1 DEF Clean
    <3>3. on[t].pc \in InRun => NotesOf(t)' \subseteq SavesOf({on[t].job})'
      BY <2>3, <3>2, <1>3, <1>8
    <3>4. on[t].pc \notin InRun => local'[t].task = None /\ NotesOf(t)' = {}
      BY <2>3, <2>5, <3>2, <1>10
    <3>5. ASSUME NEW s \in Threads
          PROVE  IF on'[s].pc \in InRun THEN NotesOf(s)' \subseteq SavesOf({on[s].job})'
                                       ELSE local'[s].task = None /\ NotesOf(s)' = {}
      <4>1. CASE s = t
        BY <4>1, <3>3, <3>4, <1>3
      <4>2. CASE s # t
        BY <4>2, <2>4, <2>5, <3>1, <3>2, <1>3
      <4> QED
        BY <4>1, <4>2
    <3> QED
      BY <3>5 DEF Clean
  <2>7. \A i \in Jobs : redis[i] \subseteq redis'[i]
    BY <1>4, <1>5, <1>6
  <2>8. Gathered'
    <3>1. ASSUME NEW s \in Threads, on[s].pc \in InRun \ {"created"}, KindOf[on[s].job] = "async"
          PROVE  SavesOf(PartsOf(on[s].job))' \subseteq
                   (IF on[s].pc = "waiting" THEN redis'[on[s].job] ELSE on[s].mem.current)
      <4>1. SavesOf(PartsOf(on[s].job)) \subseteq
              (IF on[s].pc = "waiting" THEN redis[on[s].job] ELSE on[s].mem.current)
        BY <2>1, <3>1 DEF Gathered
      <4>2. on[s].job \in Jobs
        BY <3>1, <1>1, RunsAreJobs DEF PlacesOK, InRun
      <4>3. CASE j \notin PartsOf(on[s].job)
        BY <4>1, <4>2, <4>3, <2>7, <1>3, <1>8 DEF PartsOf
      <4>4. CASE j \in PartsOf(on[s].job)
        <5>1. j \in Parts /\ ParentOf[j] = on[s].job
          BY <4>4 DEF PartsOf
        <5>2. PICK r \in Threads : on[r].pc = "waiting" /\ on[r].job = on[s].job
          BY <5>1, <1>1, <1>3 DEF PartsOK
        <5>3. on[s].pc = "waiting"
          BY <5>1, <5>2, <1>1, RunsAreJobs DEF PlacesOK
        <5>4. local[t].parent = on[s].job
          BY <5>1, <1>1, <1>3 DEF LocalOK
        <5>5. on[t].pc = "working"
          BY <5>1, <1>1, <1>3, RunsAreJobs DEF PlacesOK
        <5>6. redis'[on[s].job] = redis[on[s].job] \cup {n}
          BY <5>4, <5>5, <2>2, <4>2, <1>5
        <5>7. SavesOf(PartsOf(on[s].job))' \subseteq SavesOf(PartsOf(on[s].job)) \cup {n}
          BY <1>3, <1>8 DEF PartsOf
        <5> QED
          BY <4>1, <5>3, <5>6, <5>7
      <4> QED
        BY <4>3, <4>4
    <3> QED
      BY <3>1, <1>3 DEF Gathered
  <2>9. Goods'
    <3>1. ASSUME local[t].task = None, local[t].parent # None
          PROVE  n \in Good(TaskOf[local[t].parent])
      <4>1. j \in Parts \/ KindOf[j] = "screenshot"
        BY <3>1, <1>1, <1>3, <1>p DEF PlacesOK, LocalOK
      <4>2. j \in Parts => local[t].parent = ParentOf[j]
        BY <1>1, <1>3 DEF LocalOK
      <4> QED
        BY <4>1, <4>2, <1>3, RunsAreJobs DEF Good
    <3>2. ASSUME NEW i \in Jobs
          PROVE  IF KindOf[i] = "async" THEN redis'[i] \subseteq Good(TaskOf[i]) ELSE redis'[i] = {}
      <4>1. IF KindOf[i] = "async" THEN redis[i] \subseteq Good(TaskOf[i]) ELSE redis[i] = {}
        BY <2>1 DEF Goods
      <4>2. local[t].parent # None => KindOf[local[t].parent] = "async"
        BY <1>1 DEF LocalOK
      <4> QED
        BY <4>1, <4>2, <3>1, <1>4, <1>5, <1>6
    <3> QED
      BY <2>1, <3>2, <1>3 DEF Goods, Good
  <2> QED
    BY <2>6, <2>8, <2>9
<1> QED
  BY <1>11, <1>12, <1>13, <1>14, <1>15, <1>16 DEF IInv

-----------------------------------------------------------------------------
LEMMA InitInv == Init => IInv
<1> SUFFICES ASSUME Init
             PROVE  IInv
  OBVIOUS
<1>1. /\ \A t \in Threads : /\ on[t].pc = "idle" /\ on[t].job = None /\ on[t].mem = NoLists
                             /\ local[t].task = None /\ local[t].parent = None /\ local[t].results = None
      /\ \A j \in Jobs : redis[j] = {}
      /\ \A k \in Tasks : row[k] = NoLists
      /\ over = {} /\ escaped = {} /\ saves = {}
  BY DEF Init, Idle
<1>2. NoLists \in Lists /\ NoLists.current = {} /\ NoLists.previous = {}
  BY DEF NoLists, Lists
<1>3. TypeOK
  <2>1. Idle \in [pc : Places, job : Jobs \cup {None}, mem : Lists]
    BY <1>2 DEF Idle, Places
  <2> QED
    BY <2>1, <1>2 DEF Init, TypeOK
<1>4. \A j \in Jobs : ~Taken(j)
  BY <1>1 DEF Taken
<1>5. PlacesOK /\ LocalOK
  BY <1>1, RunsAreJobs DEF PlacesOK, LocalOK, InRun
<1>6. PartsOK /\ SavesOK
  BY <1>1, <1>4, RunsAreJobs DEF PartsOK, SavesOK, InRun
<1>7. Clean /\ Gathered /\ Goods
  BY <1>1, <1>2, RunsAreJobs DEF Clean, Gathered, Goods, InRun, NotesOf
<1> QED
  BY <1>3, <1>5, <1>6, <1>7 DEF IInv

LEMMA NextInv == IInv /\ [Next]_vars => IInv'
<1>1. ASSUME IInv, Next
      PROVE  IInv'
  <2>1. PICK t \in Threads :
          \/ \E j \in Jobs : LoadTask(t, j) \/ StartPart(t, j) \/ StartScreenshot(t, j)
          \/ Refuse(t) \/ Initialize(t) \/ Start(t) \/ Collect(t) \/ Complete(t) \/ ProviderRaises(t)
          \/ Fail(t) \/ Imported(t) \/ Record(t) \/ Escape(t) \/ EndJob(t)
          \/ on[t].pc \in {"running", "importing", "working"} /\ Save(t)
    BY <1>1 DEF Next
  <2> QED
    BY <1>1, <2>1, LoadTaskStep, RefuseStep, InitializeStep, StartStep, CollectStep, GoesOnStep, RecordStep,
       EscapeStep, StartsStep, EndJobStep, SaveStep
<1>2. ASSUME IInv, UNCHANGED vars
      PROVE  IInv'
  BY <1>2 DEF IInv, vars, TypeOK, PlacesOK, LocalOK, PartsOK, SavesOK, Clean, Gathered, Goods,
     Taken, SavesOf, NotesOf
<1> QED
  BY <1>1, <1>2

\* The invariant of the argument: where the notes of every save are, whichever
\* jobs share the threads.
THEOREM Invariance == Spec => []IInv
<1> QED
  BY InitInv, NextInv, PTL DEF Spec

\* The threads, their locals, the lists and the keys keep their types, and only
\* jobs that are over have escaped.
THEOREM TypeCorrect == Spec => []TypeOK
<1>1. IInv => TypeOK
  BY DEF IInv
<1> QED
  BY <1>1, Invariance, PTL

\* As long as no exception lets a run escape, the lists of a task name only
\* saves of its own jobs and of screenshot jobs, and a thread outside a run has
\* no current task (result.rb:118-157, Task#perform_task).
THEOREM ForeignIsExplained == Spec => []ForeignExplained
<1>1. IInv => ForeignExplained
  <2> SUFFICES ASSUME IInv, escaped = {}
               PROVE  /\ \A k \in Tasks : \A n \in Foreign(k) : KindOf[n[1]] = "screenshot"
                      /\ \A t \in Threads : on[t].pc \in {"idle", "loaded", "working"} => local[t].task = None
    BY DEF ForeignExplained
  <2>1. Goods /\ Clean
    BY DEF IInv
  <2>2. \A k \in Tasks : \A n \in Foreign(k) : KindOf[n[1]] = "screenshot"
    BY <2>1 DEF Goods, Foreign, Listed, Good
  <2>3. \A t \in Threads : on[t].pc \in {"idle", "loaded", "working"} => local[t].task = None
    BY <2>1 DEF Clean, InRun
  <2> QED
    BY <2>2, <2>3
<1> QED
  BY <1>1, Invariance, PTL

\* When a run ends, its list has all of its own saves, and nothing else unless a
\* run escaped or it is a provider that lacks a setting; that of an AsyncSidekiq
\* run has those of its workers (Task#perform_task, AsyncSidekiq#run).
THEOREM OwnAreRecorded == Spec => OwnSavesRecorded
<1> DEFINE Recorded(t) ==
      LET list  == row'[TaskOf[on[t].job]].current
          mine  == SavesOf({on[t].job})
          parts == SavesOf(PartsOf(on[t].job))
      IN IF Kind(t) # "async"
           THEN /\ mine \subseteq list
                /\ escaped = {} => list = mine \/ on[t].job \in Refused
           ELSE escaped = {} => parts \subseteq list
<1>1. ASSUME IInv, Next, NEW t \in Threads, Ending(t)
      PROVE  Recorded(t)
  <2>1. TypeOK /\ PlacesOK /\ LocalOK /\ PartsOK /\ SavesOK
    BY <1>1 DEF IInv
  <2>2. /\ on[t].pc = "ending" /\ on[t].job \in Runs /\ on[t].job \notin over /\ on[t].job \in over'
        /\ escaped' = escaped /\ TaskOf[on[t].job] \in Tasks /\ on[t].pc \in InRun
    BY <1>1, <2>1, RunsAreJobs DEF Ending, At, PlacesOK, InRun
  <2>3. Record(t)
    <3>1. PICK s \in Threads :
            \/ \E j \in Jobs : LoadTask(s, j) \/ StartPart(s, j) \/ StartScreenshot(s, j)
            \/ Refuse(s) \/ Initialize(s) \/ Start(s) \/ Collect(s) \/ Complete(s) \/ ProviderRaises(s)
            \/ Fail(s) \/ Imported(s) \/ Record(s) \/ Escape(s) \/ EndJob(s)
            \/ on[s].pc \in {"running", "importing", "working"} /\ Save(s)
      BY <1>1 DEF Next
    <3>2. over' # over
      BY <2>2
    <3>3. Record(s) \/ Escape(s) \/ EndJob(s)
      BY <3>1, <3>2 DEF LoadTask, StartPart, StartScreenshot, Refuse, Initialize, Start, Collect, Complete,
         ProviderRaises, Fail, Imported, Save
    <3>4. over' = over \cup {on[s].job}
      BY <3>3 DEF Record, Escape, EndJob
    <3>5. s = t
      BY <3>4, <2>1, <2>2, RunsAreJobs DEF PlacesOK
    <3>6. ~Escape(t)
      BY <2>1, <2>2 DEF Escape, TypeOK
    <3>7. ~EndJob(t)
      BY <2>2 DEF EndJob, At
    <3> QED
      BY <3>3, <3>5, <3>6, <3>7
  <2>4. row'[TaskOf[on[t].job]] = Merged(on[t].mem, local[t].results)
    BY <2>1, <2>2, <2>3 DEF Record, Store, TypeOK
  <2>5. on[t].mem \in Lists
    BY <2>1, Types
  <2>6. row'[TaskOf[on[t].job]].current =
          IF local[t].results = None THEN on[t].mem.current ELSE local[t].results
    BY <2>4, <2>5 DEF Merged, Lists
  <2>8. CASE Kind(t) # "async"
    <3>1. on[t].job \notin Refused => on[t].mem.current = {}
      BY <2>1, <2>2, <2>8 DEF LocalOK, Kind
    <3>2. SavesOf({on[t].job}) \subseteq NotesOf(t)
      BY <2>1, <2>2, <2>8 DEF SavesOK, Kind
    <3>3. NotesOf(t) \subseteq row'[TaskOf[on[t].job]].current
      BY <2>6 DEF NotesOf
    <3>4. on[t].job \notin Refused => row'[TaskOf[on[t].job]].current = NotesOf(t)
      BY <3>1, <2>6 DEF NotesOf
    <3>5. escaped = {} => NotesOf(t) \subseteq SavesOf({on[t].job})
      BY <1>1, <2>2 DEF IInv, Clean
    <3>6. /\ SavesOf({on[t].job}) \subseteq row'[TaskOf[on[t].job]].current
          /\ escaped = {} => \/ row'[TaskOf[on[t].job]].current = SavesOf({on[t].job})
                             \/ on[t].job \in Refused
      BY <3>2, <3>3, <3>4, <3>5
    <3> QED
      BY <3>6, <2>8
  <2>9. CASE Kind(t) = "async"
    <3>1. escaped = {} => SavesOf(PartsOf(on[t].job)) \subseteq on[t].mem.current
      BY <1>1, <2>2, <2>9 DEF IInv, Gathered, Kind, InRun
    <3>2. ASSUME local[t].results # None
          PROVE  SavesOf(PartsOf(on[t].job)) = {}
      <4>1. local[t].task # None
        BY <3>2, <2>1, <2>2, <2>9 DEF LocalOK, Kind
      <4>2. \A p \in PartsOf(on[t].job) : ~Taken(p)
        BY <4>1, <2>1, <2>2 DEF PartsOK
      <4> QED
        BY <4>2, <2>1 DEF SavesOK, SavesOf
    <3> QED
      BY <3>1, <3>2, <2>6, <2>9
  <2> QED
    BY <2>8, <2>9
<1>2. IInv /\ [Next]_vars => [\A t \in Threads : Ending(t) => Recorded(t)]_vars
  BY <1>1
<1> QED
  BY <1>2, Invariance, PTL DEF Spec, OwnSavesRecorded
=============================================================================
