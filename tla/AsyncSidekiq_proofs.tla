------------------------- MODULE AsyncSidekiq_proofs -------------------------
(***************************************************************************)
(* Theorems about AsyncSidekiq for every finite set of results and every   *)
(* size of a slice.                                                        *)
(***************************************************************************)
EXTENDS AsyncSidekiq, TLAPS

Joined == {"reading", "deleting", "done"}
Over(r) == job[r] = "ended" \/ r \in lapsed

\* Every result is still to be pushed or tracked until a push fails; a result
\* still to be pushed has no job until then.
PushedSoFar ==
  /\ ppc \in {"begin", "queue"} => tracked = {} /\ toPush = Results
  /\ ppc \in {"begin", "queue", "pushing"} =>
       /\ \A r \in toPush : job[r] = "none" /\ r \notin tracked
       /\ Results = toPush \cup tracked
  /\ ppc \in {"polling"} \cup Joined => tracked = Results \/ parentError
  /\ \A r \in tracked : job[r] # "none"

\* The status key does not say that an unfinished job is over, so what was
\* removed from workers is over; run goes on only when workers is empty.
JoinSound ==
  /\ \A r \in Results : Unfinished(r) /\ r \notin lapsed => status[r] \in Pending
  /\ \A r \in tracked : r \notin workers => Over(r)
  /\ ppc \in Joined => workers = {}

\* The options are there from the first push to the end of run.
OptionsKept ==
  /\ ppc \in Waiting \ {"begin"} => options
  /\ tracked # {} /\ ppc # "done" => options

\* A job saves only once it has its options, and what a job that is not over
\* could still add is read afterwards.
SavedKept ==
  /\ \A r \in saved : job[r] \in {"working", "ended"}
  /\ \A r \in saved : OnTime(r) =>
       /\ ppc # "done" => r \in redis["results"]
       /\ ppc \in {"deleting", "done"} => r \in metadata["results"]
  /\ ResultsCleanedUp

IInv == TypeOK /\ PushedSoFar /\ JoinSound /\ OptionsKept /\ SavedKept

-----------------------------------------------------------------------------
\* Every step keeps the types.
LEMMA TypeStep ==
  ASSUME TypeOK, [Next]_vars
  PROVE  TypeOK'
<1> USE DEF vars, parent, jobs, TypeOK, Waiting, Stopped, Jobs, Active,
            Pending, Statuses, Keys
<1>1. CASE StoreOptions
  BY <1>1 DEF StoreOptions
<1>2. CASE CheckQueue
  BY <1>2 DEF CheckQueue, AfterRescue
<1>3. CASE PushSlice
  BY <1>3 DEF PushSlice
<1>4. CASE PushSliceRaises
  BY <1>4 DEF PushSliceRaises, AfterRescue
<1>5. CASE EndPushing
  BY <1>5 DEF EndPushing
<1>6. ASSUME NEW r \in Results, CheckWorker(r) PROVE TypeOK'
  BY <1>6 DEF CheckWorker, UncheckedAfter, Awaited
<1>7. CASE EndPass
  BY <1>7 DEF EndPass
<1>8. CASE ReadKeys
  BY <1>8 DEF ReadKeys
<1>9. CASE DeleteKeys
  BY <1>9 DEF DeleteKeys, Deleted
<1>10. CASE ParentRaises
  BY <1>10 DEF ParentRaises
<1>11. CASE KillParent
  BY <1>11 DEF KillParent
<1>12. ASSUME NEW r \in Results, Fetch(r) PROVE TypeOK'
  BY <1>12 DEF Fetch
<1>13. ASSUME NEW r \in Results, Start(r) PROVE TypeOK'
  BY <1>13 DEF Start
<1>14. ASSUME NEW r \in Results, ReadOptions(r) PROVE TypeOK'
  BY <1>14 DEF ReadOptions
<1>15. ASSUME NEW r \in Results, WorkerError(r) PROVE TypeOK'
  BY <1>15 DEF WorkerError
<1>16. ASSUME NEW r \in Results, Save(r) PROVE TypeOK'
  BY <1>16 DEF Save
<1>17. ASSUME NEW r \in Results, Return(r) PROVE TypeOK'
  BY <1>17 DEF Return
<1>18. ASSUME NEW r \in Results, Terminate(r) PROVE TypeOK'
  BY <1>18 DEF Terminate
<1>19. ASSUME NEW r \in Results, Lapse(r) PROVE TypeOK'
  BY <1>19 DEF Lapse
<1>20. CASE UNCHANGED vars
  BY <1>20
<1> QED
  BY <1>1, <1>2, <1>3, <1>4, <1>5, <1>6, <1>7, <1>8, <1>9, <1>10, <1>11,
     <1>12, <1>13, <1>14, <1>15, <1>16, <1>17, <1>18, <1>19, <1>20
  DEF Next, ParentStep, ParentFails, JobStep, Work

\* A slice leaves toPush as it joins tracked; a slice that fails leaves an
\* error behind.
LEMMA PushedStep ==
  ASSUME IInv, [Next]_vars
  PROVE  PushedSoFar'
<1> USE DEF vars, parent, jobs, IInv, TypeOK, PushedSoFar, Joined, Waiting,
            Stopped, Jobs, Active
<1>1. CASE StoreOptions
  BY <1>1 DEF StoreOptions
<1>2. CASE CheckQueue
  BY <1>2 DEF CheckQueue, AfterRescue
<1>3. CASE PushSlice
  BY <1>3 DEF PushSlice
<1>4. CASE PushSliceRaises
  BY <1>4 DEF PushSliceRaises, AfterRescue
<1>5. CASE EndPushing
  BY <1>5 DEF EndPushing
<1>6. ASSUME NEW r \in Results, CheckWorker(r) PROVE PushedSoFar'
  BY <1>6 DEF CheckWorker, UncheckedAfter, Awaited
<1>7. CASE EndPass
  BY <1>7 DEF EndPass
<1>8. CASE ReadKeys
  BY <1>8 DEF ReadKeys
<1>9. CASE DeleteKeys
  BY <1>9 DEF DeleteKeys, Deleted
<1>10. CASE ParentRaises
  BY <1>10 DEF ParentRaises
<1>11. CASE KillParent
  BY <1>11 DEF KillParent
<1>12. ASSUME NEW r \in Results, Fetch(r) PROVE PushedSoFar'
  BY <1>12 DEF Fetch
<1>13. ASSUME NEW r \in Results, Start(r) PROVE PushedSoFar'
  BY <1>13 DEF Start
<1>14. ASSUME NEW r \in Results, ReadOptions(r) PROVE PushedSoFar'
  BY <1>14 DEF ReadOptions
<1>15. ASSUME NEW r \in Results, WorkerError(r) PROVE PushedSoFar'
  BY <1>15 DEF WorkerError
<1>16. ASSUME NEW r \in Results, Save(r) PROVE PushedSoFar'
  BY <1>16 DEF Save
<1>17. ASSUME NEW r \in Results, Return(r) PROVE PushedSoFar'
  BY <1>17 DEF Return
<1>18. ASSUME NEW r \in Results, Terminate(r) PROVE PushedSoFar'
  BY <1>18 DEF Terminate
<1>19. ASSUME NEW r \in Results, Lapse(r) PROVE PushedSoFar'
  BY <1>19 DEF Lapse
<1>20. CASE UNCHANGED vars
  BY <1>20
<1> QED
  BY <1>1, <1>2, <1>3, <1>4, <1>5, <1>6, <1>7, <1>8, <1>9, <1>10, <1>11,
     <1>12, <1>13, <1>14, <1>15, <1>16, <1>17, <1>18, <1>19, <1>20
  DEF Next, ParentStep, ParentFails, JobStep, Work

\* CheckWorker removes a job on the evidence of its status.
LEMMA JoinStep ==
  ASSUME IInv, [Next]_vars
  PROVE  JoinSound'
<1> USE DEF vars, parent, jobs, IInv, TypeOK, PushedSoFar, JoinSound, Over,
            Unfinished, Joined, Waiting, Stopped, Jobs, Active, Pending,
            Statuses, Keys
<1>1. CASE StoreOptions
  BY <1>1 DEF StoreOptions
<1>2. CASE CheckQueue
  BY <1>2 DEF CheckQueue, AfterRescue
<1>3. CASE PushSlice
  BY <1>3 DEF PushSlice
<1>4. CASE PushSliceRaises
  BY <1>4 DEF PushSliceRaises, AfterRescue
<1>5. CASE EndPushing
  BY <1>5 DEF EndPushing
<1>6. ASSUME NEW r \in Results, CheckWorker(r) PROVE JoinSound'
  BY <1>6 DEF CheckWorker, UncheckedAfter, Awaited
<1>7. CASE EndPass
  BY <1>7 DEF EndPass
<1>8. CASE ReadKeys
  BY <1>8 DEF ReadKeys
<1>9. CASE DeleteKeys
  BY <1>9 DEF DeleteKeys, Deleted
<1>10. CASE ParentRaises
  BY <1>10 DEF ParentRaises
<1>11. CASE KillParent
  BY <1>11 DEF KillParent
<1>12. ASSUME NEW r \in Results, Fetch(r) PROVE JoinSound'
  BY <1>12 DEF Fetch
<1>13. ASSUME NEW r \in Results, Start(r) PROVE JoinSound'
  BY <1>13 DEF Start
<1>14. ASSUME NEW r \in Results, ReadOptions(r) PROVE JoinSound'
  BY <1>14 DEF ReadOptions
<1>15. ASSUME NEW r \in Results, WorkerError(r) PROVE JoinSound'
  BY <1>15 DEF WorkerError
<1>16. ASSUME NEW r \in Results, Save(r) PROVE JoinSound'
  BY <1>16 DEF Save
<1>17. ASSUME NEW r \in Results, Return(r) PROVE JoinSound'
  BY <1>17 DEF Return
<1>18. ASSUME NEW r \in Results, Terminate(r) PROVE JoinSound'
  BY <1>18 DEF Terminate
<1>19. ASSUME NEW r \in Results, Lapse(r) PROVE JoinSound'
  BY <1>19 DEF Lapse
<1>20. CASE UNCHANGED vars
  BY <1>20
<1> QED
  BY <1>1, <1>2, <1>3, <1>4, <1>5, <1>6, <1>7, <1>8, <1>9, <1>10, <1>11,
     <1>12, <1>13, <1>14, <1>15, <1>16, <1>17, <1>18, <1>19, <1>20
  DEF Next, ParentStep, ParentFails, JobStep, Work

\* Only DeleteKeys removes the options.
LEMMA OptionsStep ==
  ASSUME IInv, [Next]_vars
  PROVE  OptionsKept'
<1> USE DEF vars, parent, jobs, IInv, TypeOK, PushedSoFar, OptionsKept,
            Joined, Waiting, Stopped
<1>1. CASE StoreOptions
  BY <1>1 DEF StoreOptions
<1>2. CASE CheckQueue
  BY <1>2 DEF CheckQueue, AfterRescue
<1>3. CASE PushSlice
  BY <1>3 DEF PushSlice
<1>4. CASE PushSliceRaises
  BY <1>4 DEF PushSliceRaises, AfterRescue
<1>5. CASE EndPushing
  BY <1>5 DEF EndPushing
<1>6. ASSUME NEW r \in Results, CheckWorker(r) PROVE OptionsKept'
  BY <1>6 DEF CheckWorker, UncheckedAfter, Awaited
<1>7. CASE EndPass
  BY <1>7 DEF EndPass
<1>8. CASE ReadKeys
  BY <1>8 DEF ReadKeys
<1>9. CASE DeleteKeys
  BY <1>9 DEF DeleteKeys, Deleted
<1>10. CASE ParentRaises
  BY <1>10 DEF ParentRaises
<1>11. CASE KillParent
  BY <1>11 DEF KillParent
<1>12. ASSUME NEW r \in Results, Fetch(r) PROVE OptionsKept'
  BY <1>12 DEF Fetch
<1>13. ASSUME NEW r \in Results, Start(r) PROVE OptionsKept'
  BY <1>13 DEF Start
<1>14. ASSUME NEW r \in Results, ReadOptions(r) PROVE OptionsKept'
  BY <1>14 DEF ReadOptions
<1>15. ASSUME NEW r \in Results, WorkerError(r) PROVE OptionsKept'
  BY <1>15 DEF WorkerError
<1>16. ASSUME NEW r \in Results, Save(r) PROVE OptionsKept'
  BY <1>16 DEF Save
<1>17. ASSUME NEW r \in Results, Return(r) PROVE OptionsKept'
  BY <1>17 DEF Return
<1>18. ASSUME NEW r \in Results, Terminate(r) PROVE OptionsKept'
  BY <1>18 DEF Terminate
<1>19. ASSUME NEW r \in Results, Lapse(r) PROVE OptionsKept'
  BY <1>19 DEF Lapse
<1>20. CASE UNCHANGED vars
  BY <1>20
<1> QED
  BY <1>1, <1>2, <1>3, <1>4, <1>5, <1>6, <1>7, <1>8, <1>9, <1>10, <1>11,
     <1>12, <1>13, <1>14, <1>15, <1>16, <1>17, <1>18, <1>19, <1>20
  DEF Next, ParentStep, ParentFails, JobStep, Work

\* After the join no tracked job is left that could save.
LEMMA SavedStep ==
  ASSUME IInv, [Next]_vars
  PROVE  SavedKept'
<1> USE DEF vars, parent, jobs, IInv, TypeOK, PushedSoFar, JoinSound,
            SavedKept, OnTime, Over, Unfinished, ResultsCleanedUp, Joined,
            Waiting, Stopped, Jobs, Active, Pending, Statuses, Keys
<1>1. CASE StoreOptions
  BY <1>1 DEF StoreOptions
<1>2. CASE CheckQueue
  BY <1>2 DEF CheckQueue, AfterRescue
<1>3. CASE PushSlice
  BY <1>3 DEF PushSlice
<1>4. CASE PushSliceRaises
  BY <1>4 DEF PushSliceRaises, AfterRescue
<1>5. CASE EndPushing
  BY <1>5 DEF EndPushing
<1>6. ASSUME NEW r \in Results, CheckWorker(r) PROVE SavedKept'
  BY <1>6 DEF CheckWorker, UncheckedAfter, Awaited
<1>7. CASE EndPass
  BY <1>7 DEF EndPass
<1>8. CASE ReadKeys
  BY <1>8 DEF ReadKeys
<1>9. CASE DeleteKeys
  BY <1>9 DEF DeleteKeys, Deleted
<1>10. CASE ParentRaises
  BY <1>10 DEF ParentRaises
<1>11. CASE KillParent
  BY <1>11 DEF KillParent
<1>12. ASSUME NEW r \in Results, Fetch(r) PROVE SavedKept'
  BY <1>12 DEF Fetch
<1>13. ASSUME NEW r \in Results, Start(r) PROVE SavedKept'
  BY <1>13 DEF Start
<1>14. ASSUME NEW r \in Results, ReadOptions(r) PROVE SavedKept'
  BY <1>14 DEF ReadOptions
<1>15. ASSUME NEW r \in Results, WorkerError(r) PROVE SavedKept'
  BY <1>15 DEF WorkerError
<1>16. ASSUME NEW r \in Results, Save(r) PROVE SavedKept'
  BY <1>16 DEF Save
<1>17. ASSUME NEW r \in Results, Return(r) PROVE SavedKept'
  BY <1>17 DEF Return
<1>18. ASSUME NEW r \in Results, Terminate(r) PROVE SavedKept'
  BY <1>18 DEF Terminate
<1>19. ASSUME NEW r \in Results, Lapse(r) PROVE SavedKept'
  BY <1>19 DEF Lapse
<1>20. CASE UNCHANGED vars
  BY <1>20
<1> QED
  BY <1>1, <1>2, <1>3, <1>4, <1>5, <1>6, <1>7, <1>8, <1>9, <1>10, <1>11,
     <1>12, <1>13, <1>14, <1>15, <1>16, <1>17, <1>18, <1>19, <1>20
  DEF Next, ParentStep, ParentFails, JobStep, Work

\* A run begins in the inductive invariant.
LEMMA InitInv == Init => IInv
BY DEF Init, IInv, TypeOK, PushedSoFar, JoinSound, OptionsKept, SavedKept,
       Unfinished, Over, OnTime, ResultsCleanedUp, Joined, Waiting, Stopped,
       Jobs, Active, Pending, Statuses, Keys

\* Every step of the parent, of a job or of the environment keeps it.
LEMMA StepInv == IInv /\ [Next]_vars => IInv'
<1> SUFFICES ASSUME IInv, [Next]_vars PROVE IInv'
  OBVIOUS
<1>1. TypeOK'
  BY TypeStep DEF IInv
<1> QED BY <1>1, PushedStep, JoinStep, OptionsStep, SavedStep DEF IInv

\* The inductive invariant holds in every reachable state.
THEOREM Invariance == Spec => []IInv
<1>1. QED BY InitInv, StepInv, PTL DEF Spec

\* Every variable keeps its type.
THEOREM TypeCorrect == Spec => []TypeOK
<1>1. IInv => TypeOK
  BY DEF IInv
<1>2. QED BY <1>1, Invariance, PTL

\* A tracked job whose status key has not lapsed finds the options.
THEOREM OptionsAreThere == Spec => []OptionsOutliveWorkers
<1>1. IInv => OptionsOutliveWorkers
  <2> SUFFICES ASSUME IInv, NEW r \in Results, Unfinished(r), OnTime(r)
               PROVE  options
    BY DEF OptionsOutliveWorkers
  <2>1. r \in workers
    BY DEF IInv, JoinSound, Over, OnTime, Unfinished, Active
  <2>2. ppc # "done" /\ tracked # {}
    BY <2>1 DEF IInv, JoinSound, Joined, OnTime
  <2> QED BY <2>2 DEF IInv, OptionsKept
<1>2. QED BY <1>1, Invariance, PTL

\* What tracked jobs saved reaches the task's metadata.
THEOREM SavesAreReported == Spec => []SavedIsReported
<1>1. IInv => SavedIsReported
  BY DEF IInv, SavedKept, SavedIsReported
<1>2. QED BY <1>1, Invariance, PTL

\* A finished task leaves none of its jobs' results in Redis.
THEOREM ResultsAreCleanedUp == Spec => []ResultsCleanedUp
<1>1. IInv => ResultsCleanedUp
  BY DEF IInv, SavedKept
<1>2. QED BY <1>1, Invariance, PTL

\* A result is left out only with an error of the parent.
THEOREM NoneIsSkippedSilently == Spec => []NoneSkippedSilently
<1>1. IInv => NoneSkippedSilently
  BY DEF IInv, PushedSoFar, Joined, NoneSkippedSilently
<1>2. QED BY <1>1, Invariance, PTL
==============================================================================
