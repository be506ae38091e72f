---------------------------- MODULE AsyncThreads ----------------------------
(***************************************************************************)
(* ScumblrTask::Async#run (lib/scumblr_tasks/async.rb): the task's results *)
(* in a queue, threads that pop and perform_work them, each on a database  *)
(* connection of the pool, and a parent that joins the threads and takes   *)
(* over what they noted.                                                   *)
(*                                                                         *)
(* A thread notes the results it saves in its own locals (result.rb:118-   *)
(* 157) and copies its notes to the parent's tracker after each result     *)
(* that did not raise.                                                     *)
(***************************************************************************)
EXTENDS Naturals, FiniteSets

CONSTANTS Results,      \* the ids in the queue
          Workers,      \* the threads
          Connections,  \* what the pool has for them; others use it, too
          MaxRetries    \* @database_max_retries

ASSUME AsyncAssumption ==
  /\ Connections \in Nat /\ MaxRetries \in Nat /\ IsFiniteSet(Results) /\ Workers # {}

None == "none"

VARIABLES
  queue,    \* the results nobody has popped
  w,        \* the place of each thread, its result, retries and notes
  taken,    \* the threads that hold a connection
  tracker,  \* @parent_tracker, of the results
  parent,   \* "joining", "done" or "raised"
  worked,   \* how often each result was worked on (history)
  errors    \* the results with an error event of what was raised (history)

vars == <<queue, w, taken, tracker, parent, worked, errors>>

Init ==
  /\ queue = Results
  /\ w = [t \in Workers |-> [pc |-> "connect", r |-> None, retries |-> 0, notes |-> {}]]
  /\ taken = {} /\ tracker = {} /\ parent = "joining"
  /\ worked = [r \in Results |-> 0] /\ errors = {}

At(t, p) == w[t].pc = p
Goto(t, p) == w' = [w EXCEPT ![t].pc = p]
Free == Cardinality(taken) < Connections

\* connection_pool.with_connection.
Connect(t) ==
  /\ At(t, "connect") /\ Free
  /\ taken' = taken \cup {t}
  /\ Goto(t, "loop")
  /\ UNCHANGED <<queue, tracker, parent, worked, errors>>

RetriesLeft(t) == w[t].retries < MaxRetries

\* ConnectionTimeoutError: the thread sleeps and retries.  After the last
\* retry it reports the error first: if a connection is free by then, it goes
\* on to retry, else the report raises the same error and ends the thread.
TimeOut(t) ==
  /\ At(t, "connect") /\ ~Free
  /\ IF RetriesLeft(t)
       THEN w' = [w EXCEPT ![t].retries = @ + 1]
       ELSE Goto(t, "raised")
  /\ UNCHANGED <<queue, taken, tracker, parent, worked, errors>>

\* while(!queue.empty?): with_connection gives the connection back.
QueueIsEmpty(t) ==
  /\ At(t, "loop") /\ queue = {}
  /\ Goto(t, "ended")
  /\ taken' = taken \ {t}
  /\ UNCHANGED <<queue, tracker, parent, worked, errors>>

QueueIsNotEmpty(t) ==
  /\ At(t, "loop") /\ queue # {}
  /\ Goto(t, "pop")
  /\ UNCHANGED <<queue, taken, tracker, parent, worked, errors>>

\* Mutant: the result stays in the queue.
PoppedKept(r) == queue
Popped(r) == queue \ {r}

\* queue.pop(true); another thread may have emptied the queue (ThreadError).
Pop(t) ==
  /\ At(t, "pop")
  /\ \/ /\ queue = {}
        /\ Goto(t, "loop") /\ UNCHANGED queue
     \/ \E r \in queue :
          /\ queue' = Popped(r)
          /\ w' = [w EXCEPT ![t].pc = "find", ![t].r = r]
  /\ UNCHANGED <<taken, tracker, parent, worked, errors>>

\* The outer rescue: with_connection gives the connection back, and the thread
\* ends; the report of what it raised may raise, too.
Dies(t, notes) ==
  /\ \/ errors' = errors \cup {w[t].r} /\ w' = [w EXCEPT ![t].pc = "died", ![t].notes = notes]
     \/ UNCHANGED errors /\ w' = [w EXCEPT ![t].pc = "raised", ![t].notes = notes]
  /\ taken' = taken \ {t}

\* Result.find and the broadcast of the status, outside the inner begin: the
\* result was deleted meanwhile, or the database or Redis does not answer.
FindRaises(t) ==
  /\ At(t, "find")
  /\ Dies(t, w[t].notes)
  /\ UNCHANGED <<queue, tracker, parent, worked>>

Find(t) ==
  /\ At(t, "find")
  /\ Goto(t, "work")
  /\ UNCHANGED <<queue, taken, tracker, parent, worked, errors>>

\* perform_work saves the result, or does not.
Notes(t) == {w[t].notes, w[t].notes \cup {w[t].r}}

Work(t) ==
  /\ At(t, "work")
  /\ worked' = [worked EXCEPT ![w[t].r] = @ + 1]
  /\ \E n \in Notes(t) : w' = [w EXCEPT ![t].pc = "sync", ![t].notes = n]
  /\ UNCHANGED <<queue, taken, tracker, parent, errors>>

\* perform_work raises, before or after it saved, and is reported; or the
\* report raises, which leaves the inner begin.
WorkRaises(t) ==
  /\ At(t, "work")
  /\ worked' = [worked EXCEPT ![w[t].r] = @ + 1]
  /\ \E n \in Notes(t) :
       \/ /\ w' = [w EXCEPT ![t].pc = "loop", ![t].notes = n]
          /\ errors' = errors \cup {w[t].r} /\ UNCHANGED taken
       \/ Dies(t, n)
  /\ UNCHANGED <<queue, tracker, parent>>

\* Mutant: the last writer wins.
TrackedLast(notes) == notes
Tracked(notes) == tracker \cup notes

\* The synchronized block.
Sync(t) ==
  /\ At(t, "sync")
  /\ tracker' = Tracked(w[t].notes)
  /\ Goto(t, "loop")
  /\ UNCHANGED <<queue, taken, parent, worked, errors>>

\* Mutant: the parent does not join.
JoinedAtOnce == TRUE
\* Mutant: it waits for a thread that died.
JoinedEnded == \A t \in Workers : w[t].pc = "ended"
Joined == \A t \in Workers : w[t].pc \in {"ended", "died"}

\* threads.map(&:join), and the notes become the parent's.
Join ==
  /\ parent = "joining" /\ Joined
  /\ parent' = "done"
  /\ UNCHANGED <<queue, w, taken, tracker, worked, errors>>

\* join raises what ended a thread.
JoinRaises ==
  /\ parent = "joining" /\ \E t \in Workers : At(t, "raised")
  /\ parent' = "raised"
  /\ UNCHANGED <<queue, w, taken, tracker, worked, errors>>

Step(t) ==
  \/ Connect(t) \/ TimeOut(t) \/ QueueIsEmpty(t) \/ QueueIsNotEmpty(t) \/ Pop(t)
  \/ FindRaises(t) \/ Find(t) \/ Work(t) \/ WorkRaises(t) \/ Sync(t)

Next ==
  \/ \E t \in Workers : Step(t)
  \/ Join \/ JoinRaises

Spec == Init /\ [][Next]_vars

\* The threads run, and so does the one that joins them.
FairSpec == Spec /\ (\A t \in Workers : WF_vars(Step(t))) /\ WF_vars(Join \/ JoinRaises)

-----------------------------------------------------------------------------
Places == {"connect", "loop", "pop", "find", "work", "sync", "ended", "died", "raised"}

\* The threads that hold a connection are those inside with_connection.
TypeOK ==
  /\ queue \subseteq Results
  /\ \A t \in Workers :
       /\ w[t].pc \in Places /\ w[t].r \in Results \cup {None}
       /\ w[t].retries \in 0..MaxRetries /\ w[t].notes \subseteq Results
       /\ t \in taken <=> w[t].pc \in {"loop", "pop", "find", "work", "sync"}
  /\ tracker \subseteq Results /\ parent \in {"joining", "done", "raised"}
  /\ Cardinality(taken) <= Connections

\* No result is worked on twice, although "queue.empty?" and "pop" are two
\* steps; and none at all is lost between the queue and a thread.
EachOnce ==
  \A r \in Results :
    /\ worked[r] <= 1
    /\ r \notin queue /\ worked[r] = 0 /\ r \notin errors =>
         \E t \in Workers : w[t].r = r /\ w[t].pc \in {"find", "work", "raised"}

\* When the run is over without an exception, results are left in the queue
\* only if every thread died of an exception outside perform_work's rescue, and
\* an error event tells of each.
LeftOnlyIfAllDied ==
  parent = "done" /\ queue # {} => \A t \in Workers : w[t].pc = "died" /\ w[t].r \in errors

\* When the run is over without an exception, the parent has the notes of all
\* results that were saved and did not raise.
SavedIsTracked ==
  parent = "done" =>
    \A t \in Workers : w[t].notes \subseteq tracker \cup errors

\* The run ends, also when the pool has no connection for the threads.
RunEnds == <>(parent # "joining")
=============================================================================
