---------------------------- MODULE Screenshots -----------------------------
(***************************************************************************)
(* Screenshots of results: a ScreenshotSyncTaskRunner that has them taken  *)
(* one by one, the ScreenshotRunner jobs it and requests start, the call   *)
(* to Sketchy with its retries, and what Sketchy calls back                *)
(* (app/workers/screenshot_sync_task_runner.rb, screenshot_runner.rb,      *)
(* result.rb:197-259, results_controller.rb:468-488, 642-717).             *)
(*                                                                         *)
(* Modelled are full screenshots (status_code_only is off) with            *)
(* sketchy_tag_status_code set, and jobs for one result each.  A job of    *)
(* generate_screenshot for every result (id nil) is not.                   *)
(*                                                                         *)
(* All the jobs share the threads.  A call that Sketchy accepted may be    *)
(* answered late, and is then made again: each acceptance is a capture,    *)
(* and each capture is called back when Sketchy is done with it.           *)
(***************************************************************************)
EXTENDS Naturals, Sequences, FiniteSets

CONSTANTS List,         \* the results whose screenshots are taken
          Codes,        \* the HTTP status codes that pages answer with
          Retries,      \* 3 in the code
          JobRetries,   \* how often Sidekiq performs a job again: 25
          MaxRuns, MaxCaptures, \* the largest numbers in Bounds
          Bounds        \* how many there are: threads, results of the run,
                        \* executions of the run (Sidekiq retries it), results
                        \* people ask for, calls Sketchy accepts, and mishaps:
                        \* processes that stop and jobs that raise

ASSUME ScreenshotsAssumption ==
  /\ List \in Seq({List[i] : i \in DOMAIN List}) /\ "none" \notin Codes
  /\ Retries \in Nat /\ JobRetries \in Nat /\ MaxRuns \in Nat /\ MaxCaptures \in Nat
  /\ Bounds \subseteq [threads : Nat \ {0}, results : 0..Len(List), runs : 1..MaxRuns,
                       requests : 0..Len(List), captures : 0..MaxCaptures, mishaps : Nat]

None == "none"
NoJob == <<>>
Results == {List[i] : i \in DOMAIN List}
\* <<n, i>> takes a screenshot of List[i]: for the n-th execution of the run,
\* or for a request (n = 0).
Requested == {0} \X DOMAIN List
Jobs == ((1..MaxRuns) \X DOMAIN List) \cup Requested
Of(j) == List[j[2]]
Captures == 1..MaxCaptures

VARIABLES
  bounds,     \* one of the Bounds
  sync,       \* the run: its place, execution, results left, job waited for
  job,        \* the place of each job, how often it raised, its attempts, the
              \* code it loaded
  status,     \* the sidekiq-status key of each job
  capture,    \* the place of each capture and of the request that reports it
  metadata,   \* the status code in each result's metadata
  tags,       \* the Status tags of each result
  mishaps,    \* how many processes stopped and jobs raised (for the bound)
  lapsed,     \* jobs whose key lapsed before they ran (history)
  overlapped, \* results of which two callbacks were handled at once (history)
  disturbed   \* those, and where a write was lost or a request died (history)

jobs == <<job, status>>
result == <<metadata, tags>>
history == <<overlapped, disturbed>>
shotVars == <<bounds, sync, jobs, capture, result, mishaps, lapsed, history>>

ShotInit ==
  /\ bounds \in Bounds
  /\ sync = [pc |-> "queued", run |-> 1, left |-> bounds.results, waiting |-> NoJob]
  /\ job = [j \in Jobs |-> [pc |-> None, raised |-> 0, attempts |-> 0, loaded |-> None]]
  /\ status = [j \in Jobs |-> None]
  /\ capture = [c \in Captures |-> [pc |-> None, of |-> NoJob, code |-> None, old |-> None]]
  /\ metadata = [r \in Results |-> None]
  /\ tags = [r \in Results |-> {}]
  /\ mishaps = 0 /\ lapsed = {} /\ overlapped = {} /\ disturbed = {}

-----------------------------------------------------------------------------
(* The pool of threads and the status keys. *)

Mishap == mishaps < bounds.mishaps /\ mishaps' = mishaps + 1

Running(j) == job[j].pc \in {"send", "answer"}
Free ==
  Cardinality({j \in Jobs : Running(j)}) + (IF sync.pc = "running" THEN 1 ELSE 0) < bounds.threads

Enqueue(j) ==
  /\ job' = [job EXCEPT ![j].pc = "queued"]
  /\ status' = [status EXCEPT ![j] = "queued"]

Left(j, pc, n) ==
  job' = [job EXCEPT ![j] = [pc |-> pc, raised |-> @.raised + n, attempts |-> 0, loaded |-> None]]

\* The job raises.  Sidekiq will perform it again from the start, unless it has
\* done so often enough; the key says so, if Redis can be reached for that.
Raise(j) ==
  /\ Mishap
  /\ Left(j, IF job[j].raised < JobRetries THEN "retry" ELSE "over", 1)
  /\ status' \in {status, [status EXCEPT ![j] = "failed"]}

\* The job returns, and the last write of its key may raise.
End(j) ==
  \/ /\ Left(j, "over", 0)
     /\ status' = [status EXCEPT ![j] = "complete"]
     /\ UNCHANGED mishaps
  \/ Raise(j)

\* Sidekiq puts a job that raised into its queue again.
Requeue(j) ==
  /\ job[j].pc = "retry"
  /\ Enqueue(j)
  /\ UNCHANGED <<bounds, mishaps, sync, capture, result, lapsed, history>>

\* A key that no job refreshes lapses after a day.
Lapse(j) ==
  /\ job[j].pc \in {"queued", "retry", "cut", "over"} /\ status[j] # "nil"
  /\ status' = [status EXCEPT ![j] = "nil"]
  /\ lapsed' = IF job[j].pc = "queued" THEN lapsed \cup {j} ELSE lapsed
  /\ UNCHANGED <<bounds, mishaps, sync, job, capture, result, history>>

-----------------------------------------------------------------------------
(* ScreenshotSyncTaskRunner#perform. *)

SyncStart ==
  /\ sync.pc = "queued" /\ Free
  /\ sync' = [sync EXCEPT !.pc = "running"]
  /\ UNCHANGED <<bounds, mishaps, jobs, capture, result, lapsed, history>>

\* Mutant: there is room for two.
RoomForTwo ==
  \/ sync.waiting = NoJob
  \/ sync.left + 1 = bounds.results
\* while(job_ids.count < queue_size ...), which is 1.
Room == sync.waiting = NoJob

\* result_ids.pop takes the last one.
Push ==
  /\ sync.pc = "running" /\ Room /\ sync.left > 0
  /\ LET j == <<sync.run, sync.left>> IN
       /\ Enqueue(j)
       /\ sync' = [sync EXCEPT !.left = @ - 1, !.waiting = j]
  /\ UNCHANGED <<bounds, mishaps, capture, result, lapsed, history>>

\* Mutant: a job is done as soon as it is not at work.
DoneUnlessAtWork(j) == status[j] # "working"
\* Mutant: a key that lapsed is not asked for.
DoneByKey(j) == status[j] = "complete"
\* :complete, :failed or nil; not :interrupted.
CountsAsDone(j) == status[j] \in {"complete", "failed", "nil"}

\* The loop that polls does nothing until the key says so.
Count ==
  /\ sync.pc = "running" /\ sync.waiting # NoJob
  /\ CountsAsDone(sync.waiting)
  /\ sync' = [sync EXCEPT !.waiting = NoJob]
  /\ UNCHANGED <<bounds, mishaps, jobs, capture, result, lapsed, history>>

Finish ==
  /\ sync.pc = "running" /\ sync.waiting = NoJob /\ sync.left = 0
  /\ sync' = [sync EXCEPT !.pc = "done"]
  /\ UNCHANGED <<bounds, mishaps, jobs, capture, result, lapsed, history>>

\* Redis or the database fails under the run: Sidekiq performs it again, from
\* the start, and what it had pushed goes on.
SyncRaises ==
  /\ sync.pc = "running" /\ sync.run < bounds.runs
  /\ sync' = [pc |-> "queued", run |-> sync.run + 1, left |-> bounds.results, waiting |-> NoJob]
  /\ UNCHANGED <<bounds, mishaps, jobs, capture, result, lapsed, history>>

\* Its process is stopped, and the job is not put back.
SyncStops ==
  /\ Mishap
  /\ sync.pc = "running"
  /\ sync' = [sync EXCEPT !.pc = "cut"]
  /\ UNCHANGED <<bounds, jobs, capture, result, lapsed, history>>

-----------------------------------------------------------------------------
(* ScreenshotRunner#perform and Result#create_attachment_from_sketchy. *)

\* generate_screenshot asks for the screenshot of one result.
Request(j) ==
  /\ j[2] <= bounds.requests /\ job[j].pc = None
  /\ Enqueue(j)
  /\ UNCHANGED <<bounds, mishaps, sync, capture, result, lapsed, history>>

\* A thread takes the job, and Result.find(id) loads the metadata.
Fetch(j) ==
  /\ job[j].pc = "queued" /\ Free
  /\ job' = [job EXCEPT ![j].pc = "send", ![j].loaded = metadata[Of(j)]]
  /\ status' = [status EXCEPT ![j] = "working"]
  /\ UNCHANGED <<bounds, mishaps, sync, capture, result, lapsed, history>>

\* Before it comes to the result: the first writes of its key, the query for
\* the ids.
FetchRaises(j) ==
  /\ job[j].pc = "queued" /\ Free
  /\ Raise(j)
  /\ UNCHANGED <<bounds, sync, capture, result, lapsed, history>>

\* Sketchy accepts the request and will take a screenshot.
Accept(j) ==
  /\ job[j].pc = "send"
  /\ \E c \in Captures :
       /\ c <= bounds.captures /\ capture[c].pc = None /\ \A d \in 1..c-1 : capture[d].pc # None
       /\ capture' = [capture EXCEPT ![c].pc = "taken", ![c].of = j]
  /\ job' = [job EXCEPT ![j].pc = "answer"]
  /\ UNCHANGED <<bounds, mishaps, sync, status, result, lapsed, history>>

\* Mutant: one attempt more.
MayRetryOnceMore(j) == job[j].attempts <= Retries
MayRetry(j) == job[j].attempts < Retries

\* rescue RuntimeError, EOFError, of which a timeout is one.
Rescue(j) ==
  IF MayRetry(j)
    THEN /\ job' = [job EXCEPT ![j].pc = "send", ![j].attempts = @ + 1]
         /\ UNCHANGED <<status, mishaps>>
    ELSE End(j)

\* A code other than 200 and 201, or no answer in time: without, or with, a
\* capture on the other side.
BadAnswer(j) ==
  /\ job[j].pc \in {"send", "answer"}
  /\ Rescue(j)
  /\ UNCHANGED <<bounds, sync, capture, result, lapsed, history>>

\* Any other error ends the attempt: a refused connection, no JSON in the answer.
OtherError(j) ==
  /\ job[j].pc \in {"send", "answer"}
  /\ End(j)
  /\ UNCHANGED <<bounds, sync, capture, result, lapsed, history>>

\* 200 or 201: the id is added to the metadata that was loaded before the call,
\* and all of it is saved.
Answer(j) ==
  /\ job[j].pc = "answer"
  /\ metadata' = [metadata EXCEPT ![Of(j)] = job[j].loaded]
  /\ disturbed' = IF metadata' = metadata THEN disturbed ELSE disturbed \cup {Of(j)}
  /\ End(j)
  /\ UNCHANGED <<bounds, sync, capture, tags, lapsed, overlapped>>

\* The process stops.  Sidekiq marks its jobs as interrupted, if it has time.
Cut(j) ==
  /\ Mishap
  /\ Running(j)
  /\ Left(j, "cut", 0)
  /\ status' \in {status, [status EXCEPT ![j] = "interrupted"]}
  /\ UNCHANGED <<bounds, sync, capture, result, lapsed, history>>

-----------------------------------------------------------------------------
(* ResultsController#update_screenshot, with sketchy_tag_status_code. *)

About(c) == Of(capture[c].of)
Handled(c) == capture[c].pc \in {"loaded", "saved", "untag", "tag"}
Is(c, pc) == capture[c].pc = pc
Goto(c, pc) == capture' = [capture EXCEPT ![c].pc = pc]
Leave(c) ==
  capture' = [capture EXCEPT ![c] = [pc |-> "over", of |-> @.of, code |-> None, old |-> None]]

\* Sketchy calls back, and the result is loaded.
CallBack(c) ==
  /\ Is(c, "taken")
  /\ \E code \in Codes : capture' = [capture EXCEPT ![c].pc = "loaded", ![c].code = code]
  /\ LET others == {About(d) : d \in {e \in Captures \ {c} : Handled(e)}} \cap {About(c)} IN
       overlapped' = overlapped \cup others /\ disturbed' = disturbed \cup others
  /\ UNCHANGED <<bounds, mishaps, sync, jobs, result, lapsed>>

\* The attachment and the scrape are fetched; the latter may raise, which ends
\* the request before it saved anything.
ScrapeRaises(c) ==
  /\ Is(c, "loaded")
  /\ Leave(c)
  /\ UNCHANGED <<bounds, mishaps, sync, jobs, result, lapsed, history>>

\* metadata.merge(:status_code), and save.
Save(c) ==
  /\ Is(c, "loaded")
  /\ metadata' = [metadata EXCEPT ![About(c)] = capture[c].code]
  /\ Goto(c, "saved")
  /\ UNCHANGED <<bounds, mishaps, sync, jobs, tags, lapsed, history>>

\* Mutant: the other tag stays.
LookAndKeep(c) ==
  /\ Is(c, "saved")
  /\ IF capture[c].code \in tags[About(c)] THEN Leave(c) ELSE Goto(c, "tag")
  /\ UNCHANGED <<bounds, mishaps, sync, jobs, result, lapsed, history>>
\* Mutant: a result with a Status tag is left alone.
LookForAny(c) ==
  /\ Is(c, "saved")
  /\ IF tags[About(c)] # {} THEN Leave(c) ELSE Goto(c, "tag")
  /\ UNCHANGED <<bounds, mishaps, sync, jobs, result, lapsed, history>>
\* No Status tag, another one, or the same.
Look(c) ==
  /\ Is(c, "saved")
  /\ \/ tags[About(c)] = {} /\ Goto(c, "tag")
     \/ /\ tags[About(c)] # {} /\ capture[c].code \notin tags[About(c)]
        /\ \E t \in tags[About(c)] :
             capture' = [capture EXCEPT ![c].pc = "untag", ![c].old = t]
     \/ capture[c].code \in tags[About(c)] /\ Leave(c)
  /\ UNCHANGED <<bounds, mishaps, sync, jobs, result, lapsed, history>>

\* taggings.where(tag: t).delete_all
Untag(c) ==
  /\ Is(c, "untag")
  /\ tags' = [tags EXCEPT ![About(c)] = @ \ {capture[c].old}]
  /\ capture' = [capture EXCEPT ![c].pc = "tag", ![c].old = None]
  /\ UNCHANGED <<bounds, mishaps, sync, jobs, metadata, lapsed, history>>

\* tags << Tag...first_or_create; if it is there by now, that raises.
AddTag(c) ==
  /\ Is(c, "tag")
  /\ tags' = [tags EXCEPT ![About(c)] = @ \cup {capture[c].code}]
  /\ Leave(c)
  /\ UNCHANGED <<bounds, mishaps, sync, jobs, metadata, lapsed, history>>

\* The web process stops in the middle.
HandlerStops(c) ==
  /\ Mishap
  /\ Handled(c)
  /\ Leave(c)
  /\ disturbed' = disturbed \cup {About(c)}
  /\ UNCHANGED <<bounds, sync, jobs, result, lapsed, overlapped>>

-----------------------------------------------------------------------------
SyncStep == SyncStart \/ Push \/ Count \/ Finish
JobStep(j) == Accept(j) \/ BadAnswer(j) \/ OtherError(j) \/ Answer(j)
Handler(c) == ScrapeRaises(c) \/ Save(c) \/ Look(c) \/ Untag(c) \/ AddTag(c)

ShotNext ==
  \/ SyncStep \/ SyncRaises \/ SyncStops
  \/ \E j \in Requested : Request(j)
  \/ \E j \in Jobs : Fetch(j) \/ FetchRaises(j) \/ JobStep(j) \/ Cut(j) \/ Requeue(j) \/ Lapse(j)
  \/ \E c \in Captures : CallBack(c) \/ Handler(c) \/ HandlerStops(c)

ShotSpec == ShotInit /\ [][ShotNext]_shotVars

\* The run's thread is scheduled, threads that are free fetch jobs, a call to
\* Sketchy comes to an end (it has a timeout), and Redis drops old keys.
FairShotSpec ==
  /\ ShotSpec
  /\ WF_shotVars(SyncStep)
  /\ \A j \in Jobs : WF_shotVars(Fetch(j)) /\ WF_shotVars(JobStep(j)) /\ WF_shotVars(Lapse(j))

-----------------------------------------------------------------------------
Alive(j) == job[j].pc = "queued" \/ Running(j)

\* A job that the run counted as done may still come: its key lapsed before it
\* got a thread, or it raised, and Sidekiq performs it again.
CountedEarly(j) == j \in lapsed \/ job[j].raised > 0

\* Never are two jobs of one execution of the run waiting or at work, unless the
\* one that was pushed first had been counted early
\* (screenshot_sync_task_runner.rb:33-57).
OneAtATime ==
  \A i, k \in DOMAIN List :
    Alive(<<sync.run, i>>) /\ Alive(<<sync.run, k>>) /\ k < i => CountedEarly(<<sync.run, i>>)

\* When the run is done, a job for each of its results has ended, was cut, or
\* was counted early.
NoneForgotten ==
  sync.pc = "done" =>
    \A i \in 1..bounds.results :
      job[<<sync.run, i>>].pc \in {"over", "cut"} \/ CountedEarly(<<sync.run, i>>)

\* However late its answers are, a job has Sketchy take no more than one
\* screenshot and one for each retry each time that it is performed
\* (result.rb:223-252).
CapturesAreFew ==
  \A j \in Jobs :
    Cardinality({c \in Captures : capture[c].of = j}) <= (Retries + 1) * (job[j].raised + 1)

\* A result has two Status tags only if two callbacks of it were handled at the
\* same time (results_controller.rb:701-711).
OneStatusTag == \A r \in Results : Cardinality(tags[r]) > 1 => r \in overlapped

\* Between callbacks the Status tag is the status code of the metadata, unless
\* callbacks overlapped, a job wrote old metadata back, or a request died
\* (result.rb:231-237, results_controller.rb:687-711).
TagIsStatusCode ==
  \A r \in Results \ disturbed :
    (\A c \in Captures : Handled(c) => About(c) # r) => tags[r] = {metadata[r]} \ {None}

\* The run ends, whatever becomes of its jobs, and also when it holds the only
\* thread: then the keys of its jobs lapse.
RunEnds == <>(sync.pc \in {"done", "cut"})
=============================================================================
