# Scumblr, specified

Scumblr is a Rails application that runs *tasks* (searches, scanners, sync and
maintenance jobs) on Sidekiq, stores what they find as *results* in PostgreSQL, and
keeps in each result's `metadata` column the *vulnerabilities* that were found there.
This directory holds TLA+ modules for its core logic, the TLC configurations that check
them on small instances, and theorems that TLAPS proves for all instances.
Paths are relative to the repository's root.

## 1. Inventory

### 1.1 Components

| Component | State it keeps | Operations |
|---|---|---|
| **Task runner / worker** `app/workers/task_runner.rb`, `task_worker.rb` | the groups still to push, the jobs waited for, sidekiq-status keys, Fatal events | select the tasks, push a group, poll status, next group; find a task and perform it, rescue |
| **AsyncSidekiq** `lib/scumblr_tasks/async_sidekiq.rb` | Redis keys `<jid>:…` (options, results, events), `@workers` | store options, push slices, join, read and delete the keys; a worker's perform and its events |
| **Async** `lib/scumblr_tasks/async.rb` | an in-memory queue, threads with connections, a thread tracker | pop, find, work, copy the notes, join |
| **Task schedule** `app/models/task.rb`, `app/controllers/tasks_controller.rb` | the columns `enabled` and `frequency`; the schedule of sidekiq-scheduler in Redis | save, schedule, unschedule, destroy, bulk actions, rebuild at boot |
| **Run of a task** `app/models/task.rb` (`perform_task`), `lib/scumblr_tasks/base.rb` | the locals of Sidekiq's threads; lists in the task's metadata | initialize, start, complete or fail, import results, record |
| **Results** `app/models/result.rb` | rows with a unique URL, tags, links to tasks, metadata, the row cache | find or create, tag, link, read and change metadata by paths, search, screenshots |
| **Vulnerabilities** `lib/helpers/vulnerability_helpers.rb` | a list in `metadata`, with counts beside it | report, remediate, count, find duplicates, normalise; edit, append and clean |
| **Sidekiq's configuration** `config/initializers/sidekiq.rb` | limits of queues, status keys | `process_limit`, `bulk_requeue`, `update_schedules` at boot |
| **Screenshots** `app/workers/screenshot_*`, `sketchy.rb`, the callback in `results_controller.rb` | requests under way, attachments, Status tags | request with retries, poll one at a time, callback |
| **Page of results** `app/assets/javascripts/application.js`, `app/views/results`, `update_multiple` | check boxes, their copies in the form, two headers, a panel | check, select the query, clear, post, dismiss a confirmation |
| **Bulk add, flags, statuses** `results_controller.rb`, `lib/workflowable`, `status.rb` | flags with stages, the default status | bulk_add, flag, action |
| **Email summaries** `lib/tasks/sync_tasks.rake` | one row per window | select, store, mail |
| **Analyzers and syncs** `lib/scumblr_tasks/security`, `sync_tasks`, `lib/search_providers` | none of their own | page through a service, map hits to findings or results |
| **Maintenance** `lib/scumblr_tasks/maintenance_tasks` | none of their own | clean and move vulnerabilities, delete events |
| Events, users, saved filters, views | rows | create, read, delete |

### 1.2 How they interact

A request or the schedule starts a `TaskRunner` job. It pushes a `TaskWorker` job for each
task of a group and waits for the group by polling status keys. A `TaskWorker` calls
`perform_task`, which runs a task class or search provider; an `AsyncSidekiq` task fans out
to a job per result and waits for those, an `Async` task to threads. All of these keep
their Sidekiq thread while they wait. Whoever saves a `Result` notes it through the model's
callbacks in the thread's locals or in Redis; `perform_task` moves the notes into the
task's metadata. Requests change the same rows at the same time, without locks: the
metadata column is read, changed and written as a whole.

### 1.3 What is hard here

* **Waiting by status key.** A key says `queued` or `working` until the middleware writes
  otherwise; it lapses after a day; a terminated process never writes it. Waiting for a key
  is not waiting for a job.
* **Waiting jobs hold threads.** Three levels of jobs in one pool can wait for each other.
* **Threads outlive jobs.** What a job leaves in the locals the next one finds.
* **Two stores.** The schedule in Redis follows callbacks that run on stale copies of rows.
* **Whole columns are written back.** Two writers lose one another's changes; counts and
  entries must nevertheless agree in what is stored.
* **Answers that come late.** A call to Sketchy that timed out is made again, and both are called back.
* **State in the browser.** Handlers that are bound again, animations and clones make the page and the form two stores.
* **Find, then insert.** Only some of the pairs are protected by a unique index.
* **Exceptions leave loops in the middle**, and something further out rescues them.

### 1.4 What makes each component correct

| Component | Properties |
|---|---|
| Task runner | groups run in order; every task is accounted for; nothing runs twice; the run ends |
| AsyncSidekiq | options outlive the workers; what they save is reported; nothing is skipped in silence; the parent ends |
| Async | each result is worked on once; what is left in the queue has a reason; what was saved is tracked; the run ends |
| Schedule | it agrees with the table after operations that did not overlap, and a rebuild repairs what overlapping ones did |
| Pool | jobs never all wait for each other; every run ends |
| Run of a task | the lists name what the task's runs saved, and nothing else without a reason |
| Import | what a run returned is there with tags and link, whoever else imports it |
| Vulnerabilities | one entry per finding; counts agree with entries; people's decisions stand; a scan is mirrored; tallies are true |
| Screenshots | one at a time; nobody is forgotten; a late answer costs a bounded number of captures; tag and status code agree; the run ends |
| Page of results | the headers tell what is selected, and the form does that and no more, once |
| Metadata paths | a path changes what it names and nothing else, and reads back what it set |

## 2. Modules

Each component has a module and an `MC…` module with its instances; the theorems are in the
`…_proofs` modules, one for a component or for two that share what they are about.

| Module | Models | Composition |
|---|---|---|
| `OrderedGroups` | what the runner promises: tasks are released group by group | abstract; `TaskRunner` implements it |
| `TaskRunner` | `TaskRunner#perform`, `TaskWorker#perform`, status keys, termination | `INSTANCE OrderedGroups WITH phase, open` |
| `AsyncSidekiq` | `AsyncSidekiq#run`, `AsyncSidekiqWorker#perform`, the Redis keys | – |
| `SidekiqPool` | threads, queue limits, who waits for whom | runner, worker and parts together, each reduced to its stages |
| `TaskSchedule` | the table's columns, the schedule, and all operations on them | – |
| `Vulnerabilities` | one result's column, the row cache, scans and people | – |
| `TaskRun` | threads that run jobs of all kinds; notes and lists | sync runs, providers, AsyncSidekiq parents and parts, screenshot jobs |
| `ResultImport` | loops of several runs over results, statement by statement | people who delete |
| `AsyncThreads` | queue, threads, connection pool, tracker, join | – |
| `MetadataPaths` | `_traverse_and_update_metadata` and `_traverse_metadata` | – |
| `Screenshots` | `ScreenshotSyncTaskRunner`, `ScreenshotRunner`, `create_attachment_from_sketchy`, `update_screenshot` | a run, requests, the pool of threads, Sketchy, the web processes |
| `ResultsPage` | the handlers of `application.js:583-661`, the form, `update_multiple` for tags and deletion | page, form and database together |

### 2.1 How state and actions correspond to the code

**TaskRunner.** `rpc` is the place in `perform`; `selected`, `left`, `toPush` are the
sorted groups, `workers` and `unchecked` the list under `delete_if`, `count` the number shown as
progress. `job` is what has become of each job, `status` its sidekiq-status key (`"nil"` once it lapsed):
the two differ exactly when a process was terminated or a key lapsed. One
action per statement that another process can observe: `Prepare`, `BeginGroup`, `Push`,
`QueueNotFound`, `CheckWorker`, `EndPass`, `Finish`. `RunnerRaises` and `PushRaises` are the
rescue; `KillRunner` and `Terminate` are processes that stop (`bulk_requeue` is overridden to do nothing, so the job is gone).
`runs`, `performed`, `lapsed` are history. A `Fatal` event is a pair of its source and the task.

**AsyncSidekiq.** `ppc` is the place in `run`; `options` and `redis` are the keys; the errors are
written under `events:Error` and read under `events:errors`, and the model has both. A worker
fetches its job, enters `perform`, reads the options, saves and raises any number of errors,
and returns. Slices are pushed one by one, and `push_bulk` may raise between them.

**SidekiqPool.** `job` gives each job a stage. `CanFetch` is sidekiq-limit_fetch: a free
thread and a queue below its limit. The detail of pushing and polling is that of the two modules above.
`ScreenshotSyncTaskRunner` holds a thread of the default queue while it waits, too, and no limit applies to that queue; it is in `Screenshots` and not in this pool, so that
`NeverStuck` and `RunsEnd` speak of runs, tasks and parts among themselves.

**TaskSchedule.** Every operation is begin, load, save (`UPDATE` with `update_schedule` in
the after_save callback), commit, with the row locked in between; `unschedule_from_sidekiq` reads and writes
the whole schedule in two steps, `update_schedules` empties it, queries, and adds
entry by entry. `op[a]` holds the actor's copy of the columns. `drifted` is history: operations overlapped
since the last rebuild that ran alone.

**Vulnerabilities.** `row` is the column (entries, counts by state and task), `cache` the row
in `Rails.cache`, `op[a].base` an actor's loaded copy. Every action from a load to a write is whole:
`Scan` is `add_scan_vulnerabilities`, `Analyze` is `update_vulnerabilities`, and both pass through the
duplicate search, the normalisation and, on save, `vulnerability_counter`. `Flush` is the after-commit hook,
a step of its own. `Array#except`, which the scan uses, comes from a core extension of the
github_api gem. Three things of the code have no counterpart: the branch at
`vulnerability_helpers.rb:230-243` is not reachable (the status of a reported vulnerability is always
"New"), no caller sets `update_all_matching`, and `auto_remediate` is not called.

**TaskRun.** `local[t]` are `current_task`, `sidekiq_job_id` and `current_results` of a thread, `on[t]`
the job on it with its copy of the task's lists, `redis` what parts note for their parent, `row` what is stored.
`Refuse` is a provider's constructor, which looks for its settings before it does anything else (`provider.rb:28-38`); `Initialize` is every other
constructor that gets beyond that: it names the task to the thread (`Tracked`), moves the lists and saves, and may raise after that. The one of an AsyncSidekiq task takes the tracking back
when `Base`'s has returned (`Untracked`, `async_sidekiq.rb:27-30`), so that such a run has neither a current task nor notes of its own.
`Complete` is both a run that returned and one whose exception `Base#start` rescued.
`Escape` is an exception outside of it, which `TaskWorker` rescues.

**ResultImport.** `loop[l]` is the place in the loop of one run and the results still to come. Find,
validation, insert, tag, link are separate steps because each is a separate statement;
`UrlTaken` and `LinkTaken` are the unique indexes of `db/structure.sql`; that they hold, whichever loops race, is in `TypeOK` (`TypeCorrect` proves it). A save that a validation refuses
goes on with the id `Nil`, as the code does. `Delete` takes the taggings of a row with it (`dependent: :delete_all`) and leaves the links. `deleted` keeps,
for each row that is gone, the tasks that were linked to it and the loops that were at it.

**AsyncThreads.** `w[t]` is a thread's place, result, retries and notes; `taken` are the threads
that hold a connection. What the rescue around `perform_work` does not catch ends a thread (`Dies`): `Result.find` and the broadcast of the status before it (`FindRaises`),
or `create_error` inside that rescue (`WorkRaises`). The outer rescue then reports it and the thread is over (`died`), or its report raises as well, and the exception waits for the join (`raised`).

**MetadataPaths.** `stored` is the metadata as a set of nodes, each a position and what is there: a hash, a list, a number, true, false or a text.
A text is a sequence of letters, each of them a key, since Ruby's `String#[]` looks for a key in a text; it is a `Piece` that it finds, which is in no tree.
`Updated` and `Read` are the recursive methods as recursive functions: `Follow` is a key that names one thing, `Each` the loop of a key that
stands for several, `Traverse` a call with its rescue. What leaves a call is the tree and whether it raised: changes made before an exception
that is rescued stay, while one that leaves the call leaves the row as it was. `FollowLeaf` is a key at a text, number or boolean: as the last key it is looked for in the text, and `String#[]=` puts the value in its place,
in the tree (`SetLeaf`, `result.rb:654`), or raises if it is not found or the value is no text; `"[]"` appends. A where-key asks every element of a list for its field (`result.rb:583`): a list or a number
among them raises, and the key selects nothing (`Askable`). Nulls, and the digits of numbers, are left out.

**Screenshots.** `sync` is the run: its place, which execution it is (Sidekiq performs a job that raised again, from the start), the
results left and the job it polls. `job[j]` is a `ScreenshotRunner` with the metadata it loaded before it called Sketchy; `capture[c]` is one
screenshot that Sketchy took on and the request by which it reports it, from `taken` through the statements of `update_screenshot`.
What lies outside the rescue of `ScreenshotRunner#perform`, which is its first lines (`FetchRaises`) and the middleware's last write of the key (`End`), may raise: the key becomes `failed`, if Redis can be reached, and
Sidekiq puts the job into its queue again (`Requeue`), up to `JobRetries` times, with its attempts at 0. The run counts `complete`, `failed` and a missing key as done (`CountsAsDone`).
`Accept` is what happens at Sketchy, `Answer` and `BadAnswer` what the job sees of it: a timeout is a `BadAnswer` after an `Accept`.
`Cut`, `SyncStops` and `HandlerStops` are processes that stop. `bounds` holds the bounds of the instance, one of `Bounds`, and no step changes it.

**ResultsPage.** `checked`, `disabled`, `checkAll` and `query` are the inputs, `open` and `fading` the parts that slide (what slides up can be
clicked until it is gone). Every handler is one action. `copies` and `ticked` are what `clone(true, true)` left in the form; `bound` counts how often `ready()` has bound
the handlers. `Post` builds `result_ids` as the browser does, lets `update_multiple` act on them and renders a new page.

## 3. Runs

| Run | Instance | Shows |
|---|---|---|
| `task_runner` | 2 tasks in 2 groups, one on a custom queue that may have no process; any number of failures (218k states) | `GroupBarrier`, `AccountedFor`, `NothingForgotten`, `AtMostOnce`, the refinement `GroupsInOrder`, and `RunEnds` under fairness |
| `async_sidekiq` | 2 results in 2 slices (61k) | `OptionsOutliveWorkers`, `SavedIsReported`, `NoneSkippedSilently`, `ParentEnds` under fairness |
| `async_sidekiq_errors` | same | *violation*: workers' errors never reach the task (4.1) |
| `task_schedule` | 2 tasks; a request that may do everything, a job or boot that overlaps (532k) | `InSync`, `RepairedByRebuild` |
| `vulnerabilities` | one actor on 2 issues and 2 tasks; and a job and a request that overlap on stale and cached copies of one issue; 2 entries, all traits (855k, up to symmetry) | `CountsMatch` and `OneEntryPerFinding` in what is stored, whoever wrote last; `DecisionsStand`, `ScanIsMirrored`, `TallyIsTrue` |
| `sidekiq_pool` | 2 runs, 3 tasks, 3 parts, 4 threads, limits 2 and 1 (3k) | `NeverStuck`, `RunsEnd` under fairness |
| `task_run` | 2 threads, 2 tasks, 6 jobs of all kinds, exceptions, a provider that lacks a setting (2760k) | `ForeignExplained`, `OwnSavesRecorded` |
| `result_import` | 3 loops, 2 tasks that share a tag, valid and invalid URLs, deletions (1491k) | `ImportedIsThere`, `OrphansExplained`, `TaggedOnceUnlessRaced` |
| `async_threads` | 3 results, 3 threads, 2 connections, 1 retry, finds, broadcasts and reports that raise (1058k) | `EachOnce`, `LeftOnlyIfAllDied`, `SavedIsTracked`, `RunEnds` under fairness |
| `metadata_paths` | 6 trees, with texts, numbers, booleans and lists among the elements of lists; two requests, paths of up to three keys of every kind (14k) | `NothingElseChanges`, `ReadBack` |
| `results_page` | 3 results, 2 on a page, handlers bound up to twice, 2 posted forms (187k, up to symmetry) | `HeadersTellTruth`, `PostIsWhatPageSays`, `TagsOnceFromFreshPage` |
| `screenshots` | 2 results, 1 or 2 threads, a run performed twice, 1 retry of a call and 1 of a job, up to 3 captures, stopped processes and jobs that raise (587k) | `OneAtATime`, `NoneForgotten`, `CapturesAreFew`, `OneStatusTag`, `TagIsStatusCode`, and `RunEnds` under fairness |

**Bounds, and why they are enough.** Two groups are enough for the barrier, since it relates a task to one of a
smaller group (and it is proved for all groups). Two slices of one result are enough for a push that fails after
another one. In the pool the concurrency exceeds the limits by one, which is the least the
argument needs; the theorem covers every other size. `MaxFound` bounds the ids of
vulnerabilities (two entries make a duplicate or two tasks'), the setting's `reports` a scan's list,
`MaxLength` and `MaxIds` a loop's list and the rows made; three loops, two of them of one task, give every
pair that can race, with a third to come in between. `MaxRetries` replaces the code's number of attempts to
get a connection; `MaxRequests` the number of requests on one result, of which the second meets what the first has made.
In `TaskRun` a job saves a result once. `JobRetries` is 25 in the code and 1 in the run, where a job raises before and after its last attempt, and `Retries` is 3 and 1; the theorems are for any number.
`Vulnerabilities` and `Screenshots` choose one of several instances in their first state (`Settings`, `Bounds`), each with the bounds that one kind of interleaving needs: a single large instance
would multiply them. In `Screenshots` these are a run that raises while its first execution's jobs go on, a job answered late more often than it retries,
a job that raises as often as Sidekiq performs it, two callbacks of two results, and a run beside a request for the same result, so that two callbacks and a stale write meet. On the page two results of
three are shown, so that the page and the query differ; two posts show what a page leaves to the next one; `MaxBound` and `MaxCopies` are two, the least that post an id twice.

**Deadlock.** `CHECK_DEADLOCK FALSE` stands where the modelled run really ends (runner, parent, threads, loops,
jobs of a pool, bounded requests, screenshots). `TaskSchedule`, `Vulnerabilities` and `ResultsPage` go on for ever, and TLC looks for deadlocks there.

**Fairness.** *TaskRunner, AsyncSidekiq*: weak fairness for the waiting loop, whose thread is scheduled; for a
worker that runs (its `perform` returns); and for the lapse of a status key that no job
refreshes, which Redis does after a day. None for fetching (a custom queue may have no process) or for failures.
*SidekiqPool*: for fetching, pushing and finishing; not for submitting. *AsyncThreads*: for each thread and for the
join. *Screenshots*: for the run's thread, for a free thread that fetches, for a call to Sketchy (it has a read timeout, and its retries are
counted) and for keys that lapse; not for Sketchy's callbacks, nor for retries by Sidekiq, of the run or of a job (`failed` counts as done, so the run does not wait for them). `RunEnds` does not need
the fetch: with one thread the run polls a job that no thread can take, until its key lapses. `TaskSchedule`, `Vulnerabilities`, `TaskRun`, `ResultImport`,
`MetadataPaths` and `ResultsPage` state safety only.

## 4. Where the code disagrees with what it says

### 4.1 Shown by a run

* `async_sidekiq_errors`: a worker records its errors under `<jid>:events:Error`, the parent reads
  `<jid>:events:errors` (`async_sidekiq.rb:316`, `:118`). The errors of such tasks never get into the task's metadata.

### 4.2 Seen while modelling, and allowed for in the properties

* A job that loaded its task before people unscheduled it saves it at its end and, by
  `update_schedule`'s stale copy, schedules it again. `InSync` therefore speaks of operations that did not overlap.
  What overlapping ones do to the schedule no property forbids; `RepairedByRebuild` says that a later rebuild that runs alone repairs it.
* A callback task can be given a schedule by the bulk action (`tasks_controller.rb:346`), although its form says it cannot run on one.
* A run that an exception ends in the loop of `task.rb:304` leaves its notes to the next job on the thread;
  a worker leaves its parent's `sidekiq_job_id` (`async_sidekiq.rb:265` is commented out). `ForeignExplained` names both.
* "Each time the task runs, all result data is moved into the previous results key" (`provider.rb:50`), but a provider that lacks a required setting raises at `provider.rb:34`, before it moves anything. On a thread
  without notes the saves of the last run stay in the list as if they were this run's; on one whose notes are empty the list is emptied and does not get into the previous key. `OwnSavesRecorded` names such jobs (`Refused`).
* The options of `base.rb:45` and `:51` move tasks and parts into other queues, and their texts name other defaults than the classes.
  With tasks in `async_worker`, or parts in `worker`, the limits no longer keep the pool alive: `DefaultQueues` is an
  assumption of the theorems, and the run uses those queues.
* A result that is not found, or a broadcast or report that raises, ends the thread of `Async` that popped it (`async.rb:104`, `:107`, `:131`); when all have died, the rest of the queue stays (`LeftOnlyIfAllDied`).
* A missing key that begins with a colon becomes an empty hash, whatever value was asked for (`result.rb:564`); `ReadBack` leaves such keys out.
* Where a path expects a hash and meets a text, the last key is replaced inside the text and the result is saved (`result.rb:654`): `NothingElseChanges` names it. A where-key over a list of which one element is a number or a list
  selects nothing, although others fit (`result.rb:583`, rescued at `:611`).
* The links of a result stay when it is deleted (`result.rb:19` has no `dependent`); `OrphansExplained` tells these from what a loop hangs on a deleted result.
* A vulnerability appended on a result's page is not counted until the next recount (`appended`).
* The later of two overlapping writers of the metadata column overwrites the earlier one's changes. No property says otherwise:
  `DecisionsStand`, `ScanIsMirrored` and `TallyIsTrue` speak of a writer whose copy is not outdated.
* Two loops (or a loop and a request) that tag a result at the same time both find that it lacks the tag, and no index refuses the second
  tagging, although "tagging will be invalid if the result is already tagged with the given id" (`result.rb:84`). `TaggedOnceUnlessRaced` names that race; it is the only one.
* "Delete Results" appends its copies of the check boxes before it asks (`application.js:656`): the handler is bound to the button, the one that asks to the
  document. After a dismissed confirmation the copies stay, checked, and whatever is posted next from the page names those results too, although their boxes are
  no longer checked. `PostIsWhatPageSays` excludes it; `OnlyOnceSelected` bounds it.
* A click on "Select all" while it slides up shows the query's header beside unchecked boxes (`application.js:614`); `late` marks it.
* Copies, and handlers that `ready()` bound once more (`render_metadata_partial.js.erb:21`), post an id twice. `TasksController` drops such duplicates
  (`tasks_controller.rb:269`), `ResultsController` does not, and the result is tagged twice: the ids posted are strings and those of the taggings are
  integers, so `tagging_ids.include?(r)` (`results_controller.rb:546`) removes none, and the validations of one import all run before its insert.
* The query of a selected search runs again when the form is posted: results that arrived meanwhile are deleted with the others. `Said` counts them as selected.
* Two callbacks for one result at the same time leave it two Status tags (`results_controller.rb:701`); of these a later callback removes only the first.
  A job that Sketchy answers after its callback writes the metadata it loaded before, without the status code (`result.rb:236`).
* The run of screenshots counts `:complete`, `:failed` and no key, but not `:interrupted` (`screenshot_sync_task_runner.rb:52`): it polls an interrupted job for a day.
* A screenshot job that failed is counted and the next one pushed, while Sidekiq will still perform the failed one again: two jobs are at work then, and the run may be done before the first. `OneAtATime` and `NoneForgotten` name it (`CountedEarly`).
  The job begins again with its first attempt, so that it may cost as many captures once more (`CapturesAreFew`).

## 5. Proofs

TLAPS checks every theorem for all values of the constants that satisfy the named assumptions.

**TaskRunner_proofs** (assumption: finitely many tasks with natural group numbers). `GroupBarrier` is not inductive: that
a job is over because the runner no longer waits for it needs that the status key tells the truth as long as it has not
lapsed (`StatusTellsTruth`), that each place in `perform` leaves certain sets empty (`Stage`), that the tasks pushed or waited for
are of one group, below all that are left (`OneGroupAtATime`, `PushedInOrder`), and that no task falls between the sets
(`Covered`). `RunsMatchJob` gives `AtMostOnce`, `CompleteExplained` the second half of `NothingForgotten`. The conjunction `IInv` is shown invariant, one lemma per conjunct and one
step per action; the theorems follow. `ImplementsGroups` shows that every step is a step of `OrderedGroups` or
stutters. `AllAccountedFor` adds up cardinalities, from the theorems on finite sets.

**AsyncSidekiq_proofs** (finitely many results, a slice of at least one). `IInv` says that the join is sound (`JoinSound`: a tracked job
not waited for is over or lapsed), that the options are there from the first push (`OptionsKept`), that saves stay in Redis until they were read
(`SavedKept`), and which results have been pushed (`PushedSoFar`). From it follow the safety properties of the run and `ResultsCleanedUp`: when
the parent is done, Redis keeps no result of a job it had not lost sight of.

**TaskSchedule_proofs** (any tasks and actors). `InSync` speaks of states in which nobody is at work, and says nothing of the steps in between. The inductive invariant
follows an operation that is alone: `AloneMeans` ties the history to the operations under way, `Rebuilding` says that what is in the schedule and what is still to be added
are the tasks the rebuild queried, `Saving` that only the entry of the saved task may disagree with the table, in the way its stage and its copy of the row tell.
`RebuildRepairs` is the last step of `Rebuilding`.

**TaskRun_proofs** (each part belongs to an AsyncSidekiq run of its task; any jobs may lack a setting). A job is on one thread at most (`PlacesOK`), no part is at work once its run left the
loop (`PartsOK`), the notes in the locals are the saves of the run on the thread (`SavesOK`, `Clean`), those of its parts are in Redis or in its copy of the
metadata (`Gathered`); so what reaches a list was saved by the task, or by a screenshot job (`Goods`). The last three hold until a run escapes, which is the exception that
`ForeignExplained` and `OwnSavesRecorded` name.

**ResultImport_proofs** (any loops, tasks, tags and URLs). The unique indexes give `OneRow` and `OneLink`; a loop between two statements knows its row
unless that was refused, or deleted while it was at it (`IdsKnown`, `WorksOnRow`), and the tags it has dealt with are there (`TagsBehind`); `AllComplete` carries this over to what it left behind.
`OneInserter` says that of the loops about to insert one tag all but the first are in `raced`.

**ThreadPools_proofs**, two modules whose threads share a pool. *SidekiqPool* (`DefaultQueues`, and a concurrency above the sum of the limits): the inductive part
is that no queue runs more jobs than its limit. Runners and workers together then leave a thread (`AThreadIsLeft`), and since parts wait for nothing, a case distinction
over the levels finds a job that can go on (`NobodyIsStuck`). *AsyncThreads* (finitely many results, at least one thread): `EachOnce` needs that a result is in one place: in the
queue, or in one thread's hands, or worked on (`InOnePlace`). The other two follow from what a thread knows when it ended and what the join waited for.

**ResultMetadata_proofs**, three modules that share a result's metadata column.
*Vulnerabilities* (any issues, tasks, actors, settings and reports). `CountsMatch` and `OneEntryPerFinding` speak of the row, but whoever writes it began with a copy, perhaps a stale or cached one; so
`VulnIInv` says of every copy that the row, the cache or an actor holds that it is `Sound`: its entries are `Orderly` (each with an id of its own out of those drawn, a status that is known, and one per task and issue) and
its counts are theirs, unless an entry was only appended. The action properties need what became of each entry while `update_vulnerabilities` went through the reports: `Traced` (what
was found is open or ignored, what was not is as before, the tally counts both) and `Answers` (what was found are the issues reported), shown report by report. That step
is an induction over the number of reports. The library's induction theorems have an operator as a parameter, so the module proves it for sets of numbers (`Induction`), from their
being well ordered; it also shows that the recursive functions of the model have values (`Stepwise`).
*Screenshots* (any results, executions, captures, retries and threads). `ShotIInv` says that a status key tells where its job is unless it lapsed, and that a job that awaits its retry has raised (`KeysTell`), that the run pushes from the last result to the
first and that each one pushed is waited for or settled (`PushedInTurn`), that an attempt is accepted at most once, however often the job raised before (`AcceptedOncePerAttempt`), and what a callback knows of the tags and the code while it is alone
with its result (`HandledAlone`, `TagsKnown`, `SavedCode`). The five safety properties follow.
*MetadataPaths* (any trees, paths, values and number of requests). A single `Put` in its place, below a hash or at the end of a list or where something is,
keeps a tree a tree (`PutKeeps`); the recursion over keys, the loop over alternatives and the selection of elements follow by induction over their lengths, again on sets of numbers, and give
the type invariant (`MetadataTyped`). For `RequestsStayOnTheirWay` each call says what it has done to the tree it was given: what changed lies where its keys lead, or was
missing on the way, or a text at its end (`Alters`); below a text nothing is in the tree (`Pieces`), and nothing changes there (`LeafOutcome`). The keys lead through the tree of the beginning, but a later alternative meets what an earlier one has left: that
a where-key still selects there what it selected at the beginning, unless what it looked at was itself on the way, is `WhereLeads`; that a list which grew meanwhile was grown
by the request itself is `Extends`.
`WhatIsSetIsRead` goes the other way, from what the keys name at the beginning to what is there and is read at the end. For keys that lead one level down, a call sets what is
named below it if it finds there what was there at the beginning (`SetsBelow`). The keys of a list or selection are tried one after the other, and in between each position is set
or untouched (`Halfway`); a later key undoes nothing, because all that is set lies equally deep (`Keeps`). That none of them raises, which would leave the row as it was, is where texts on the way matter (`NoTextThere`): `[]=` takes nothing but a text there. A value added to a list is followed along its names (`AddsBelow`),
where each missing key becomes a hash and the last one a list (`Become`). What names name is read if it is there (`NamedIsRead`), since a list contains only its elements (`OnlyElements`).

**ResultsPage_proofs** (finitely many results, any size of a page). Each handler keeps headers and panel in step only with three facts about the form: copies come from dismissed
confirmations (`NoCopies`), what is checked or copied was checked on this page (`OnlyEverChecked`), and while the query is selected the whole page is (`QueryOnWholePage`).
The properties of a posted form are then action properties of one step.

**Only model-checked:** liveness (`RunEnds` of three modules, `ParentEnds`, `RunsEnd`), which rests on fairness. Every safety property that a passing run checks has a theorem. The invariants of the proofs were checked by TLC on the instances of the
runs before they were proved.

## 6. Not modelled

Bulk add, flags and statuses, email summaries, GitHub paging, the curl analyzer's request loop and moving vulnerabilities are planned
(section 7). Search and saved filters build SQL: what they promise is a query's meaning. The static analyzers and providers call
programs and services and translate what they return; what becomes of it is `Vulnerabilities` and `ResultImport`.
Events, users, abilities, views and configuration have no behaviour over time. Within modelled components the trends,
progress display, site map and the texts of events are left out. In `Screenshots` the metadata column has no writers but Sketchy's answers and callbacks,
and a save in a callback does not return false; what other writers do to the column is `Vulnerabilities`.

Most of the repository's JavaScript is other people's: `d3.js`, `nvd3`, `jquery_sparklines.js`, `jquery.datetimepicker.js`, `foundation_datepicker.js` and `sonic.js` are vendored
and are used as they come; they are not modelled. The program's own script is `application.js` (793 lines). Of it `ResultsPage` has the handlers that select results
and post what is selected. The buttons of `application.js:663-686` append copies of the boxes to their forms as `update_multiple_button` does, and `updateable-update` (`:380-404`) posts the ids
of the vulnerabilities shown as one path of keys, which `MetadataPaths` covers from there on. The filter lists (`:347-378`) belong to no view. The rest (the notification poller,
tooltips, the preloader, select boxes, split buttons, the format check of ticket numbers) presents what the server sends or checks what a form says, and keeps no state that a later step reads.

## 7. Plan

Done, in this order because waiting, bookkeeping and the shared column carry the rest: `TaskRunner`, `AsyncSidekiq`, `TaskSchedule`,
`Vulnerabilities`, `SidekiqPool`, `TaskRun`, `ResultImport`, `AsyncThreads`, `MetadataPaths`, then `Screenshots` and `ResultsPage`, and the theorems of
`TaskSchedule`, `TaskRun`, `ResultImport`, `AsyncThreads`, `ResultsPage`, `Vulnerabilities`, `Screenshots` and `MetadataPaths`.

Next:

1. Moving vulnerabilities between two results, with a crash between its two saves (`move_vulnerability_task.rb:86`): a second row in `Vulnerabilities`; deleting old events.
2. `Summaries`: the windows of the email task, a row before a mail, what a crash or failed mail leaves out.
3. Bulk add, flags and stages, default status (`results_controller.rb:354-453, 719-785`, `status.rb`).
4. `Paging`: GitHub sync and analyzers, rate limits and retries; the event analyzer; the curl analyzer's redirects.
5. An abstract "finding" (reported, open, closed, decided) that `Vulnerabilities` implements, and an abstract fan-out/join that `AsyncSidekiq` implements.

The suite is kept small: one run per question, and the later modules take over the runs of questions they subsume.
