--------------------------- MODULE Vulnerabilities ---------------------------
(***************************************************************************)
(* The vulnerabilities in the metadata column of one result, and the       *)
(* counts stored beside them (lib/helpers/vulnerability_helpers.rb).       *)
(* Scans, analyzers, the cleaner and the requests of ResultsController     *)
(* each load the row, change their copy and write the whole column back;   *)
(* nothing locks the row in between.  create_vulnerability loads through   *)
(* the cache of Result.cached_find.                                        *)
(*                                                                         *)
(* An issue is what find_duplicate_vulnerability tells apart.  "ignored"   *)
(* stands for the closed statuses ignored, false positive and risk         *)
(* accepted; "other" for any string that is no status.  A finding is minor *)
(* when its severity is informational.                                     *)
(***************************************************************************)
EXTENDS Naturals, FiniteSetsExt, SequencesExt

CONSTANTS Issues, Tasks,
          NoTask,     \* the task_id of what people enter
          Actors,     \* jobs and requests
          MaxFound,   \* bounds the findings that are ever made
          Settings    \* who makes which kinds of change, and over what: the
                      \* issues and tasks there are, what findings may have, and
                      \* how many of them a scan reports at most

Open   == {"new", "ticketed", "awaiting"}
Closed == {"ignored", "remediated"}
Status == Open \cup Closed \cup {"other"}
Kinds  == {"scan", "analyze", "create", "edit", "append", "clean"}

AnyTraits == [ticket : BOOLEAN, minor : BOOLEAN]

ASSUME VulnerabilitiesAssumption ==
  /\ NoTask \notin Tasks
  /\ Settings \subseteq [may : [Actors -> SUBSET Kinds], issues : SUBSET Issues,
                         tasks : SUBSET Tasks, traits : SUBSET AnyTraits, reports : Nat]
  /\ MaxFound \in Nat

Reports == [s \in Settings |-> {[issue |-> x, ticket |-> t.ticket, minor |-> t.minor] :
                                   x \in s.issues, t \in s.traits}]
ReportLists == [s \in Settings |-> SeqOf(Reports[s], s.reports)]

VARIABLES
  setting, \* one of the Settings
  row,     \* the column: the vulnerabilities [id, issue, task, status, ticket,
           \* minor], their counts, whether it has a list of them, and whether
           \* people appended since the last recount (history)
  cache,   \* the cached row, or NotCached
  op,      \* what each actor is doing, and the copy it loaded
  made,    \* the number of ids drawn
  last     \* the last write: its kind, task, reports and tally (history)

vars == <<setting, row, cache, op, made, last>>

IsOpen(e) == e.status \in Open /\ ~e.minor
\* vulnerability_count, by state and by task, of the entries vs.
Counts(vs) ==
  LET Number(P(_)) == Cardinality({i \in DOMAIN vs : P(vs[i])}) IN
  [open   |-> Number(IsOpen),
   closed |-> Number(LAMBDA e : e.status \in Closed),
   task   |-> [t \in Tasks |-> Number(LAMBDA e : IsOpen(e) /\ e.task = t)]]

NoTally == [new |-> 0, existing |-> 0, regression |-> 0, closed |-> 0]
Quiet   == [kind |-> "none", task |-> NoTask, issues |-> {}, tally |-> NoTally]
NotCached == [vulns |-> <<>>, listed |-> FALSE]
Idle    == [stage |-> "idle"]
Empty   == [vulns |-> <<>>, listed |-> FALSE, counts |-> Counts(<<>>),
            appended |-> FALSE]

Init ==
  /\ setting \in Settings
  /\ row = Empty
  /\ cache = NotCached
  /\ op = [a \in Actors |-> Idle]
  /\ made = 0
  /\ last = Quiet

-----------------------------------------------------------------------------
(* vulnerability_helpers.rb                                                *)

\* A status that is not known becomes new, or ticketed.
Normal(e) ==
  LET s == IF e.status \in Open \cup Closed THEN e.status ELSE "new" IN
  [e EXCEPT !.status = IF e.ticket /\ s \in Open THEN "ticketed" ELSE s]

\* Mutant: any closed status is reopened.
ReopenedAlways(e, ticket) == IF ticket THEN "ticketed" ELSE "new"
\* An entry that is found again, with the tickets of both.
Reopened(e, ticket) ==
  IF e.status \in Closed \ {"remediated"} THEN e.status
  ELSE IF ticket THEN "ticketed" ELSE "new"

\* Mutant: only open entries are looked at.
DuplicatesOpen(vs, v, task, isolate) ==
  {i \in DOMAIN vs : vs[i].issue = v.issue /\ vs[i].status \in Open
                      /\ (isolate => vs[i].task = task)}
\* Mutant: another task's entry counts as the same although it must not.
DuplicatesOfAny(vs, v, task, isolate) ==
  {i \in DOMAIN vs : vs[i].issue = v.issue}
Duplicates(vs, v, task, isolate) ==
  {i \in DOMAIN vs : vs[i].issue = v.issue /\ (isolate => vs[i].task = task)}

\* Mutant: every entry found again is counted as existing.
TalliedAsExisting(e) == "existing"
Tallied(e) == IF e.status = "remediated" THEN "regression" ELSE "existing"

\* One reported vulnerability: the first duplicate is updated, or there is a
\* new entry.  w holds the entries, the ids updated, the ids drawn, the tally.
Report(w, v, task, isolate) ==
  LET dups == Duplicates(w.vulns, v, task, isolate)
      i == Min(dups)
      e == w.vulns[i]
      t == e.ticket \/ v.ticket
      fresh == [id |-> w.made + 1, issue |-> v.issue, task |-> task,
                status |-> "new", ticket |-> v.ticket, minor |-> v.minor]
  IN IF dups = {}
       THEN [w EXCEPT !.vulns = Append(@, fresh), !.made = @ + 1,
                      !.ids = @ \cup {fresh.id}, !.tally.new = @ + 1]
       ELSE [w EXCEPT !.vulns[i].ticket = t, !.vulns[i].status = Reopened(e, t),
                      !.ids = @ \cup {e.id}, !.tally[Tallied(e)] = @ + 1]

\* update_vulnerabilities without its recount and save: the statuses are put in
\* order, then the reports are taken one after the other.
Begun(m) ==
  [vulns |-> [i \in DOMAIN m.vulns |-> Normal(m.vulns[i])],
   made |-> made, ids |-> {}, tally |-> NoTally]
Update(m, reports, task, isolate) ==
  LET after[n \in 0..Len(reports)] ==
        IF n = 0 THEN Begun(m) ELSE Report(after[n - 1], reports[n], task, isolate)
  IN after[Len(reports)]

\* update_vulnerability_counts.
Recount(m, vs) ==
  [m EXCEPT !.vulns = vs, !.listed = TRUE, !.counts = Counts(vs),
            !.appended = FALSE]

\* Which entries add_scan_vulnerabilities remediates.
Gone(e, task, ids) == IsOpen(e) /\ e.task = task /\ e.id \notin ids

\* add_scan_vulnerabilities, with auto_remediate and isolate_vulnerabilities.
Scanned(w, task) ==
  [i \in DOMAIN w.vulns |->
     IF Gone(w.vulns[i], task, w.ids)
       THEN [w.vulns[i] EXCEPT !.status = "remediated"] ELSE w.vulns[i]]
ClosedBy(w, task) == Cardinality({i \in DOMAIN w.vulns : Gone(w.vulns[i], task, w.ids)})

\* Mutant: only the number of entries is compared.
ChangedInNumber(base, m) == Len(base.vulns) # Len(m.vulns)
Changed(base, m) == Range(base.vulns) \ Range(m.vulns) # {}

\* The before_save callback vulnerability_counter: it recounts when an entry
\* of the loaded copy is gone or changed, not when entries were only added.
BeforeSave(base, m) ==
  IF base.listed /\ Changed(base, m)
    THEN Recount(m, [i \in DOMAIN m.vulns |-> Normal(m.vulns[i])])
    ELSE m

-----------------------------------------------------------------------------
Busy(a) == op[a].stage # "idle"
At(a, s) == op[a].stage = s

\* Result.find.
Load(a) ==
  /\ ~Busy(a) /\ setting.may[a] \ {"create"} # {}
  /\ op' = [op EXCEPT ![a] = [stage |-> "loaded", base |-> row, cached |-> FALSE]]
  /\ UNCHANGED <<setting, row, cache, made, last>>

\* Result.cached_find: a hit, or a miss that reads the row and fills the cache
\* in a second step.
CachedFind(a) ==
  /\ ~Busy(a) /\ "create" \in setting.may[a]
  /\ op' = [op EXCEPT ![a] =
       IF cache = NotCached
         THEN [stage |-> "filling", base |-> row, cached |-> TRUE]
         ELSE [stage |-> "loaded", base |-> cache, cached |-> TRUE]]
  /\ UNCHANGED <<setting, row, cache, made, last>>

FillCache(a) ==
  /\ At(a, "filling")
  /\ cache' = op[a].base
  /\ op' = [op EXCEPT ![a].stage = "loaded"]
  /\ UNCHANGED <<setting, row, made, last>>

\* save: the callback, the UPDATE and the COMMIT.  A copy that did not change
\* is not written; after_commit runs all the same.
Write(a, m, w) ==
  /\ row' = IF m = op[a].base THEN row ELSE BeforeSave(op[a].base, m)
  /\ last' = w      \* until the flush
  /\ op' = [op EXCEPT ![a] = [stage |-> "committed"]]
  /\ UNCHANGED <<setting, cache>>

Loaded(a, k) == At(a, "loaded") /\ k \in setting.may[a] /\ op[a].cached = (k = "create")

\* The analyzers (curl) that end in add_scan_vulnerabilities.
Scan(a) ==
  \E task \in setting.tasks, reports \in ReportLists[setting] :
    LET w == Update(op[a].base, reports, task, TRUE) IN
    /\ Loaded(a, "scan")
    /\ w.made <= MaxFound
    /\ made' = w.made
    /\ Write(a, Recount(op[a].base, Scanned(w, task)),
             [kind |-> "scan", task |-> task, issues |-> {v.issue : v \in Range(reports)},
              tally |-> [w.tally EXCEPT !.closed = ClosedBy(w, task)]])

\* The analyzers that end in update_vulnerabilities.
Analyze(a) ==
  \E task \in setting.tasks, reports \in ReportLists[setting] :
    LET w == Update(op[a].base, reports, task, FALSE) IN
    /\ Loaded(a, "analyze")
    /\ w.made <= MaxFound
    /\ made' = w.made
    /\ Write(a, Recount(op[a].base, w.vulns),
             [kind |-> "analyze", task |-> task,
              issues |-> {v.issue : v \in Range(reports)}, tally |-> w.tally])

\* create_vulnerability.
Create(a) ==
  \E v \in Reports[setting] :
    LET w == Update(op[a].base, <<v>>, NoTask, FALSE) IN
    /\ Loaded(a, "create")
    /\ w.made <= MaxFound
    /\ made' = w.made
    /\ Write(a, Recount(op[a].base, w.vulns),
             [kind |-> "create", task |-> NoTask, issues |-> {v.issue}, tally |-> w.tally])

\* update_metadata of one entry's status, severity or tickets.
Edit(a) ==
  LET m == op[a].base IN
  /\ Loaded(a, "edit")
  /\ \E i \in DOMAIN m.vulns :
       \/ \E s \in Status :
            Write(a, [m EXCEPT !.vulns[i].status = s], [Quiet EXCEPT !.kind = "edit"])
       \/ \E t \in setting.traits :
            Write(a, [m EXCEPT !.vulns[i].minor = t.minor, !.vulns[i].ticket = t.ticket],
                  [Quiet EXCEPT !.kind = "edit"])
  /\ UNCHANGED made

\* update_metadata of "vulnerabilities.[]": one entry more, and no recount.
AppendFinding(a) ==
  LET m == op[a].base IN
  /\ Loaded(a, "append")
  /\ made < MaxFound
  /\ made' = made + 1
  /\ \E v \in Reports[setting] :
       Write(a, [m EXCEPT !.listed = TRUE, !.appended = TRUE,
                   !.vulns = Append(@, [id |-> made + 1, issue |-> v.issue,
                      task |-> NoTask, status |-> "new",
                      ticket |-> v.ticket, minor |-> v.minor])],
             [Quiet EXCEPT !.kind = "append"])

\* The entries of other tasks, in their order.
Without(vs, task) ==
  LET kept[n \in 0..Len(vs)] ==
        IF n = 0 THEN <<>>
        ELSE IF vs[n].task = task THEN kept[n - 1] ELSE Append(kept[n - 1], vs[n])
  IN kept[Len(vs)]

\* VulnerabilityCleanerWorker, by task: it deletes, recounts and saves.
Clean(a) ==
  LET m == op[a].base IN
  /\ Loaded(a, "clean")
  /\ m.vulns # <<>>
  /\ \E task \in setting.tasks :
       Write(a, Recount(m, Without(m.vulns, task)),
             [Quiet EXCEPT !.kind = "clean"])
  /\ UNCHANGED made

Flushed == NotCached

\* after_commit: flush_cache.
Flush(a) ==
  /\ At(a, "committed")
  /\ cache' = Flushed
  /\ op' = [op EXCEPT ![a] = Idle]
  /\ last' = Quiet
  /\ UNCHANGED <<setting, row, made>>

\* The request or job ends without a save: an exception, or nothing to do.
Abandon(a) ==
  /\ At(a, "loaded")
  /\ op' = [op EXCEPT ![a] = Idle]
  /\ UNCHANGED <<setting, row, cache, made, last>>

Step(a) ==
  \/ Load(a) \/ CachedFind(a) \/ FillCache(a) \/ Scan(a) \/ Analyze(a) \/ Create(a)
  \/ Edit(a) \/ AppendFinding(a) \/ Clean(a) \/ Flush(a) \/ Abandon(a)

Next == \E a \in Actors : Step(a)

Spec == Init /\ [][Next]_vars

-----------------------------------------------------------------------------
\* The counts that searches and pages read are those of the entries in the
\* same column, whoever wrote last and whatever stale copy it began with
\* (vulnerability_counter), and every status is one they know, although people
\* may set any string (vulnerability_helpers.rb:150).  Only a finding appended on
\* the result's page (key "vulnerabilities.[]") is not counted, until the next
\* recount.
CountsMatch ==
  /\ row.appended \/ row.counts = Counts(row.vulns)
  /\ \A e \in Range(row.vulns) : e.status # "other"

\* A task has one entry for an issue, however often and with whatever copies
\* it and other tasks report the issue (find_duplicate_vulnerability).
OneEntryPerFinding ==
  \A i, j \in DOMAIN row.vulns :
    /\ row.vulns[i].issue = row.vulns[j].issue
    /\ row.vulns[i].task = row.vulns[j].task
    /\ row.vulns[i].task \in Tasks
    => i = j

Entry(r, id) == CHOOSE e \in Range(r.vulns) : e.id = id
Ids(r) == {e.id : e \in Range(r.vulns)}
\* The actor a writes, and its copy of the column is not outdated: it would
\* be if another actor wrote since a loaded it.
Writes(a) == At(a, "loaded") /\ op'[a].stage = "committed"
Reporting(a, kinds) == Writes(a) /\ op[a].base = row /\ last'.kind \in kinds
Reported == {"scan", "analyze", "create"}

\* What a person has set to ignored, false positive or risk accepted, no scan
\* touches again ("For any closed statuses except remediated we'll do
\* nothing", vulnerability_helpers.rb:220).
DecisionsStand ==
  [][\A a \in Actors : Reporting(a, Reported) =>
       \A id \in Ids(row) : Entry(row, id).status = "ignored" =>
         id \in Ids(row') /\ Entry(row', id).status = "ignored"]_vars

\* After a scan every issue it reported has an entry of that task that is
\* open, unless a person closed it; and no other open finding of that task is
\* left, unless it is informational.
ScanIsMirrored ==
  [][\A a \in Actors : Reporting(a, {"scan"}) =>
       LET mine == {e \in Range(row'.vulns) : e.task = last'.task} IN
       /\ \A x \in last'.issues :
            \E e \in mine : e.issue = x /\ e.status \in Open \cup {"ignored"}
       /\ \A e \in mine : IsOpen(e) => e.issue \in last'.issues]_vars

\* The tally that goes into scan_metadata and the trends tells what happened
\* to the column: entries added, remediated entries reopened, and open ones
\* remediated.
TallyIsTrue ==
  [][\A a \in Actors : Reporting(a, Reported) =>
       LET turned(S, T) == {id \in Ids(row) : Entry(row, id).status \in S
                                             /\ Entry(row', id).status \in T} IN
       /\ last'.tally.new = Len(row'.vulns) - Len(row.vulns)
       /\ last'.tally.regression = Cardinality(turned({"remediated"}, Open))
       /\ last'.tally.closed = Cardinality(turned(Open, {"remediated"}))]_vars
=============================================================================
