------------------------ MODULE ResultMetadata_proofs ------------------------
(***************************************************************************)
(* Theorems about what is stored in the metadata of a result: the status   *)
(* code and the tag that the callbacks of Sketchy write (Screenshots), the *)
(* vulnerabilities and their counts (Vulnerabilities), and the tree that   *)
(* requests change by a path of keys (MetadataPaths).                      *)
(*                                                                         *)
(* Screenshots, for any number of results, executions of the run,          *)
(* captures, retries and threads.  Its inductive invariant has a part for  *)
(* each property and what a step of it needs: a run that waits for a job   *)
(* has pushed the ones before and nothing else (PushedInTurn), for which   *)
(* the status keys must be true (KeysTell); an attempt is accepted once,   *)
(* and the last one not before it is made (AcceptedOncePerAttempt); a      *)
(* callback that is alone with its result knows the tags it has looked at, *)
(* and the code it saved (TagInv).                                         *)
(*                                                                         *)
(* Vulnerabilities, for any issues, tasks, actors and reports of any       *)
(* length.  CountsMatch is not inductive, because the actors write copies  *)
(* that they loaded long before, or found in the cache: every copy must be *)
(* Sound, whoever holds it.  What update_vulnerabilities makes of a copy   *)
(* is shown report by report: an induction over numbers, which here is one *)
(* over a set of them (Induction), because numbers are well ordered.  The  *)
(* action properties follow from what is true after n reports: Traced says *)
(* what became of each entry that there was, and of the tally, Answers     *)
(* which entries the reports are about.                                    *)
(*                                                                         *)
(* MetadataPaths, for any trees, paths and values.  A Put in its place     *)
(* keeps a tree a tree (PutKeeps), and what is made of Puts key by key,    *)
(* alternative by alternative, does so by induction (KeyByKey, OneByOne).  *)
(* What a call changes is where its keys lead (Alters).  They are followed *)
(* in the tree of the beginning, whereas the call meets what the ones      *)
(* before it have left: a where-key selects there what it selected at the  *)
(* beginning (WhereLeads), and a list has grown by what the request itself *)
(* added (Extends); a text changes as a whole (TextChanges), and what is   *)
(* read from one is outside the tree (Outside). That what is set is read   *)
(* back says, from the last key to the first, what a call sets if it finds *)
(* what was there at the beginning (SetsBelow, AddsBelow), and, from the   *)
(* first to the last, that the positions that are named are the ones that  *)
(* are read (NamedIsRead).                                                 *)
(***************************************************************************)
EXTENDS Screenshots, Vulnerabilities, MetadataPaths, FiniteSetTheorems, SequenceTheorems,
        WellFoundedInduction, TLAPS

-----------------------------------------------------------------------------
(* Screenshots: the inductive invariant.                                   *)

Run == [pc : {"queued", "running", "done", "cut"}, run : 1..MaxRuns,
        left : 0..Len(List), waiting : Jobs \cup {NoJob}]
JobState == [pc : {None, "queued", "send", "answer", "retry", "over", "cut"},
             raised : Nat, attempts : 0..Retries, loaded : Codes \cup {None}]
KeyStates == {None, "queued", "working", "complete", "failed", "nil", "interrupted"}
CaptureState == [pc : {None, "taken", "loaded", "saved", "untag", "tag", "over"},
                 of : Jobs \cup {NoJob}, code : Codes \cup {None}, old : Codes \cup {None}]

\* A capture is of a job from the moment that Sketchy accepted it, and a
\* callback knows the code from the moment that it is handled.
ShotTypes ==
  /\ bounds \in Bounds
  /\ sync \in Run /\ sync.left <= bounds.results
  /\ job \in [Jobs -> JobState] /\ status \in [Jobs -> KeyStates]
  /\ capture \in [Captures -> CaptureState]
  /\ \A c \in Captures : capture[c].pc = None <=> capture[c].of = NoJob
  /\ \A c \in Captures : Handled(c) => capture[c].code \in Codes
  /\ metadata \in [Results -> Codes \cup {None}] /\ tags \in [Results -> SUBSET Codes]
  /\ overlapped \subseteq disturbed

\* What the status key says of a job that waits or is at work.
KeyTells(j) ==
  /\ job[j].pc = None => status[j] = None
  /\ job[j].pc = "queued" => status[j] = "queued" \/ (status[j] = "nil" /\ j \in lapsed)
  /\ Running(j) => status[j] = "working"
  /\ job[j].pc = "retry" => job[j].raised > 0
KeysTell == \A j \in Jobs : KeyTells(j)

\* The run pushes its results from the last to the first, and each time the one
\* before is done, or counted early.  It waits for the last one.
Cur(i) == <<sync.run, i>>
Popped(i) == sync.left < i /\ i <= bounds.results
Settled(j) == job[j].pc \in {"over", "cut"} \/ CountedEarly(j)
PushedInTurn ==
  /\ \A j \in Jobs : sync.run < j[1] => job[j].pc = None
  /\ sync.pc = "queued" => sync.left = bounds.results /\ sync.waiting = NoJob
  /\ sync.pc = "done" => sync.left = 0 /\ sync.waiting = NoJob
  /\ \A i \in DOMAIN List : ~Popped(i) => job[Cur(i)].pc = None
  /\ \A i \in DOMAIN List : Popped(i) => sync.waiting = Cur(i) \/ Settled(Cur(i))
  /\ sync.waiting # NoJob => sync.left + 1 <= bounds.results /\ sync.waiting = Cur(sync.left + 1)

\* Each attempt of a job was accepted at most once, and the last one counts
\* from the moment that it was.
CapturesOf(j) == {c \in Captures : capture[c].of = j}
Allowed(n) == (Retries + 1) * n
AcceptedOnce(j) ==
  LET n == Cardinality(CapturesOf(j)) before == Allowed(job[j].raised) IN
  /\ job[j].pc \in {None, "queued", "retry"} => n <= before /\ job[j].attempts = 0
  /\ job[j].pc = "send" => n <= before + job[j].attempts
  /\ job[j].pc = "answer" => n <= before + job[j].attempts + 1
  /\ n <= Allowed(job[j].raised + 1)
AcceptedOncePerAttempt == \A j \in Jobs : AcceptedOnce(j)

\* Of a result that is not in overlapped, one callback at most is handled, and
\* it knows the tags.
HandledAlone ==
  \A c, d \in Captures :
    Handled(c) /\ Handled(d) /\ About(c) = About(d) /\ c # d => About(c) \in overlapped
KnowsTags(c) ==
  /\ Is(c, "untag") => tags[About(c)] = {capture[c].old}
  /\ Is(c, "tag") => tags[About(c)] = {}
TagsKnown == \A c \in Captures : Handled(c) /\ About(c) \notin overlapped => KnowsTags(c)
OneTag == \A r \in Results \ overlapped : \A t, u \in tags[r] : t = u

\* From the save on, what a callback is about to tag is what it saved.
Mirrored(r) == tags[r] = {metadata[r]} \ {None}
KnowsCode(c) ==
  IF Is(c, "loaded") THEN Mirrored(About(c)) ELSE metadata[About(c)] = capture[c].code
SavedCode == \A c \in Captures : Handled(c) /\ About(c) \notin disturbed => KnowsCode(c)

TagInv == HandledAlone /\ TagsKnown /\ OneTag /\ SavedCode /\ TagIsStatusCode

ShotIInv == ShotTypes /\ KeysTell /\ PushedInTurn /\ AcceptedOncePerAttempt /\ TagInv

\* The numbers among the constants.
LEMMA Numbers ==
  Retries \in Nat /\ JobRetries \in Nat /\ MaxRuns \in Nat /\ MaxCaptures \in Nat /\ "none" \notin Codes
BY ScreenshotsAssumption

\* What n performances may cost, and one more.
LEMMA AllowedFacts ==
  /\ Allowed(0) = 0
  /\ \A n \in Nat : Allowed(n) \in Nat /\ Allowed(n + 1) = Allowed(n) + Retries + 1
BY Numbers DEF Allowed

\* Jobs are pairs, and each is about a result.
LEMMA JobFacts ==
  /\ Len(List) \in Nat /\ DOMAIN List = 1..Len(List)
  /\ \A j \in Jobs : j = <<j[1], j[2]>> /\ j[1] \in 0..MaxRuns /\ j[2] \in DOMAIN List
                     /\ Of(j) \in Results /\ j # NoJob
  /\ \A n \in 1..MaxRuns, i \in DOMAIN List : <<n, i>> \in Jobs
  /\ Requested \subseteq Jobs
BY ScreenshotsAssumption DEF Jobs, Requested, Of, Results, NoJob

\* The instance keeps its bounds.
LEMMA BoundsFacts ==
  ASSUME ShotTypes
  PROVE  /\ bounds.results \in 0..Len(List) /\ bounds.runs \in 1..MaxRuns
         /\ bounds.requests \in 0..Len(List) /\ bounds.captures \in 0..MaxCaptures
BY ScreenshotsAssumption DEF ShotTypes

\* What a capture tells about, as long as it is one.
LEMMA AboutFacts ==
  ASSUME ShotTypes, NEW c \in Captures, capture[c].pc # None
  PROVE  capture[c].of \in Jobs /\ About(c) \in Results
BY JobFacts DEF ShotTypes, CaptureState, About, None

-----------------------------------------------------------------------------

\* At first nothing was started.
LEMMA ShotInitHolds == ShotInit => ShotIInv
<1> SUFFICES ASSUME ShotInit PROVE ShotIInv
  OBVIOUS
<1> USE DEF ShotInit
<1>0. bounds.results \in 0..Len(List) /\ bounds.runs \in 1..MaxRuns
  BY ScreenshotsAssumption
<1>1. ShotTypes
  <2>1. sync \in Run /\ sync.left <= bounds.results
    BY <1>0, Numbers, JobFacts DEF Run
  <2>2. job \in [Jobs -> JobState] /\ capture \in [Captures -> CaptureState]
    BY Numbers DEF JobState, CaptureState, None
  <2>3. status \in [Jobs -> KeyStates]
    BY DEF KeyStates
  <2> QED BY <2>1, <2>2, <2>3 DEF ShotTypes, Handled, None
<1>2. KeysTell
  BY DEF KeysTell, KeyTells, Running, None
<1>3. PushedInTurn
  <2>1. \A i \in DOMAIN List : Cur(i) \in Jobs
    <3>1. sync.run = 1 /\ 1 \in 1..MaxRuns
      BY <1>0, Numbers
    <3> QED BY <3>1, JobFacts DEF Cur
  <2>2. \A i \in DOMAIN List : ~Popped(i)
    BY <1>0, JobFacts DEF Popped
  <2> QED BY <1>0, <2>1, <2>2 DEF PushedInTurn
<1>4. AcceptedOncePerAttempt
  <2>1. \A j \in Jobs : CapturesOf(j) = {}
    BY JobFacts DEF CapturesOf
  <2>2. \A j \in Jobs : Cardinality(CapturesOf(j)) = 0
    BY <2>1, FS_EmptySet, Zenon
  <2>3. \A j \in Jobs : job[j].pc = "none" /\ job[j].raised = 0 /\ job[j].attempts = 0
    BY DEF None
  <2>4. Allowed(0) = 0 /\ Allowed(0 + 1) \in Nat
    BY AllowedFacts
  <2> QED BY <2>2, <2>3, <2>4 DEF AcceptedOncePerAttempt, AcceptedOnce, None
<1>5. TagInv
  BY DEF TagInv, HandledAlone, TagsKnown, OneTag, SavedCode, TagIsStatusCode, Handled, None
<1> QED BY <1>1, <1>2, <1>3, <1>4, <1>5 DEF ShotIInv

\* Every step keeps the types.
LEMMA ShotTypesStep ==
  ASSUME ShotTypes, [ShotNext]_shotVars
  PROVE  ShotTypes'
<1> USE DEF jobs, result, history
<1>a. bounds \in Bounds /\ sync \in Run /\ sync.left <= bounds.results
  BY DEF ShotTypes
<1>b. job \in [Jobs -> JobState] /\ \A i \in Jobs : job[i] \in JobState
  BY DEF ShotTypes
<1>s. status \in [Jobs -> KeyStates]
  BY DEF ShotTypes
<1>c. capture \in [Captures -> CaptureState] /\ \A c \in Captures : capture[c] \in CaptureState
  BY DEF ShotTypes
<1>d. metadata \in [Results -> Codes \cup {None}] /\ tags \in [Results -> SUBSET Codes]
  BY DEF ShotTypes
<1>1. CASE SyncStart \/ Push \/ Count \/ Finish \/ SyncRaises \/ SyncStops
  <2>1. sync' \in Run /\ sync'.left <= bounds.results
    <3>1. CASE SyncStart \/ Count \/ Finish \/ SyncStops
      BY <3>1, <1>a DEF Run, SyncStart, Count, Finish, SyncStops
    <3>2. CASE SyncRaises
      BY <3>2, <1>a, BoundsFacts, Numbers DEF Run, SyncRaises
    <3>3. CASE Push
      <4>1. sync.left - 1 \in 0..Len(List) /\ sync.left - 1 <= bounds.results
        BY <3>3, <1>a, BoundsFacts, JobFacts DEF Push, Run
      <4>2. <<sync.run, sync.left>> \in Jobs
        BY <3>3, <1>a, JobFacts DEF Push, Run
      <4> QED BY <3>3, <1>a, <4>1, <4>2 DEF Push, Run
    <3> QED BY <1>1, <3>1, <3>2, <3>3
  <2>2. job' \in [Jobs -> JobState]
    BY <1>1, <1>b, SMTT(30) DEF SyncStart, Push, Count, Finish, SyncRaises, SyncStops, Enqueue, JobState
  <2>4. status' \in [Jobs -> KeyStates]
    BY <1>1, <1>s DEF SyncStart, Push, Count, Finish, SyncRaises, SyncStops, Enqueue, KeyStates
  <2>3. UNCHANGED <<bounds, capture, metadata, tags, overlapped, disturbed>>
    BY <1>1 DEF SyncStart, Push, Count, Finish, SyncRaises, SyncStops
  <2> QED BY <2>1, <2>2, <2>3, <2>4 DEF ShotTypes, Handled
<1>3. ASSUME NEW j \in Jobs, Request(j) \/ Fetch(j) \/ FetchRaises(j) \/ JobStep(j) \/ Cut(j) \/ Requeue(j) \/ Lapse(j)
      PROVE  job' \in [Jobs -> JobState] /\ status' \in [Jobs -> KeyStates]
  <2>5. status' \in [Jobs -> KeyStates]
    BY <1>3, <1>s DEF Request, Fetch, FetchRaises, JobStep, Accept, BadAnswer, Rescue, OtherError,
                      Answer, Cut, Requeue, Lapse, Enqueue, End, Raise, KeyStates
  <2> SUFFICES job' \in [Jobs -> JobState]
    BY <2>5
  <2>0. job[j] \in JobState
    BY <1>b
  <2>1. CASE Request(j) \/ Requeue(j) \/ Lapse(j)
    BY <2>1, <1>b DEF Request, Requeue, Lapse, Enqueue, JobState
  <2>2. CASE Fetch(j)
    <3>1. metadata[Of(j)] \in Codes \cup {None}
      BY <1>d, JobFacts
    <3> QED BY <2>2, <3>1, <1>b, ZenonT(30) DEF Fetch, JobState
  <2>3. CASE Accept(j)
    BY <2>3, <1>b DEF Accept, JobState
  <2>4. CASE FetchRaises(j) \/ BadAnswer(j) \/ OtherError(j) \/ Cut(j) \/ Answer(j)
    <3>1. CASE job' = [job EXCEPT ![j].pc = "send", ![j].attempts = @ + 1] /\ MayRetry(j)
      BY <3>1, <1>b, Numbers DEF MayRetry, JobState
    <3>2. CASE \E pc \in {"retry", "over", "cut"}, n \in {0, 1} : Left(j, pc, n)
      BY <3>2, <2>0, <1>b, Numbers DEF Left, JobState
    <3> QED BY <2>4, <3>1, <3>2 DEF FetchRaises, BadAnswer, Rescue, OtherError, Answer, End, Raise, Cut
  <2> QED BY <1>3, <2>1, <2>2, <2>3, <2>4 DEF JobStep
<1>4. ASSUME NEW j \in Jobs, \/ Request(j) \/ Fetch(j) \/ FetchRaises(j) \/ BadAnswer(j)
                             \/ OtherError(j) \/ Cut(j) \/ Requeue(j) \/ Lapse(j)
      PROVE  ShotTypes'
  <2>1. UNCHANGED <<bounds, sync, capture, metadata, tags, overlapped, disturbed>>
    BY <1>4 DEF Request, Fetch, FetchRaises, BadAnswer, OtherError, Cut, Requeue, Lapse
  <2> QED BY <1>3, <1>4, <2>1 DEF ShotTypes, Handled, JobStep
<1>5. ASSUME NEW j \in Jobs, Answer(j) PROVE ShotTypes'
  <2>1. metadata' \in [Results -> Codes \cup {None}]
    BY <1>5, <1>b, <1>d DEF Answer, JobState
  <2>2. UNCHANGED <<bounds, sync, capture, tags, overlapped>> /\ disturbed \subseteq disturbed'
    BY <1>5 DEF Answer
  <2> QED BY <1>3, <1>5, <2>1, <2>2 DEF ShotTypes, Handled, JobStep
<1>6. ASSUME NEW j \in Jobs, Accept(j) PROVE ShotTypes'
  <2>1. PICK c \in Captures : capture' = [capture EXCEPT ![c].pc = "taken", ![c].of = j]
    BY <1>6 DEF Accept
  <2>2. capture' \in [Captures -> CaptureState]
    BY <2>1, <1>c, ZenonT(30) DEF CaptureState
  <2>3. j # NoJob
    BY JobFacts
  <2>4. \A d \in Captures : /\ capture'[d].pc = None <=> capture'[d].of = NoJob
                            /\ Handled(d)' => capture'[d].code \in Codes
    BY <2>1, <2>3, <1>c DEF ShotTypes, Handled, None, CaptureState
  <2>5. UNCHANGED <<bounds, sync, metadata, tags, overlapped, disturbed>>
    BY <1>6 DEF Accept
  <2> QED BY <1>3, <1>6, <2>2, <2>4, <2>5 DEF ShotTypes, JobStep
<1>7. ASSUME NEW c \in Captures, CallBack(c) PROVE ShotTypes'
  <2>1. PICK code \in Codes : capture' = [capture EXCEPT ![c].pc = "loaded", ![c].code = code]
    BY <1>7 DEF CallBack
  <2>2. capture' \in [Captures -> CaptureState]
    BY <2>1, <1>c, ZenonT(30) DEF CaptureState
  <2>3. \A d \in Captures : /\ capture'[d].pc = None <=> capture'[d].of = NoJob
                            /\ Handled(d)' => capture'[d].code \in Codes
    BY <1>7, <2>1, <1>c DEF ShotTypes, CallBack, Is, Handled, None, CaptureState
  <2>4. UNCHANGED <<bounds, sync, job, status, metadata, tags>> /\ overlapped' \subseteq disturbed'
    BY <1>7 DEF CallBack, ShotTypes
  <2> QED BY <2>2, <2>3, <2>4, <1>a, <1>b, <1>s, <1>d DEF ShotTypes
<1>8. ASSUME NEW c \in Captures, Handler(c) \/ HandlerStops(c) PROVE ShotTypes'
  <2>1. Handled(c)
    BY <1>8 DEF Handler, ScrapeRaises, Save, Look, Untag, AddTag, HandlerStops, Handled, Is
  <2>2. About(c) \in Results /\ capture[c].code \in Codes /\ capture[c].pc # None
        /\ capture[c].of # NoJob
    BY <2>1, AboutFacts DEF Handled, None, ShotTypes
  <2>3. \E p \in {"saved", "untag", "tag", "over"}, code \in {None, capture[c].code},
           old \in tags[About(c)] \cup {None, capture[c].old} :
          /\ capture' = [capture EXCEPT ![c] = [pc |-> p, of |-> @.of, code |-> code, old |-> old]]
          /\ p # "over" => code = capture[c].code
    <3>1. CASE ScrapeRaises(c) \/ AddTag(c) \/ HandlerStops(c)
      BY <3>1 DEF ScrapeRaises, AddTag, HandlerStops, Leave
    <3>2. CASE Save(c) \/ Untag(c)
      BY <3>2, <1>c DEF Save, Untag, Goto, CaptureState
    <3>3. CASE Look(c)
      BY <3>3, <1>c DEF Look, Goto, Leave, CaptureState
    <3> QED BY <1>8, <3>1, <3>2, <3>3 DEF Handler
  <2>4. capture' \in [Captures -> CaptureState]
    BY <2>2, <2>3, <1>c, <1>d DEF CaptureState
  <2>5. \A d \in Captures : /\ capture'[d].pc = None <=> capture'[d].of = NoJob
                            /\ Handled(d)' => capture'[d].code \in Codes
    BY <2>2, <2>3, <1>c DEF ShotTypes, Handled, None
  <2>6. metadata' \in [Results -> Codes \cup {None}] /\ tags' \in [Results -> SUBSET Codes]
    BY <1>8, <2>2, <1>d DEF Handler, ScrapeRaises, Save, Look, Untag, AddTag, HandlerStops
  <2>7. /\ UNCHANGED <<bounds, sync, job, status, overlapped>>
        /\ disturbed \subseteq disturbed'
    BY <1>8 DEF Handler, ScrapeRaises, Save, Look, Untag, AddTag, HandlerStops
  <2> QED BY <2>4, <2>5, <2>6, <2>7, <1>a, <1>b, <1>s DEF ShotTypes
<1>9. CASE UNCHANGED shotVars
  BY <1>9 DEF shotVars, ShotTypes, Handled
<1> QED BY <1>1, <1>4, <1>5, <1>6, <1>7, <1>8, <1>9, JobFacts DEF ShotNext, SyncStep, JobStep

-----------------------------------------------------------------------------
\* The status keys keep telling the truth.
LEMMA KeysStep ==
  ASSUME ShotTypes, KeysTell, [ShotNext]_shotVars
  PROVE  KeysTell'
<1> USE DEF jobs
<1>1. job \in [Jobs -> JobState] /\ status \in [Jobs -> KeyStates]
  BY DEF ShotTypes
<1>2. ASSUME UNCHANGED jobs, UNCHANGED lapsed PROVE KeysTell'
  BY <1>2 DEF KeysTell, KeyTells, Running
<1>3. ASSUME NEW j \in Jobs, lapsed \subseteq lapsed', KeyTells(j)',
             \A k \in Jobs \ {j} : job'[k] = job[k] /\ status'[k] = status[k]
      PROVE  KeysTell'
  BY <1>3 DEF KeysTell, KeyTells, Running
<1>4. CASE Push
  <2>1. PICK j \in Jobs : Enqueue(j)
    <3>1. <<sync.run, sync.left>> \in Jobs
      BY <1>4, BoundsFacts, JobFacts DEF Push, ShotTypes, Run
    <3> QED BY <1>4, <3>1 DEF Push
  <2>2. KeyTells(j)'
    BY <1>1, <2>1 DEF Enqueue, KeyTells, Running, None
  <2> QED BY <1>1, <1>3, <1>4, <2>1, <2>2 DEF Push, Enqueue
<1>5. ASSUME NEW j \in Jobs,
             Request(j) \/ Fetch(j) \/ FetchRaises(j) \/ JobStep(j) \/ Cut(j) \/ Requeue(j) \/ Lapse(j)
      PROVE  KeysTell'
  <2>1. /\ lapsed \subseteq lapsed'
        /\ \A k \in Jobs \ {j} : job'[k] = job[k] /\ status'[k] = status[k]
    BY <1>1, <1>5 DEF Request, Enqueue, Fetch, FetchRaises, JobStep, Accept, BadAnswer, Rescue,
                      OtherError, Answer, End, Raise, Left, Cut, Requeue, Lapse
  <2>2. KeyTells(j)
    BY DEF KeysTell
  <2> SUFFICES KeyTells(j)'
    BY <1>3, <2>1
  <2>3. CASE Request(j) \/ Requeue(j)
    <3>1. job'[j].pc = "queued" /\ status'[j] = "queued"
      BY <1>1, <2>3 DEF Request, Requeue, Enqueue, JobState
    <3> QED BY <3>1 DEF KeyTells, Running, None
  <2>4. CASE Fetch(j)
    BY <1>1, <2>4 DEF Fetch, KeyTells, Running, None
  <2>5. CASE Accept(j) \/ (BadAnswer(j) /\ MayRetry(j))
    <3>1. status[j] = "working" /\ status' = status
      BY <2>2, <2>5 DEF Accept, BadAnswer, Rescue, KeyTells, Running
    <3>2. job'[j].pc \in {"send", "answer"}
      BY <1>1, <2>5 DEF Accept, BadAnswer, Rescue, JobState
    <3> QED BY <3>1, <3>2 DEF KeyTells, Running, None
  <2>6. ASSUME NEW pc \in {"over", "cut"}, Left(j, pc, 0) PROVE KeyTells(j)'
    BY <1>1, <2>6 DEF Left, KeyTells, Running, None
  <2>7. CASE Raise(j)
    <3>1. job[j].raised \in Nat
      BY <1>1 DEF JobState
    <3>2. job'[j].pc \in {"retry", "over"} /\ job'[j].raised = job[j].raised + 1
      BY <1>1, <2>7 DEF Raise, Left
    <3> QED BY <3>1, <3>2 DEF KeyTells, Running, None
  <2>8. CASE Lapse(j)
    BY <1>1, <2>2, <2>8 DEF Lapse, KeyTells, Running, None
  <2> QED BY <1>5, <2>3, <2>4, <2>5, <2>6, <2>7, <2>8
          DEF JobStep, FetchRaises, BadAnswer, Rescue, OtherError, Answer, End, Cut
<1>6. CASE SyncStart \/ Count \/ Finish \/ SyncRaises \/ SyncStops
  BY <1>2, <1>6 DEF SyncStart, Count, Finish, SyncRaises, SyncStops
<1>7. ASSUME NEW c \in Captures, CallBack(c) \/ Handler(c) \/ HandlerStops(c) PROVE KeysTell'
  BY <1>2, <1>7 DEF CallBack, Handler, ScrapeRaises, Save, Look, Untag, AddTag, HandlerStops
<1>8. CASE UNCHANGED shotVars
  BY <1>2, <1>8 DEF shotVars
<1> QED BY <1>4, <1>5, <1>6, <1>7, <1>8, JobFacts DEF ShotNext, SyncStep

\* A job that is under way stays so, or it ends; a job that was settled stays
\* settled, and one that nobody pushed or asked for stays unused.
LEMMA JobsGoForward ==
  ASSUME ShotTypes, [ShotNext]_shotVars, ~Push
  PROVE  \A j \in Jobs :
           /\ Settled(j) => Settled(j)'
           /\ job[j].pc = None /\ j \notin Requested => job'[j].pc = None
<1> USE DEF jobs
<1>1. job \in [Jobs -> JobState]
  BY DEF ShotTypes
<1>2. ASSUME UNCHANGED jobs, UNCHANGED lapsed
      PROVE  \A j \in Jobs : /\ Settled(j) => Settled(j)'
                             /\ job[j].pc = None => job'[j].pc = None
  BY <1>2 DEF Settled, CountedEarly
<1>3. ASSUME NEW i \in Jobs,
             Fetch(i) \/ FetchRaises(i) \/ JobStep(i) \/ Cut(i) \/ Requeue(i) \/ Lapse(i)
      PROVE  \A j \in Jobs : /\ Settled(j) => Settled(j)'
                             /\ job[j].pc = None => job'[j].pc = None
  <2>1. job[i] \in JobState /\ job[i].raised \in Nat
    BY <1>1 DEF JobState
  <2>2. /\ \A j \in Jobs \ {i} : job'[j] = job[j]
        /\ lapsed \subseteq lapsed' /\ (Fetch(i) => lapsed' = lapsed)
    BY <1>1, <1>3 DEF Fetch, FetchRaises, JobStep, Accept, BadAnswer, Rescue, OtherError, Answer,
                      End, Raise, Left, Cut, Requeue, Enqueue, Lapse
  <2>3. job[i].pc # None
    BY <1>3 DEF Fetch, FetchRaises, JobStep, Accept, BadAnswer, OtherError, Answer, Cut, Requeue,
                Lapse, Running, None
  <2>4. \A j \in Jobs \ {i} : Settled(j) => Settled(j)'
    BY <2>2 DEF Settled, CountedEarly
  <2>5. Settled(i) => Settled(i)'
    <3>1. CASE Fetch(i) \/ Accept(i) \/ (BadAnswer(i) /\ MayRetry(i)) \/ Lapse(i)
      <4>1. CASE Lapse(i)
        BY <2>2, <4>1 DEF Lapse, Settled, CountedEarly
      <4>2. CASE Fetch(i) \/ Accept(i) \/ (BadAnswer(i) /\ MayRetry(i))
        <5>1. job'[i].raised = job[i].raised /\ job[i].pc \notin {"over", "cut"}
          BY <1>1, <2>1, <4>2 DEF Fetch, Accept, BadAnswer, Rescue, JobState
        <5> QED BY <2>2, <5>1 DEF Settled, CountedEarly
      <4> QED BY <3>1, <4>1, <4>2
    <3>2. ASSUME NEW pc \in {"over", "cut"}, Left(i, pc, 0) PROVE Settled(i)'
      BY <1>1, <3>2 DEF Left, Settled
    <3>3. CASE Raise(i)
      <4>1. job'[i].raised = job[i].raised + 1
        BY <1>1, <3>3 DEF Raise, Left
      <4> QED BY <2>1, <4>1 DEF Settled, CountedEarly
    <3>4. CASE Requeue(i)
      <4>1. job'[i].raised = job[i].raised /\ job[i].pc = "retry"
        BY <1>1, <3>4 DEF Requeue, Enqueue
      <4> QED BY <2>2, <4>1 DEF Settled, CountedEarly
    <3> QED BY <1>3, <3>1, <3>2, <3>3, <3>4
            DEF JobStep, FetchRaises, BadAnswer, Rescue, OtherError, Answer, End, Cut
  <2> QED BY <2>2, <2>3, <2>4, <2>5
<1>4. ASSUME NEW i \in Requested, Request(i)
      PROVE  \A j \in Jobs : /\ Settled(j) => Settled(j)'
                             /\ job[j].pc = None /\ j \notin Requested => job'[j].pc = None
  BY <1>1, <1>4, JobFacts DEF Request, Enqueue, Settled, CountedEarly, None
<1>5. CASE SyncStart \/ Count \/ Finish \/ SyncRaises \/ SyncStops
  BY <1>2, <1>5 DEF SyncStart, Count, Finish, SyncRaises, SyncStops
<1>6. ASSUME NEW c \in Captures, CallBack(c) \/ Handler(c) \/ HandlerStops(c)
      PROVE  UNCHANGED jobs /\ UNCHANGED lapsed
  BY <1>6 DEF CallBack, Handler, ScrapeRaises, Save, Look, Untag, AddTag, HandlerStops
<1>7. CASE UNCHANGED shotVars
  BY <1>2, <1>7 DEF shotVars
<1> QED BY <1>2, <1>3, <1>4, <1>5, <1>6, <1>7 DEF ShotNext, SyncStep

\* The run pushes one job at a time.
LEMMA PushedInTurnStep ==
  ASSUME ShotTypes, KeysTell, PushedInTurn, [ShotNext]_shotVars
  PROVE  PushedInTurn'
<1> USE DEF jobs
<1>1. /\ sync.run \in 1..MaxRuns /\ sync.left \in 0..Len(List) /\ sync.left <= bounds.results
      /\ bounds.results \in 0..Len(List) /\ job \in [Jobs -> JobState]
      /\ DOMAIN List = 1..Len(List) /\ Len(List) \in Nat /\ MaxRuns \in Nat
  BY JobFacts, BoundsFacts, Numbers DEF ShotTypes, Run
<1>2. \A n \in 1..MaxRuns, i \in DOMAIN List : <<n, i>> \in Jobs /\ <<n, i>> \notin Requested
  <2>1. ASSUME NEW n \in 1..MaxRuns, NEW i \in DOMAIN List PROVE <<n, i>> \notin Requested
    BY Numbers DEF Requested
  <2> QED BY <2>1, JobFacts
<1>3. \A j \in Jobs : j[1] \in 0..MaxRuns /\ (j \in Requested => j[1] = 0)
  <2>1. \A j \in Requested : j[1] = 0
    BY DEF Requested
  <2> QED BY <2>1, JobFacts
<1>4. bounds' = bounds
  BY DEF ShotNext, SyncStep, SyncStart, Push, Count, Finish, SyncRaises, SyncStops, Request,
         Fetch, FetchRaises, JobStep, Accept, BadAnswer, OtherError, Answer, Cut, Requeue, Lapse,
         CallBack, Handler, ScrapeRaises, Save, Look, Untag, AddTag, HandlerStops, shotVars
<1>5. CASE Push
  <2>1. PICK j \in Jobs : /\ j = <<sync.run, sync.left>> /\ Enqueue(j)
                          /\ sync' = [sync EXCEPT !.left = @ - 1, !.waiting = j]
    <3>1. <<sync.run, sync.left>> \in Jobs
      BY <1>1, <1>2, <1>5 DEF Push
    <3> QED BY <1>5, <3>1 DEF Push
  <2>2. /\ sync' = [pc |-> "running", run |-> sync.run, left |-> sync.left - 1, waiting |-> j]
        /\ sync.waiting = NoJob /\ sync.pc = "running" /\ sync.left \in 1..Len(List)
    <3>1. sync \in Run
      BY DEF ShotTypes
    <3>2. sync.waiting = NoJob /\ sync.pc = "running" /\ sync.left > 0
      BY <1>5 DEF Push, Room
    <3>3. sync' = [pc |-> "running", run |-> sync.run, left |-> sync.left - 1, waiting |-> j]
      BY <2>1, <3>1, <3>2 DEF Run
    <3> QED BY <1>1, <3>2, <3>3
  <2>3. \A k \in Jobs \ {j} : job'[k] = job[k]
    BY <1>1, <2>1 DEF Enqueue
  <2>4. lapsed' = lapsed
    BY <1>5 DEF Push
  <2>5. \A k \in Jobs : sync.run < k[1] => job'[k].pc = None
    BY <1>1, <1>3, <2>1, <2>3 DEF PushedInTurn
  <2>6. \A i \in DOMAIN List : Popped(i)' <=> Popped(i) \/ i = sync.left
    BY <1>1, <1>4, <2>2 DEF Popped
  <2>7. \A i \in DOMAIN List : Cur(i)' = Cur(i) /\ Cur(i) \in Jobs /\ (Cur(i) = j <=> i = sync.left)
    BY <1>1, <1>2, <2>1, <2>2 DEF Cur
  <2>8. \A i \in DOMAIN List : ~Popped(i)' => job'[Cur(i)].pc = None
    BY <2>3, <2>6, <2>7 DEF PushedInTurn
  <2>9. \A i \in DOMAIN List : Popped(i)' => sync'.waiting = Cur(i) \/ Settled(Cur(i))'
    <3>1. \A k \in Jobs : sync.waiting # k
      BY <2>2, JobFacts
    <3> QED BY <2>2, <2>3, <2>4, <2>6, <2>7, <3>1 DEF PushedInTurn, Settled, CountedEarly
  <2>10. sync'.left + 1 <= bounds.results /\ sync'.waiting = Cur(sync'.left + 1)
    <3>1. sync.left - 1 + 1 = sync.left
      BY <1>1
    <3> QED BY <1>1, <2>1, <2>2, <3>1 DEF Cur
  <2>11. (Cur(sync.left + 1))' = Cur(sync'.left + 1)
    BY <2>2 DEF Cur
  <2> QED BY <1>4, <2>2, <2>5, <2>7, <2>8, <2>9, <2>10, <2>11 DEF PushedInTurn
<1>6. CASE ~Push /\ UNCHANGED sync
  <2>1. \A j \in Jobs : /\ Settled(j) => Settled(j)'
                        /\ job[j].pc = None /\ j \notin Requested => job'[j].pc = None
    BY <1>6, JobsGoForward
  <2> QED BY <1>1, <1>2, <1>3, <1>4, <1>6, <2>1 DEF PushedInTurn, Popped, Cur
<1>7. CASE SyncStart \/ Finish \/ SyncStops
  BY <1>4, <1>7 DEF SyncStart, Finish, SyncStops, PushedInTurn, Popped, Cur, Settled, CountedEarly, ShotTypes, Run
<1>8. CASE Count
  <2>1. PICK i \in DOMAIN List : Popped(i) /\ sync.waiting = Cur(i)
    <3>1. sync.left + 1 <= bounds.results /\ sync.waiting = Cur(sync.left + 1)
      BY <1>8 DEF Count, PushedInTurn
    <3>2. sync.left + 1 \in DOMAIN List /\ Popped(sync.left + 1)
      BY <1>1, <3>1 DEF Popped
    <3> QED BY <3>1, <3>2
  <2>2. Settled(Cur(i))
    <3>1. Cur(i) \in Jobs
      BY <1>1, <1>2 DEF Cur
    <3>2. job[Cur(i)] \in JobState
      BY <1>1, <3>1
    <3> QED BY <1>8, <2>1, <3>1, <3>2 DEF Count, CountsAsDone, KeysTell, KeyTells, Settled, CountedEarly,
                                                JobState, Running, None
  <2> QED BY <1>1, <1>4, <1>8, <2>1, <2>2 DEF Count, PushedInTurn, Popped, Cur, Settled, CountedEarly
<1>9. CASE SyncRaises
  <2>1. /\ sync'.pc = "queued" /\ sync'.run = sync.run + 1 /\ sync'.left = bounds.results
        /\ sync'.waiting = NoJob /\ sync.run + 1 \in 1..MaxRuns
    BY <1>1, <1>9, BoundsFacts DEF SyncRaises
  <2>2. \A i \in DOMAIN List : ~Popped(i)' /\ job'[Cur(i)'].pc = None
    <3>1. \A i \in DOMAIN List : Cur(i)' = <<sync.run + 1, i>> /\ <<sync.run + 1, i>> \in Jobs
      BY <1>2, <2>1 DEF Cur
    <3>2. \A i \in DOMAIN List : job[<<sync.run + 1, i>>].pc = None
      BY <1>1, <3>1 DEF PushedInTurn
    <3>3. job' = job
      BY <1>9 DEF SyncRaises
    <3>4. \A i \in DOMAIN List : ~Popped(i)'
      BY <1>1, <1>4, <2>1 DEF Popped
    <3> QED BY <3>1, <3>2, <3>3, <3>4
  <2>3. \A k \in Jobs : sync'.run < k[1] => job'[k].pc = None
    BY <1>1, <1>3, <1>9, <2>1 DEF SyncRaises, PushedInTurn
  <2> QED BY <1>4, <2>1, <2>2, <2>3 DEF PushedInTurn
<1>10. ASSUME NEW j \in Jobs,
              Request(j) \/ Fetch(j) \/ FetchRaises(j) \/ JobStep(j) \/ Cut(j) \/ Requeue(j) \/ Lapse(j)
       PROVE  UNCHANGED sync
  BY <1>10 DEF Request, Fetch, FetchRaises, JobStep, Accept, BadAnswer, OtherError, Answer, Cut,
               Requeue, Lapse
<1>11. ASSUME NEW c \in Captures, CallBack(c) \/ Handler(c) \/ HandlerStops(c)
       PROVE  UNCHANGED sync
  BY <1>11 DEF CallBack, Handler, ScrapeRaises, Save, Look, Untag, AddTag, HandlerStops
<1> QED BY <1>5, <1>6, <1>7, <1>8, <1>9, <1>10, <1>11, JobFacts DEF ShotNext, SyncStep, shotVars

-----------------------------------------------------------------------------
\* There are finitely many captures, so one more is counted as one more.
LEMMA CapturesFinite ==
  \A j : /\ IsFiniteSet(CapturesOf(j)) /\ Cardinality(CapturesOf(j)) \in Nat
         /\ \A c : /\ IsFiniteSet(CapturesOf(j) \cup {c})
                   /\ c \notin CapturesOf(j) =>
                        Cardinality(CapturesOf(j) \cup {c}) = Cardinality(CapturesOf(j)) + 1
<1> TAKE j
<1>1. IsFiniteSet(Captures)
  BY FS_Interval, Numbers DEF Captures
<1>2. IsFiniteSet(CapturesOf(j))
  BY <1>1, FS_Subset DEF CapturesOf
<1> QED BY <1>2, FS_CardinalityType, FS_AddElement

\* Sketchy accepts an attempt once.
LEMMA AcceptedStep ==
  ASSUME ShotTypes, PushedInTurn, AcceptedOncePerAttempt, [ShotNext]_shotVars
  PROVE  AcceptedOncePerAttempt'
<1> USE DEF jobs
<1>1. job \in [Jobs -> JobState] /\ \A j \in Jobs : job[j] \in JobState
  BY DEF ShotTypes
<1>2. \A j \in Jobs :
        /\ Cardinality(CapturesOf(j)) \in Nat
        /\ job[j].attempts \in 0..Retries /\ job[j].raised \in Nat
        /\ Allowed(job[j].raised) \in Nat /\ Allowed(job[j].raised + 1) \in Nat
        /\ Allowed(job[j].raised + 1) = Allowed(job[j].raised) + Retries + 1
        /\ Allowed(job[j].raised + 1 + 1) = Allowed(job[j].raised + 1) + Retries + 1
  <2> SUFFICES ASSUME NEW j \in Jobs
               PROVE  /\ Cardinality(CapturesOf(j)) \in Nat
                      /\ job[j].attempts \in 0..Retries /\ job[j].raised \in Nat
                      /\ Allowed(job[j].raised) \in Nat /\ Allowed(job[j].raised + 1) \in Nat
                      /\ Allowed(job[j].raised + 1) = Allowed(job[j].raised) + Retries + 1
                      /\ Allowed(job[j].raised + 1 + 1) = Allowed(job[j].raised + 1) + Retries + 1
    OBVIOUS
  <2>1. job[j].attempts \in 0..Retries /\ job[j].raised \in Nat
    BY <1>1 DEF JobState
  <2>2. job[j].raised + 1 \in Nat
    BY <2>1
  <2> QED BY <2>1, <2>2, AllowedFacts, CapturesFinite
<1>3. ASSUME \A c \in Captures : capture'[c].of = capture[c].of
      PROVE  \A j \in Jobs : CapturesOf(j)' = CapturesOf(j)
  BY <1>3 DEF CapturesOf
<1>4. ASSUME UNCHANGED job, \A c \in Captures : capture'[c].of = capture[c].of
      PROVE  AcceptedOncePerAttempt'
  BY <1>3, <1>4 DEF AcceptedOncePerAttempt, AcceptedOnce
<1>5. ASSUME NEW j \in Jobs, UNCHANGED capture, \A i \in Jobs \ {j} : job'[i] = job[i],
             \/ /\ job'[j].raised = job[j].raised + 1 /\ job'[j].attempts = 0
                /\ job'[j].pc \in {"retry", "over"}
             \/ /\ job'[j].raised = job[j].raised
                /\ \/ job'[j].pc \in {"over", "cut"}
                   \/ /\ job[j].pc \in {"none", "retry"} /\ job'[j].pc = "queued"
                      /\ job'[j].attempts = job[j].attempts
                   \/ /\ job[j].pc = "queued" /\ job'[j].pc = "send"
                      /\ job'[j].attempts = job[j].attempts
                   \/ /\ job[j].pc \in {"send", "answer"} /\ job'[j].pc = "send"
                      /\ job'[j].attempts = job[j].attempts + 1
      PROVE  AcceptedOncePerAttempt'
  <2>1. \A i \in Jobs : CapturesOf(i)' = CapturesOf(i)
    BY <1>3, <1>5
  <2>2. \A i \in Jobs \ {j} : AcceptedOnce(i)'
    BY <1>5, <2>1 DEF AcceptedOncePerAttempt, AcceptedOnce
  <2>3. AcceptedOnce(j)
    BY DEF AcceptedOncePerAttempt
  <2>4. AcceptedOnce(j)'
    <3> DEFINE n == Cardinality(CapturesOf(j))
    <3>1. Cardinality(CapturesOf(j))' = n
      BY <2>1
    <3>2. /\ n \in Nat /\ job[j].attempts \in Nat /\ n <= Allowed(job[j].raised + 1)
          /\ job[j].pc \in {"none", "queued", "retry"} =>
               n <= Allowed(job[j].raised) /\ job[j].attempts = 0
          /\ job[j].pc = "send" => n <= Allowed(job[j].raised) + job[j].attempts
          /\ job[j].pc = "answer" => n <= Allowed(job[j].raised) + job[j].attempts + 1
      BY <1>2, <2>3 DEF AcceptedOnce, None
    <3> HIDE DEF n
    <3>3. CASE job'[j].raised = job[j].raised + 1
      <4>1. job'[j].pc \in {"retry", "over"} /\ job'[j].attempts = 0
        BY <1>2, <1>5, <3>3
      <4>2. n <= Allowed(job[j].raised + 1) + Retries + 1
        BY <1>2, <3>2, Numbers
      <4>3. n <= Allowed(job[j].raised + 1 + 1)
        BY <1>2, <4>2
      <4> QED BY <3>1, <3>2, <3>3, <4>1, <4>3 DEF AcceptedOnce, Allowed, None
    <3>4. CASE job'[j].raised = job[j].raised
      BY <1>2, <1>5, <3>1, <3>2, <3>4 DEF AcceptedOnce, Allowed, None
    <3> QED BY <1>5, <3>3, <3>4
  <2> QED BY <2>2, <2>4 DEF AcceptedOncePerAttempt
<1>6. CASE Push
  <2>1. sync.left \in DOMAIN List /\ Cur(sync.left) \in Jobs /\ ~Popped(sync.left)
    BY <1>6, BoundsFacts, JobFacts DEF Push, ShotTypes, Run, Cur, Popped
  <2>2. Enqueue(Cur(sync.left)) /\ UNCHANGED capture /\ job[Cur(sync.left)].pc = None
    BY <1>6, <2>1 DEF Push, Cur, PushedInTurn
  <2>3. /\ \A i \in Jobs \ {Cur(sync.left)} : job'[i] = job[i]
        /\ job'[Cur(sync.left)].pc = "queued"
        /\ job'[Cur(sync.left)].raised = job[Cur(sync.left)].raised
        /\ job'[Cur(sync.left)].attempts = job[Cur(sync.left)].attempts
    BY <1>1, <2>1, <2>2 DEF Enqueue, JobState
  <2> QED BY <1>5, <2>1, <2>2, <2>3 DEF None
<1>7. ASSUME NEW j \in Jobs, \/ Request(j) \/ Fetch(j) \/ FetchRaises(j) \/ BadAnswer(j)
                             \/ OtherError(j) \/ Answer(j) \/ Cut(j) \/ Requeue(j)
      PROVE  AcceptedOncePerAttempt'
  <2>1. UNCHANGED capture /\ \A i \in Jobs \ {j} : job'[i] = job[i]
    BY <1>1, <1>7 DEF Request, Enqueue, Fetch, FetchRaises, BadAnswer, Rescue, OtherError, Answer,
                      End, Raise, Left, Cut, Requeue
  <2>2. CASE Request(j) \/ Requeue(j)
    BY <1>1, <1>5, <2>1, <2>2 DEF Request, Requeue, Enqueue, None, JobState
  <2>3. CASE Fetch(j)
    BY <1>1, <1>5, <2>1, <2>3 DEF Fetch, JobState
  <2>4. CASE BadAnswer(j) /\ MayRetry(j)
    BY <1>1, <1>5, <2>1, <2>4 DEF BadAnswer, Rescue, JobState
  <2>5. ASSUME NEW pc \in {"over", "cut"}, Left(j, pc, 0) PROVE AcceptedOncePerAttempt'
    <3>1. job'[j].pc \in {"over", "cut"} /\ job'[j].raised = job[j].raised
      BY <1>1, <1>2, <2>5 DEF Left
    <3> QED BY <1>5, <2>1, <3>1
  <2>6. CASE Raise(j)
    <3>1. /\ job'[j].pc \in {"retry", "over"} /\ job'[j].raised = job[j].raised + 1
          /\ job'[j].attempts = 0
      BY <1>1, <2>6 DEF Raise, Left
    <3> QED BY <1>5, <2>1, <3>1
  <2> QED BY <1>7, <2>2, <2>3, <2>4, <2>5, <2>6
          DEF FetchRaises, BadAnswer, Rescue, OtherError, Answer, End, Cut
<1>8. ASSUME NEW j \in Jobs, Accept(j) PROVE AcceptedOncePerAttempt'
  <2>1. PICK c \in Captures : /\ capture[c].pc = None
                              /\ capture' = [capture EXCEPT ![c].pc = "taken", ![c].of = j]
    BY <1>8 DEF Accept
  <2>2. capture[c].of = NoJob /\ j # NoJob
    BY <2>1, JobFacts DEF ShotTypes
  <2>3. \A d \in Captures : capture'[d].of = IF d = c THEN j ELSE capture[d].of
    BY <2>1 DEF ShotTypes, CaptureState
  <2>4. CapturesOf(j)' = CapturesOf(j) \cup {c} /\ c \notin CapturesOf(j)
    BY <2>2, <2>3 DEF CapturesOf
  <2>5. \A i \in Jobs \ {j} : CapturesOf(i)' = CapturesOf(i)
    BY <2>2, <2>3, JobFacts DEF CapturesOf
  <2>6. Cardinality(CapturesOf(j)') = Cardinality(CapturesOf(j)) + 1
    BY <2>4, CapturesFinite
  <2>7. /\ job[j].pc = "send" /\ job'[j].pc = "answer" /\ job'[j].attempts = job[j].attempts
        /\ job'[j].raised = job[j].raised /\ \A i \in Jobs \ {j} : job'[i] = job[i]
    BY <1>1, <1>8 DEF Accept, JobState
  <2>8. \A i \in Jobs \ {j} : AcceptedOnce(i)'
    BY <2>5, <2>7 DEF AcceptedOncePerAttempt, AcceptedOnce, Allowed
  <2>9. AcceptedOnce(j)'
    <3>1. Cardinality(CapturesOf(j)) <= Allowed(job[j].raised) + job[j].attempts
      BY <2>7 DEF AcceptedOncePerAttempt, AcceptedOnce
    <3>2. Cardinality(CapturesOf(j)) + 1 <= Allowed(job[j].raised + 1)
      BY <1>2, <3>1, Numbers
    <3>3. Cardinality(CapturesOf(j)) + 1 <= Allowed(job[j].raised) + job[j].attempts + 1
      BY <1>2, <3>1
    <3> QED BY <2>6, <2>7, <3>2, <3>3 DEF AcceptedOnce, Allowed, None
  <2> QED BY <2>8, <2>9 DEF AcceptedOncePerAttempt
<1>9. ASSUME NEW j \in Jobs, Lapse(j) PROVE AcceptedOncePerAttempt'
  BY <1>4, <1>9 DEF Lapse
<1>10. ASSUME NEW c \in Captures, CallBack(c) \/ Handler(c) \/ HandlerStops(c)
       PROVE  AcceptedOncePerAttempt'
  <2>1. \A d \in Captures : capture'[d].of = capture[d].of
    BY <1>10 DEF CallBack, Handler, ScrapeRaises, Save, Look, Untag, AddTag, HandlerStops, Goto,
                 Leave, ShotTypes, CaptureState
  <2>2. UNCHANGED job
    BY <1>10 DEF CallBack, Handler, ScrapeRaises, Save, Look, Untag, AddTag, HandlerStops
  <2> QED BY <1>4, <2>1, <2>2
<1>11. CASE SyncStart \/ Count \/ Finish \/ SyncRaises \/ SyncStops
  BY <1>4, <1>11 DEF SyncStart, Count, Finish, SyncRaises, SyncStops
<1>12. CASE UNCHANGED shotVars
  BY <1>4, <1>12 DEF shotVars
<1> QED BY <1>6, <1>7, <1>8, <1>9, <1>10, <1>11, <1>12, JobFacts DEF ShotNext, SyncStep, JobStep

-----------------------------------------------------------------------------
\* A step of one callback disturbs only what it knows itself.
LEMMA HandlerKeeps ==
  ASSUME ShotTypes, TagInv, NEW c \in Captures, Handled(c),
         capture'[c].of = capture[c].of,
         \A d \in Captures \ {c} : capture'[d] = capture[d],
         \A r \in Results \ {About(c)} : tags'[r] = tags[r] /\ metadata'[r] = metadata[r],
         overlapped' = overlapped, disturbed \subseteq disturbed',
         About(c) \notin overlapped => \A t, u \in tags'[About(c)] : t = u,
         About(c) \notin overlapped /\ Handled(c)' => KnowsTags(c)',
         About(c) \notin disturbed' => IF Handled(c)' THEN KnowsCode(c)' ELSE Mirrored(About(c))'
  PROVE  TagInv'
<1>1. \A d \in Captures : About(d)' = About(d) /\ (Handled(d)' => Handled(d))
  BY DEF About, Handled
<1>2. \A d \in Captures \ {c} : /\ Handled(d)' <=> Handled(d)
                                /\ \A p : Is(d, p)' <=> Is(d, p)
  BY DEF Handled, Is
<1>3. \A d \in Captures : Handled(d) => About(d) \in Results
  BY AboutFacts DEF Handled, None
<1>4. \A d \in Captures \ {c} : Handled(d) /\ About(d) \notin overlapped => About(d) # About(c)
  BY DEF TagInv, HandledAlone
<1>5. overlapped \subseteq disturbed
  BY DEF ShotTypes
<1>6. HandledAlone'
  BY <1>1 DEF TagInv, HandledAlone
<1>7. TagsKnown'
  <2>1. ASSUME NEW d \in Captures \ {c}, Handled(d)', About(d)' \notin overlapped'
        PROVE  KnowsTags(d)'
    <3>1. KnowsTags(d)
      BY <1>1, <1>2, <2>1 DEF TagInv, TagsKnown
    <3>2. tags'[About(d)] = tags[About(d)]
      BY <1>1, <1>2, <1>3, <1>4, <2>1
    <3>3. capture'[d] = capture[d]
      OBVIOUS
    <3> QED BY <1>1, <1>2, <3>1, <3>2, <3>3 DEF KnowsTags
  <2> QED BY <2>1, <1>1 DEF TagsKnown
<1>8. OneTag'
  BY DEF TagInv, OneTag
<1>9. SavedCode'
  <2>1. ASSUME NEW d \in Captures \ {c}, Handled(d)', About(d)' \notin disturbed'
        PROVE  KnowsCode(d)'
    <3>1. KnowsCode(d)
      BY <1>1, <1>2, <2>1 DEF TagInv, SavedCode
    <3>2. tags'[About(d)] = tags[About(d)] /\ metadata'[About(d)] = metadata[About(d)]
      BY <1>1, <1>2, <1>3, <1>4, <1>5, <2>1
    <3>3. capture'[d] = capture[d]
      OBVIOUS
    <3> QED BY <1>1, <1>2, <3>1, <3>2, <3>3 DEF KnowsCode, Mirrored
  <2> QED BY <2>1, <1>1 DEF SavedCode
<1>10. TagIsStatusCode'
  <2>1. ASSUME NEW r \in Results \ disturbed', \A d \in Captures : Handled(d)' => About(d)' # r
        PROVE  Mirrored(r)'
    <3>1. CASE r = About(c)
      BY <1>1, <2>1, <3>1
    <3>2. CASE r # About(c)
      <4>1. Mirrored(r)
        BY <1>1, <1>2, <2>1, <3>2 DEF TagInv, TagIsStatusCode, Mirrored
      <4> QED BY <2>1, <3>2, <4>1 DEF Mirrored
    <3> QED BY <3>1, <3>2
  <2> QED BY <2>1 DEF TagIsStatusCode, Mirrored
<1> QED BY <1>6, <1>7, <1>8, <1>9, <1>10 DEF TagInv

\* The steps of a callback, one by one.
LEMMA HandlerStep ==
  ASSUME ShotTypes, TagInv, NEW c \in Captures, Handler(c) \/ HandlerStops(c)
  PROVE  TagInv'
<1> DEFINE r == About(c)
<1>1. Handled(c)
  BY DEF Handler, ScrapeRaises, Save, Look, Untag, AddTag, HandlerStops, Handled, Is
<1>2. r \in Results /\ capture[c].code \in Codes /\ capture[c].code # None
  BY <1>1, AboutFacts, Numbers DEF ShotTypes, Handled, None
<1>3. capture \in [Captures -> CaptureState] /\ capture[c] \in CaptureState
  BY DEF ShotTypes
<1>4. /\ metadata \in [Results -> Codes \cup {None}] /\ tags \in [Results -> SUBSET Codes]
      /\ overlapped \subseteq disturbed
  BY DEF ShotTypes
<1>5. r \notin overlapped => KnowsTags(c) /\ \A t, u \in tags[r] : t = u
  BY <1>1, <1>2 DEF TagInv, TagsKnown, OneTag
<1>6. r \notin disturbed => KnowsCode(c)
  BY <1>1 DEF TagInv, SavedCode
<1>7. /\ capture'[c].of = capture[c].of
      /\ \A d \in Captures \ {c} : capture'[d] = capture[d]
  BY <1>3 DEF Handler, ScrapeRaises, Save, Look, Untag, AddTag, HandlerStops, Goto, Leave, CaptureState
<1>8. /\ \A s \in Results \ {r} : tags'[s] = tags[s] /\ metadata'[s] = metadata[s]
      /\ overlapped' = overlapped /\ disturbed \subseteq disturbed'
  BY <1>4 DEF Handler, ScrapeRaises, Save, Look, Untag, AddTag, HandlerStops, result, history
<1>9. About(c)' = r /\ (Mirrored(About(c))' <=> tags'[r] = {metadata'[r]} \ {None})
  BY <1>7 DEF About, Mirrored
<1> HIDE DEF r
<1> SUFFICES /\ r \notin overlapped => \A t, u \in tags'[r] : t = u
             /\ r \notin overlapped /\ Handled(c)' => KnowsTags(c)'
             /\ r \notin disturbed' => IF Handled(c)' THEN KnowsCode(c)'
                                       ELSE tags'[r] = {metadata'[r]} \ {None}
  BY <1>1, <1>7, <1>8, <1>9, HandlerKeeps DEF r
<1>10. CASE ScrapeRaises(c)
  <2>1. ~Handled(c)' /\ Is(c, "loaded") /\ UNCHANGED <<result, history>>
    BY <1>3, <1>10 DEF ScrapeRaises, Leave, Handled, Is
  <2> QED BY <1>5, <1>6, <2>1 DEF KnowsCode, Mirrored, r, result, history
<1>11. CASE Save(c)
  <2>1. Is(c, "saved")' /\ capture'[c].code = capture[c].code /\ UNCHANGED tags
    BY <1>3, <1>11 DEF Save, Goto, Is, CaptureState
  <2>2. metadata'[r] = capture[c].code
    BY <1>2, <1>4, <1>11 DEF Save, r
  <2>3. KnowsTags(c)' /\ KnowsCode(c)' /\ Handled(c)'
    BY <1>9, <2>1, <2>2 DEF KnowsTags, KnowsCode, Handled, Is
  <2> QED BY <1>5, <2>1, <2>3
<1>12. CASE Look(c)
  <2>1. UNCHANGED <<result, history>> /\ Is(c, "saved")
    BY <1>12 DEF Look
  <2>2. CASE tags[r] = {} /\ Goto(c, "tag")
    <3>1. Is(c, "tag")' /\ capture'[c].code = capture[c].code /\ Handled(c)'
      BY <1>3, <2>2 DEF Goto, Is, CaptureState, Handled
    <3> QED BY <1>5, <1>6, <1>9, <2>1, <2>2, <3>1 DEF KnowsTags, KnowsCode, Is, r, result, history
  <2>3. CASE \E t \in tags[r] : capture' = [capture EXCEPT ![c].pc = "untag", ![c].old = t]
    <3>1. PICK t \in tags[r] : capture' = [capture EXCEPT ![c].pc = "untag", ![c].old = t]
      BY <2>3
    <3>2. /\ Is(c, "untag")' /\ capture'[c].code = capture[c].code /\ capture'[c].old = t
          /\ Handled(c)'
      BY <1>3, <3>1 DEF Is, CaptureState, Handled
    <3>3. r \notin overlapped => tags[r] = {t}
      BY <1>5, <3>1
    <3> QED BY <1>5, <1>6, <1>9, <2>1, <3>2, <3>3 DEF KnowsTags, KnowsCode, Is, r, result, history
  <2>4. CASE capture[c].code \in tags[r] /\ Leave(c)
    <3>1. ~Handled(c)'
      BY <1>3, <2>4 DEF Leave, Handled
    <3>2. r \notin overlapped => tags[r] = {capture[c].code}
      BY <1>5, <2>4
    <3>3. r \notin disturbed => metadata[r] = capture[c].code
      BY <1>6, <2>1 DEF KnowsCode, Is, r
    <3> QED BY <1>2, <1>4, <1>5, <2>1, <3>1, <3>2, <3>3 DEF result, history
  <2> QED BY <1>12, <2>2, <2>3, <2>4 DEF Look, r
<1>13. CASE Untag(c)
  <2>1. /\ Is(c, "tag")' /\ capture'[c].code = capture[c].code /\ Handled(c)'
        /\ UNCHANGED <<metadata, history>> /\ Is(c, "untag")
    BY <1>3, <1>13 DEF Untag, Is, CaptureState, Handled
  <2>2. tags'[r] = tags[r] \ {capture[c].old}
    BY <1>2, <1>4, <1>13 DEF Untag, r
  <2>3. r \notin overlapped => tags'[r] = {}
    BY <1>5, <2>1, <2>2 DEF KnowsTags, r
  <2> QED BY <1>6, <1>9, <2>1, <2>3 DEF KnowsTags, KnowsCode, Is, r, history
<1>14. CASE AddTag(c)
  <2>1. ~Handled(c)' /\ UNCHANGED <<metadata, history>> /\ Is(c, "tag")
    BY <1>3, <1>14 DEF AddTag, Is, Leave, Handled
  <2>2. tags'[r] = tags[r] \cup {capture[c].code}
    BY <1>2, <1>4, <1>14 DEF AddTag, r
  <2>3. r \notin overlapped => tags'[r] = {capture[c].code}
    BY <1>5, <2>1, <2>2 DEF KnowsTags, r
  <2>4. r \notin disturbed => metadata[r] = capture[c].code
    BY <1>6, <2>1 DEF KnowsCode, Is, r
  <2> QED BY <1>2, <1>4, <2>1, <2>3, <2>4 DEF history
<1>15. CASE HandlerStops(c)
  <2>1. ~Handled(c)' /\ UNCHANGED tags /\ r \in disturbed'
    BY <1>3, <1>15 DEF HandlerStops, Leave, Handled, result, r
  <2> QED BY <1>5, <2>1
<1> QED BY <1>10, <1>11, <1>12, <1>13, <1>14, <1>15 DEF Handler

\* A new callback notes whether it finds another one of the same result.
LEMMA CallBackStep ==
  ASSUME ShotTypes, TagInv, NEW c \in Captures, CallBack(c)
  PROVE  TagInv'
<1> DEFINE others == {About(d) : d \in {e \in Captures \ {c} : Handled(e)}} \cap {About(c)}
<1>1. capture \in [Captures -> CaptureState]
  BY DEF ShotTypes
<1>2. /\ overlapped' = overlapped \cup others /\ disturbed' = disturbed \cup others
      /\ UNCHANGED <<metadata, tags>>
  BY DEF CallBack, result
<1>3. /\ ~Handled(c) /\ Is(c, "loaded")' /\ About(c)' = About(c)
      /\ \A d \in Captures \ {c} : capture'[d] = capture[d]
  BY <1>1 DEF CallBack, Is, Handled, About, CaptureState
<1>4. About(c) \in Results
  BY AboutFacts DEF CallBack, Is, None
<1>5. \A d \in Captures \ {c} : /\ About(d)' = About(d) /\ (Handled(d)' <=> Handled(d))
                                /\ KnowsTags(d)' <=> KnowsTags(d)
                                /\ KnowsCode(d)' <=> KnowsCode(d)
  BY <1>2, <1>3 DEF About, Handled, KnowsTags, KnowsCode, Mirrored, Is
<1>6. \A d \in Captures \ {c} : Handled(d) /\ About(d) = About(c) => About(c) \in others
  OBVIOUS
<1> HIDE DEF others
<1>7. HandledAlone'
  BY <1>2, <1>3, <1>5, <1>6 DEF TagInv, HandledAlone
<1>8. TagsKnown'
  BY <1>2, <1>3, <1>5 DEF TagInv, TagsKnown, KnowsTags, Is
<1>9. OneTag'
  BY <1>2 DEF TagInv, OneTag
<1>10. SavedCode'
  <2>1. About(c) \notin disturbed' => Mirrored(About(c))
    BY <1>2, <1>3, <1>4, <1>6 DEF TagInv, TagIsStatusCode, Mirrored
  <2>2. About(c)' \notin disturbed' => KnowsCode(c)'
    BY <1>2, <1>3, <2>1 DEF KnowsCode, Mirrored
  <2> QED BY <1>2, <1>5, <2>2 DEF TagInv, SavedCode
<1>11. TagIsStatusCode'
  <2>1. Handled(c)'
    BY <1>3 DEF Handled, Is
  <2> QED BY <1>2, <1>3, <1>5, <2>1 DEF TagInv, TagIsStatusCode
<1> QED BY <1>7, <1>8, <1>9, <1>10, <1>11 DEF TagInv

\* Whoever else acts notes the results whose metadata it changes.
LEMMA OthersKeep ==
  ASSUME ShotTypes, TagInv, UNCHANGED <<tags, overlapped>>, disturbed \subseteq disturbed',
         \A c \in Captures : /\ Handled(c)' <=> Handled(c)
                             /\ Handled(c) => capture'[c] = capture[c],
         \A r \in Results \ disturbed' : metadata'[r] = metadata[r]
  PROVE  TagInv'
<1>1. \A c \in Captures : Handled(c) =>
        /\ About(c) \in Results /\ About(c)' = About(c) /\ capture'[c] = capture[c]
  BY AboutFacts DEF Handled, About, None
<1>2. HandledAlone' /\ OneTag'
  BY <1>1 DEF TagInv, HandledAlone, OneTag
<1>3. TagsKnown'
  BY <1>1 DEF TagInv, TagsKnown, KnowsTags, Is
<1>4. SavedCode'
  BY <1>1 DEF TagInv, SavedCode, KnowsCode, Mirrored, Is
<1>5. TagIsStatusCode'
  BY <1>1 DEF TagInv, TagIsStatusCode
<1> QED BY <1>2, <1>3, <1>4, <1>5 DEF TagInv

\* So every step keeps what is known of the tags.
LEMMA TagStep ==
  ASSUME ShotTypes, TagInv, [ShotNext]_shotVars
  PROVE  TagInv'
<1> USE DEF result, history
<1>1. ASSUME UNCHANGED <<capture, result, history>> PROVE TagInv'
  <2>1. \A c \in Captures : Handled(c)' <=> Handled(c)
    BY <1>1 DEF Handled
  <2> QED BY <1>1, <2>1, OthersKeep
<1>2. CASE SyncStep \/ SyncRaises \/ SyncStops
  BY <1>1, <1>2 DEF SyncStep, SyncStart, Push, Count, Finish, SyncRaises, SyncStops
<1>3. ASSUME NEW j \in Jobs, \/ Request(j) \/ Fetch(j) \/ FetchRaises(j) \/ BadAnswer(j)
                             \/ OtherError(j) \/ Cut(j) \/ Requeue(j) \/ Lapse(j)
      PROVE  TagInv'
  BY <1>1, <1>3 DEF Request, Fetch, FetchRaises, BadAnswer, OtherError, Cut, Requeue, Lapse
<1>4. ASSUME NEW j \in Jobs, Accept(j) PROVE TagInv'
  <2>1. PICK d \in Captures : /\ capture[d].pc = None
                              /\ capture' = [capture EXCEPT ![d].pc = "taken", ![d].of = j]
    BY <1>4 DEF Accept
  <2>2. /\ capture'[d].pc = "taken" /\ \A c \in Captures \ {d} : capture'[c] = capture[c]
    BY <2>1 DEF ShotTypes, CaptureState
  <2>3. \A c \in Captures : /\ Handled(c)' <=> Handled(c)
                            /\ Handled(c) => capture'[c] = capture[c]
    BY <2>1, <2>2 DEF Handled, None
  <2>4. UNCHANGED <<result, history>>
    BY <1>4 DEF Accept
  <2> QED BY <2>3, <2>4, OthersKeep
<1>5. ASSUME NEW j \in Jobs, Answer(j) PROVE TagInv'
  <2>1. /\ UNCHANGED <<capture, tags, overlapped>> /\ disturbed \subseteq disturbed'
        /\ \A r \in Results \ disturbed' : metadata'[r] = metadata[r]
    BY <1>5 DEF Answer, ShotTypes
  <2>2. \A c \in Captures : Handled(c)' <=> Handled(c)
    BY <2>1 DEF Handled
  <2> QED BY <2>1, <2>2, OthersKeep
<1>6. CASE UNCHANGED shotVars
  BY <1>1, <1>6 DEF shotVars
<1> QED BY <1>2, <1>3, <1>4, <1>5, <1>6, CallBackStep, HandlerStep, JobFacts DEF ShotNext, JobStep

-----------------------------------------------------------------------------
\* The invariant that carries the properties of the screenshots of a run and of
\* people, for any number of results, jobs, captures and threads.
THEOREM ShotInvariance == ShotSpec => []ShotIInv
<1>1. ShotIInv /\ [ShotNext]_shotVars => ShotIInv'
  BY ShotTypesStep, KeysStep, PushedInTurnStep, AcceptedStep, TagStep DEF ShotIInv
<1> QED BY ShotInitHolds, <1>1, PTL DEF ShotSpec

\* The run has no two of its jobs waiting or at work, unless the first one lost
\* its key or raised (screenshot_sync_task_runner.rb:33-57).
THEOREM PushedOneByOne == ShotSpec => []OneAtATime
<1>1. ASSUME ShotIInv PROVE OneAtATime
  <2> SUFFICES ASSUME NEW i \in DOMAIN List, NEW k \in DOMAIN List, k < i,
                      Alive(Cur(i)), Alive(Cur(k))
               PROVE  CountedEarly(Cur(i))
    BY DEF OneAtATime, Cur
  <2>1. Popped(i) /\ Popped(k)
    BY <1>1 DEF ShotIInv, PushedInTurn, Alive, Running, None
  <2>2. sync.waiting # Cur(i)
    <3>1. /\ sync.waiting # NoJob => sync.waiting = Cur(sync.left + 1)
          /\ Cur(i) # NoJob /\ sync.left \in Nat /\ i \in Nat /\ k \in Nat /\ sync.left < k
      BY <1>1, <2>1, JobFacts DEF ShotIInv, ShotTypes, Run, PushedInTurn, Popped, Cur, NoJob
    <3>2. i # sync.left + 1
      BY <3>1
    <3> QED BY <3>1, <3>2 DEF Cur
  <2> QED BY <1>1, <2>1, <2>2 DEF ShotIInv, PushedInTurn, Settled, Alive, Running
<1> QED BY <1>1, ShotInvariance, PTL

\* When the run is done, every result had its job, or it was counted early
\* (screenshot_sync_task_runner.rb:33-66).
THEOREM NobodyIsForgotten == ShotSpec => []NoneForgotten
<1>1. ASSUME ShotIInv PROVE NoneForgotten
  <2> SUFFICES ASSUME sync.pc = "done", NEW i \in 1..bounds.results
               PROVE  Settled(Cur(i))
    BY DEF NoneForgotten, Settled, Cur
  <2>1. i \in DOMAIN List /\ Popped(i) /\ sync.waiting = NoJob
    BY <1>1, BoundsFacts, JobFacts DEF ShotIInv, PushedInTurn, Popped
  <2>2. Cur(i) # NoJob
    BY DEF Cur, NoJob
  <2> QED BY <1>1, <2>1, <2>2 DEF ShotIInv, PushedInTurn
<1> QED BY <1>1, ShotInvariance, PTL

\* However late Sketchy answers, a job costs one capture and one for each retry
\* each time that it is performed (result.rb:223-252).
THEOREM FewCaptures == ShotSpec => []CapturesAreFew
<1>1. ASSUME ShotIInv PROVE CapturesAreFew
  BY <1>1 DEF ShotIInv, AcceptedOncePerAttempt, AcceptedOnce, Allowed, CapturesOf, CapturesAreFew
<1> QED BY <1>1, ShotInvariance, PTL

\* Two Status tags come only from two callbacks at the same time
\* (results_controller.rb:701-711).
THEOREM OneTagUnlessOverlapped == ShotSpec => []OneStatusTag
<1>1. ASSUME ShotIInv PROVE OneStatusTag
  <2> SUFFICES ASSUME NEW r \in Results \ overlapped PROVE ~(Cardinality(tags[r]) > 1)
    BY DEF OneStatusTag
  <2>1. CASE tags[r] = {}
    BY <2>1, FS_EmptySet
  <2>2. CASE tags[r] # {}
    <3>1. PICK t \in tags[r] : TRUE
      BY <2>2
    <3>2. tags[r] = {t}
      BY <1>1, <3>1 DEF ShotIInv, TagInv, OneTag
    <3>3. Cardinality({t}) = 1
      BY FS_Singleton
    <3> QED BY <3>2, <3>3
  <2> QED BY <2>1, <2>2
<1> QED BY <1>1, ShotInvariance, PTL

\* Between callbacks the tag is the status code, unless it was disturbed
\* (results_controller.rb:687-711).
THEOREM TagTellsStatusCode == ShotSpec => []TagIsStatusCode
<1>1. ShotIInv => TagIsStatusCode
  BY DEF ShotIInv, TagInv
<1> QED BY <1>1, ShotInvariance, PTL

-----------------------------------------------------------------------------
(* Vulnerabilities: what update_vulnerabilities leaves, report by report.  *)

\* A set of numbers has a least one, because they are well ordered.
LEMMA Least ==
  ASSUME NEW D \in SUBSET Nat, D # {}
  PROVE  \E n \in D : \A k \in D : n <= k
<1>1. IsWellFoundedOn(OpToRel(<, Nat), Nat)
  BY NatLessThanWellFounded, Zenon
<1>2. PICK n \in D : \A k \in D : ~(<<k, n>> \in OpToRel(<, Nat))
  BY <1>1, WFMin, Zenon
<1>3. \A k \in D : ~(k < n)
  BY <1>2 DEF OpToRel
<1> QED BY <1>3

\* So an induction over the numbers is one over a set of them.
LEMMA Induction ==
  ASSUME NEW T, 0 \in T, \A n \in Nat : n \in T => n + 1 \in T
  PROVE  Nat \subseteq T
<1> SUFFICES ASSUME Nat \ T # {} PROVE FALSE
  OBVIOUS
<1>1. PICK n \in Nat \ T : \A k \in Nat \ T : n <= k
  BY Least
<1>2. n - 1 \in Nat /\ n - 1 \in T
  BY <1>1
<1> QED BY <1>2

\* The first of several duplicates is one of them.
LEMMA FirstOne ==
  ASSUME NEW D \in SUBSET Nat, D # {}
  PROVE  Min(D) \in D
BY Least DEF Min

\* f goes from start through T[0], T[1], ... in N steps, of which S[n] is the n-th.
Goes(f, start, S, T, N) ==
  /\ f = [n \in 0..N |-> f[n]] /\ f[0] = start
  /\ \A n \in 0..N : f[n] \in T[n]
  /\ \A n \in 1..N : f[n] = S[n][f[n - 1]]

\* What is defined step by step has a value.
LEMMA Stepwise ==
  ASSUME NEW N \in Nat, NEW T, NEW start \in T[0], NEW S,
         \A n \in 1..N : \A w \in T[n - 1] : S[n][w] \in T[n]
  PROVE  \E f : Goes(f, start, S, T, N)
<1> DEFINE D == {n \in Nat : n <= N => \E f : Goes(f, start, S, T, n)}
<1>1. \E f : Goes(f, start, S, T, 0)
  <2> DEFINE f == [k \in 0..0 |-> start]
  <2>1. /\ f = [n \in 0..0 |-> f[n]] /\ f[0] = start
        /\ \A n \in 0..0 : f[n] \in T[n]
        /\ \A k \in 1..0 : f[k] = S[k][f[k - 1]]
    OBVIOUS
  <2> QED BY <2>1 DEF Goes
<1>2. ASSUME NEW n \in Nat, n \in D PROVE n + 1 \in D
  <2> SUFFICES ASSUME n + 1 <= N PROVE \E f : Goes(f, start, S, T, n + 1)
    OBVIOUS
  <2>1. PICK f : Goes(f, start, S, T, n)
    BY <1>2
  <2> DEFINE g == [k \in 0..(n + 1) |-> IF k <= n THEN f[k] ELSE S[n + 1][f[n]]]
  <2>2. /\ f[0] = start /\ \A k \in 0..n : f[k] \in T[k]
        /\ \A k \in 1..n : f[k] = S[k][f[k - 1]]
    BY <2>1 DEF Goes
  <2>3. S[n + 1][f[n]] \in T[n + 1]
    <3>1. n + 1 \in 1..N /\ (n + 1) - 1 = n /\ n \in 0..n
      OBVIOUS
    <3>2. f[n] \in T[n]
      BY <2>2, <3>1
    <3> QED BY <3>1, <3>2
  <2>4. g = [k \in 0..(n + 1) |-> g[k]] /\ g[0] = start
    BY <2>2
  <2>5. \A k \in 0..(n + 1) : g[k] \in T[k]
    BY <2>2, <2>3
  <2>6. ASSUME NEW k \in 1..(n + 1) PROVE g[k] = S[k][g[k - 1]]
    <3>1. k - 1 \in 0..n /\ k - 1 <= n /\ g[k - 1] = f[k - 1]
      OBVIOUS
    <3>2. CASE k <= n
      BY <2>2, <3>1, <3>2
    <3>3. CASE k = n + 1
      BY <3>1, <3>3
    <3> QED BY <3>2, <3>3
  <2> HIDE DEF g
  <2>7. Goes(g, start, S, T, n + 1)
    BY <2>4, <2>5, <2>6 DEF Goes
  <2> QED BY <2>7
<1>3. 0 \in D
  BY <1>1
<1> HIDE DEF D
<1>4. Nat \subseteq D
  BY <1>2, <1>3, Induction
<1> QED BY <1>4 DEF D

\* What holds before the first report, and after each one if it did before it,
\* holds of the entries that update_vulnerabilities leaves.
LEMMA ReportByReport ==
  ASSUME NEW R, NEW reports \in Seq(R), NEW m, NEW task, NEW isolate, NEW T,
         Begun(m) \in T[0],
         \A n \in 1..Len(reports) : \A w \in T[n - 1] :
           Report(w, reports[n], task, isolate) \in T[n]
  PROVE  Update(m, reports, task, isolate) \in T[Len(reports)]
<1> DEFINE N == Len(reports)
           S == [n \in 1..N |-> [w \in T[n - 1] |-> Report(w, reports[n], task, isolate)]]
           after(f) == [n \in 0..N |-> IF n = 0 THEN Begun(m)
                                       ELSE Report(f[n - 1], reports[n], task, isolate)]
<1>1. N \in Nat
  OBVIOUS
<1>2. \A n \in 1..N : \A w \in T[n - 1] : /\ S[n][w] = Report(w, reports[n], task, isolate)
                                         /\ S[n][w] \in T[n]
  OBVIOUS
<1> HIDE DEF S, N
<1>3. PICK f : Goes(f, Begun(m), S, T, N)
  BY <1>1, <1>2, Stepwise, Zenon
<1>4. f = after(f)
  <2>1. f = [n \in 0..N |-> f[n]]
    BY <1>3 DEF Goes
  <2>2. \A n \in 0..N : f[n] = IF n = 0 THEN Begun(m)
                                ELSE Report(f[n - 1], reports[n], task, isolate)
    <3>1. \A n \in 0..N : n # 0 => n \in 1..N /\ n - 1 \in 0..N
      BY <1>1
    <3> QED BY <1>2, <1>3, <3>1 DEF Goes
  <2> HIDE DEF N
  <2> QED BY <2>1, <2>2
<1> DEFINE g == CHOOSE h : h = after(h)
           D == {n \in Nat : n <= N => g[n] \in T[n]}
<1>5. g = after(g)
  BY <1>4
<1>6. Update(m, reports, task, isolate) = g[N]
  BY DEF Update, N
<1> HIDE DEF g
<1>7. 0 \in D
  BY <1>1, <1>5
<1>8. ASSUME NEW n \in Nat, n \in D PROVE n + 1 \in D
  <2> SUFFICES ASSUME n + 1 <= N PROVE g[n + 1] \in T[n + 1]
    OBVIOUS
  <2>1. n + 1 \in 1..N /\ n + 1 \in 0..N /\ n + 1 # 0 /\ (n + 1) - 1 = n /\ g[n] \in T[n]
    BY <1>1, <1>8
  <2>2. g[n + 1] = Report(g[n], reports[n + 1], task, isolate)
    BY <1>5, <2>1
  <2> QED BY <1>2, <2>1, <2>2
<1> HIDE DEF D
<1>9. Nat \subseteq D
  BY <1>7, <1>8, Induction
<1> QED BY <1>1, <1>6, <1>9 DEF D, N

-----------------------------------------------------------------------------
Entries == [id : Nat, issue : Issues, task : Tasks \cup {NoTask}, status : Status,
            ticket : BOOLEAN, minor : BOOLEAN]
Tallies == [new : Nat, existing : Nat, regression : Nat, closed : Nat]
Works == [vulns : Seq(Entries), made : Nat, ids : SUBSET Nat, tally : Tallies]
AnyReports == [issue : Issues, ticket : BOOLEAN, minor : BOOLEAN]

\* Every entry has an id of its own out of the n that were drawn, and a status
\* that is known; a task has one entry of an issue.
OneEach(vs) ==
  \A i, j \in DOMAIN vs :
    vs[i].issue = vs[j].issue /\ vs[i].task = vs[j].task /\ vs[i].task \in Tasks => i = j
Orderly(vs, n) ==
  /\ vs \in Seq(Entries)
  /\ \A i \in DOMAIN vs : vs[i].status # "other" /\ vs[i].id \in 1..n
  /\ \A i, j \in DOMAIN vs : vs[i].id = vs[j].id => i = j
  /\ OneEach(vs)

\* The two things that a report does.
NewEntry(w, v, task) ==
  [id |-> w.made + 1, issue |-> v.issue, task |-> task,
   status |-> "new", ticket |-> v.ticket, minor |-> v.minor]
Again(e, v) == [e EXCEPT !.ticket = e.ticket \/ v.ticket,
                         !.status = Reopened(e, e.ticket \/ v.ticket)]
Adds(w, v, task) ==
  [vulns |-> Append(w.vulns, NewEntry(w, v, task)), made |-> w.made + 1,
   ids |-> w.ids \cup {w.made + 1}, tally |-> [w.tally EXCEPT !.new = @ + 1]]
Updates(w, v, i) ==
  [vulns |-> [w.vulns EXCEPT ![i] = Again(w.vulns[i], v)], made |-> w.made,
   ids |-> w.ids \cup {w.vulns[i].id},
   tally |-> [w.tally EXCEPT ![Tallied(w.vulns[i])] = @ + 1]]

\* Report does one of the two.
LEMMA ReportCases ==
  ASSUME NEW w \in Works, NEW v \in AnyReports, NEW task \in Tasks \cup {NoTask},
         NEW isolate \in BOOLEAN
  PROVE  LET u == Report(w, v, task, isolate)
             dups == Duplicates(w.vulns, v, task, isolate) IN
         \/ dups = {} /\ u = Adds(w, v, task)
         \/ \E i \in dups : u = Updates(w, v, i)
<1> DEFINE dups == Duplicates(w.vulns, v, task, isolate)
<1>1. w = [vulns |-> w.vulns, made |-> w.made, ids |-> w.ids, tally |-> w.tally]
  BY DEF Works
<1>2. CASE dups = {}
  BY <1>1, <1>2 DEF Report, Adds, NewEntry
<1>3. CASE dups # {}
  <2> DEFINE i == Min(dups)
  <2>1. dups \in SUBSET Nat
    BY DEF Duplicates, Works
  <2>2. i \in dups /\ i \in DOMAIN w.vulns
    BY <1>3, <2>1, FirstOne DEF Duplicates
  <2>3. w.vulns[i] \in Entries
    BY <2>2 DEF Works
  <2> HIDE DEF i
  <2>4. Report(w, v, task, isolate) = Updates(w, v, i)
    BY <1>1, <1>3, <2>2, <2>3 DEF Report, Updates, Again, i, Entries
  <2> QED BY <2>2, <2>4
<1> QED BY <1>2, <1>3

\* What a report leaves of an entry that it finds again.
LEMMA AgainFacts ==
  ASSUME NEW e \in Entries, NEW v \in AnyReports
  PROVE  /\ Again(e, v) \in Entries
         /\ Again(e, v).id = e.id /\ Again(e, v).issue = e.issue
         /\ Again(e, v).task = e.task /\ Again(e, v).minor = e.minor
         /\ Again(e, v).status \in {"ignored", "new", "ticketed"}
         /\ Again(e, v).status = "ignored" <=> e.status = "ignored"
BY DEF Again, Reopened, Entries, AnyReports, Status, Open, Closed

\* A tally counts on.
LEMMA TallyTypes ==
  ASSUME NEW t \in Tallies
  PROVE  /\ [t EXCEPT !.new = @ + 1] \in Tallies
         /\ \A e : [t EXCEPT ![Tallied(e)] = @ + 1] \in Tallies
BY DEF Tallies, Tallied

\* An entry more, with the next id.
LEMMA OneMore ==
  ASSUME NEW vs, NEW n \in Nat, Orderly(vs, n),
         NEW e \in Entries, e.id = n + 1, e.status # "other",
         \A i \in DOMAIN vs : ~(vs[i].issue = e.issue /\ vs[i].task = e.task /\ e.task \in Tasks)
  PROVE  Orderly(Append(vs, e), n + 1)
<1> DEFINE us == Append(vs, e)
<1>1. vs \in Seq(Entries)
  BY DEF Orderly
<1>2. /\ us \in Seq(Entries) /\ DOMAIN us = 1..(Len(vs) + 1) /\ DOMAIN vs = 1..Len(vs)
      /\ Len(vs) \in Nat
      /\ \A i \in DOMAIN vs : us[i] = vs[i]
      /\ us[Len(vs) + 1] = e
  BY <1>1
<1>3. /\ \A i \in DOMAIN vs : vs[i].status # "other" /\ vs[i].id \in 1..n
      /\ \A i, j \in DOMAIN vs : vs[i].id = vs[j].id => i = j
      /\ OneEach(vs)
  BY DEF Orderly
<1> HIDE DEF us
<1>4. \A i \in DOMAIN us : us[i].status # "other" /\ us[i].id \in 1..(n + 1)
  BY <1>2, <1>3
<1>5. \A i, j \in DOMAIN us : us[i].id = us[j].id => i = j
  BY <1>2, <1>3
<1>6. OneEach(us)
  BY <1>2, <1>3 DEF OneEach
<1> QED BY <1>2, <1>4, <1>5, <1>6 DEF Orderly, us

\* An entry is added only where there is no duplicate, so the entries stay in
\* order.
LEMMA AddsKeep ==
  ASSUME NEW w \in Works, NEW v \in AnyReports, NEW task \in Tasks \cup {NoTask},
         NEW isolate \in BOOLEAN, Orderly(w.vulns, w.made),
         Duplicates(w.vulns, v, task, isolate) = {}
  PROVE  Adds(w, v, task) \in Works /\ Orderly(Adds(w, v, task).vulns, w.made + 1)
<1> DEFINE e == NewEntry(w, v, task)
<1>1. w.vulns \in Seq(Entries) /\ w.made \in Nat /\ w.ids \in SUBSET Nat /\ w.tally \in Tallies
  BY DEF Works
<1>2. /\ e \in Entries /\ e.id = w.made + 1 /\ e.status = "new"
      /\ e.issue = v.issue /\ e.task = task
  BY <1>1 DEF NewEntry, Entries, AnyReports, Status, Open
<1>3. Append(w.vulns, e) \in Seq(Entries)
  BY <1>1, <1>2
<1>4. Adds(w, v, task) \in Works /\ Adds(w, v, task).vulns = Append(w.vulns, e)
  BY <1>1, <1>3, TallyTypes DEF Adds, Works
<1>5. \A i \in DOMAIN w.vulns : ~(w.vulns[i].issue = v.issue /\ w.vulns[i].task = task)
  BY DEF Duplicates
<1> HIDE DEF e
<1>6. Orderly(Append(w.vulns, e), w.made + 1)
  BY <1>1, <1>2, <1>5, OneMore
<1> QED BY <1>4, <1>6

\* Entries whose ids, issues and tasks do not change stay in order.
LEMMA SameEntries ==
  ASSUME NEW vs, NEW n \in Nat, NEW k \in Nat, Orderly(vs, n), n <= k,
         NEW us \in Seq(Entries), DOMAIN us = DOMAIN vs,
         \A i \in DOMAIN vs : /\ us[i].id = vs[i].id /\ us[i].issue = vs[i].issue
                              /\ us[i].task = vs[i].task /\ us[i].status # "other"
  PROVE  Orderly(us, k)
BY DEF Orderly, OneEach

\* An entry that is found again stays the same finding.
LEMMA UpdatesKeep ==
  ASSUME NEW w \in Works, NEW v \in AnyReports, NEW i \in DOMAIN w.vulns,
         Orderly(w.vulns, w.made)
  PROVE  Updates(w, v, i) \in Works /\ Orderly(Updates(w, v, i).vulns, w.made)
<1> DEFINE us == [w.vulns EXCEPT ![i] = Again(w.vulns[i], v)]
<1>1. w.vulns \in Seq(Entries) /\ w.made \in Nat /\ w.ids \in SUBSET Nat /\ w.tally \in Tallies
  BY DEF Works
<1>2. w.vulns[i] \in Entries
  BY <1>1
<1>3. us \in Seq(Entries) /\ DOMAIN us = DOMAIN w.vulns
  BY <1>1, <1>2, AgainFacts
<1>4. w.vulns[i].id \in Nat
  BY <1>2 DEF Entries
<1>5. Updates(w, v, i) \in Works
  BY <1>1, <1>3, <1>4, TallyTypes DEF Updates, Works
<1>6. \A k \in DOMAIN w.vulns :
        /\ us[k].id = w.vulns[k].id /\ us[k].issue = w.vulns[k].issue
        /\ us[k].task = w.vulns[k].task /\ us[k].status # "other"
  <2>1. \A k \in DOMAIN w.vulns : k # i => us[k] = w.vulns[k] /\ w.vulns[k].status # "other"
    BY DEF Orderly
  <2>2. us[i] = Again(w.vulns[i], v)
    BY <1>1
  <2> HIDE DEF us
  <2> QED BY <1>2, <2>1, <2>2, AgainFacts
<1>7. Updates(w, v, i).vulns = us
  BY DEF Updates
<1> HIDE DEF us
<1>8. Orderly(us, w.made)
  BY <1>1, <1>3, <1>6, SameEntries
<1> QED BY <1>5, <1>7, <1>8

\* What a normalised entry keeps.
LEMMA NormalFacts ==
  ASSUME NEW e \in Entries
  PROVE  /\ Normal(e) \in Entries
         /\ Normal(e).id = e.id /\ Normal(e).issue = e.issue
         /\ Normal(e).task = e.task /\ Normal(e).minor = e.minor
         /\ Normal(e).status # "other"
         /\ e.status \in Closed => Normal(e).status = e.status
         /\ e.status \notin Closed => Normal(e).status \in Open
BY DEF Normal, Entries, Status, Open, Closed

\* update_vulnerabilities starts with the entries normalised.
LEMMA BegunKeeps ==
  ASSUME NEW m, Orderly(m.vulns, made), made \in Nat
  PROVE  Begun(m) \in Works /\ Orderly(Begun(m).vulns, made) /\ Begun(m).made = made
<1> DEFINE vs == [i \in DOMAIN m.vulns |-> Normal(m.vulns[i])]
<1>1. m.vulns \in Seq(Entries)
  BY DEF Orderly
<1>2. \A i \in DOMAIN m.vulns : m.vulns[i] \in Entries
  BY <1>1
<1>3. vs \in Seq(Entries) /\ DOMAIN vs = DOMAIN m.vulns
  BY <1>1, <1>2, NormalFacts
<1>4. Orderly(vs, made)
  BY <1>2, <1>3, NormalFacts, SameEntries
<1>5. Begun(m) = [vulns |-> vs, made |-> made, ids |-> {}, tally |-> NoTally]
  BY DEF Begun
<1>6. NoTally \in Tallies
  BY DEF NoTally, Tallies
<1> HIDE DEF vs
<1> QED BY <1>3, <1>4, <1>5, <1>6 DEF Works

\* A report leaves the entries in order, in both cases.
LEMMA ReportKeeps ==
  ASSUME NEW w \in Works, Orderly(w.vulns, w.made), NEW v \in AnyReports,
         NEW task \in Tasks \cup {NoTask}, NEW isolate \in BOOLEAN
  PROVE  LET u == Report(w, v, task, isolate) IN
         u \in Works /\ Orderly(u.vulns, u.made) /\ u.made >= w.made
<1>1. CASE Duplicates(w.vulns, v, task, isolate) = {} /\ Report(w, v, task, isolate) = Adds(w, v, task)
  <2>1. Adds(w, v, task) \in Works /\ Orderly(Adds(w, v, task).vulns, w.made + 1)
    BY <1>1, AddsKeep
  <2>2. Adds(w, v, task).made = w.made + 1 /\ w.made \in Nat
    BY DEF Adds, Works
  <2> QED BY <1>1, <2>1, <2>2
<1>2. ASSUME NEW i \in Duplicates(w.vulns, v, task, isolate), Report(w, v, task, isolate) = Updates(w, v, i)
      PROVE  LET u == Report(w, v, task, isolate) IN
             u \in Works /\ Orderly(u.vulns, u.made) /\ u.made >= w.made
  <2>1. Updates(w, v, i).made = w.made /\ w.made \in Nat
    BY DEF Updates, Works
  <2> QED BY <1>2, <2>1, UpdatesKeep DEF Duplicates
<1> QED BY <1>1, <1>2, ReportCases

\* What update_vulnerabilities makes of entries in order is in order.
LEMMA UpdateKeeps ==
  ASSUME NEW m, Orderly(m.vulns, made), made \in Nat,
         NEW reports \in Seq(AnyReports), NEW task \in Tasks \cup {NoTask}, NEW isolate \in BOOLEAN
  PROVE  LET w == Update(m, reports, task, isolate) IN
         w \in Works /\ Orderly(w.vulns, w.made) /\ w.made >= made
<1> DEFINE W == {w \in Works : Orderly(w.vulns, w.made) /\ w.made >= made}
           T == [n \in Nat |-> W]
<1>1. Begun(m) \in W
  BY BegunKeeps
<1>2. ASSUME NEW w \in W, NEW v \in AnyReports PROVE Report(w, v, task, isolate) \in W
  <2> DEFINE u == Report(w, v, task, isolate)
  <2>1. u \in Works /\ Orderly(u.vulns, u.made) /\ u.made >= w.made
    BY ReportKeeps
  <2>2. w.made \in Nat /\ u.made \in Nat
    BY <2>1 DEF Works
  <2> HIDE DEF u
  <2>3. u \in W
    BY <2>1, <2>2
  <2> QED BY <2>3 DEF u
<1>3. \A n \in 1..Len(reports) : T[n] = W /\ T[n - 1] = W /\ reports[n] \in AnyReports
  OBVIOUS
<1>4. T[0] = W /\ T[Len(reports)] = W
  OBVIOUS
<1> HIDE DEF W, T
<1>5. \A n \in 1..Len(reports) : \A w \in T[n - 1] : Report(w, reports[n], task, isolate) \in T[n]
  BY <1>2, <1>3
<1>6. Update(m, reports, task, isolate) \in T[Len(reports)]
  BY <1>1, <1>4, <1>5, ReportByReport
<1> QED BY <1>4, <1>6 DEF W

-----------------------------------------------------------------------------
\* The entries that the cleaner keeps are some of those that there were.
Among(us, vs, k) ==
  /\ \A i \in DOMAIN us : \E p \in 1..k : us[i] = vs[p]
  /\ \A i, j \in DOMAIN us : us[i].id = us[j].id => i = j

\* Whether the next entry is kept or not, those that are stay among them.
LEMMA KeptOneMore ==
  ASSUME NEW vs, NEW n, Orderly(vs, n), NEW k \in DOMAIN vs,
         NEW us \in Seq(Entries), Among(us, vs, k - 1)
  PROVE  /\ us \in Seq(Entries) /\ Among(us, vs, k)
         /\ Append(us, vs[k]) \in Seq(Entries) /\ Among(Append(us, vs[k]), vs, k)
<1> DEFINE ws == Append(us, vs[k])
<1>1. /\ vs \in Seq(Entries) /\ vs[k] \in Entries /\ k \in Nat
      /\ \A i, j \in DOMAIN vs : vs[i].id = vs[j].id => i = j
  BY DEF Orderly
<1>2. /\ ws \in Seq(Entries) /\ DOMAIN ws = 1..(Len(us) + 1) /\ DOMAIN us = 1..Len(us)
      /\ Len(us) \in Nat
      /\ \A i \in DOMAIN us : ws[i] = us[i]
      /\ ws[Len(us) + 1] = vs[k]
  BY <1>1
<1> HIDE DEF ws
<1>3. \A i \in DOMAIN us : \E p \in 1..(k - 1) : us[i] = vs[p]
  BY DEF Among
<1>4. \A p \in 1..(k - 1) : p \in 1..k /\ p \in DOMAIN vs /\ p # k
  BY <1>1
<1>5. \A i \in DOMAIN us : us[i].id # vs[k].id
  BY <1>1, <1>3, <1>4
<1>6. k \in 1..k
  BY <1>1
<1>7. Among(us, vs, k)
  BY <1>3, <1>4 DEF Among
<1>8. \A i \in DOMAIN ws : \E p \in 1..k : ws[i] = vs[p]
  BY <1>2, <1>6, <1>7 DEF Among
<1>9. \A i, j \in DOMAIN ws : ws[i].id = ws[j].id => i = j
  BY <1>2, <1>5 DEF Among
<1> QED BY <1>2, <1>7, <1>8, <1>9 DEF Among, ws

\* So what the cleaner leaves are some of the entries, each once.
LEMMA WithoutAmong ==
  ASSUME NEW vs, NEW n, Orderly(vs, n), NEW task
  PROVE  Without(vs, task) \in Seq(Entries) /\ Among(Without(vs, task), vs, Len(vs))
<1> DEFINE N == Len(vs)
           T == [k \in 0..N |-> {us \in Seq(Entries) : Among(us, vs, k)}]
           Keep(us, k) == IF vs[k].task = task THEN us ELSE Append(us, vs[k])
           S == [k \in 1..N |-> [us \in T[k - 1] |-> Keep(us, k)]]
           kept(f) == [k \in 0..N |-> IF k = 0 THEN <<>>
                                      ELSE IF vs[k].task = task THEN f[k - 1]
                                           ELSE Append(f[k - 1], vs[k])]
<1>1. N \in Nat /\ DOMAIN vs = 1..N
  BY DEF Orderly
<1>2. <<>> \in T[0]
  BY <1>1 DEF Among
<1>3. \A k \in 1..N : \A us \in T[k - 1] : Keep(us, k) \in T[k]
  <2> SUFFICES ASSUME NEW k \in 1..N, NEW us \in T[k - 1] PROVE Keep(us, k) \in T[k]
    OBVIOUS
  <2>1. k - 1 \in 0..N /\ k \in 0..N /\ us \in Seq(Entries) /\ Among(us, vs, k - 1)
    BY <1>1
  <2> QED BY <1>1, <2>1, KeptOneMore
<1>4. \A k \in 1..N : \A us \in T[k - 1] : S[k][us] = Keep(us, k) /\ S[k][us] \in T[k]
  BY <1>3
<1> HIDE DEF S, T, N
<1>5. PICK f : Goes(f, <<>>, S, T, N)
  BY <1>1, <1>2, <1>4, Stepwise, Zenon
<1>6. f = kept(f)
  <2>1. f = [k \in 0..N |-> f[k]]
    BY <1>5 DEF Goes
  <2>2. \A k \in 0..N : f[k] = IF k = 0 THEN <<>>
                                ELSE IF vs[k].task = task THEN f[k - 1]
                                     ELSE Append(f[k - 1], vs[k])
    <3>1. \A k \in 0..N : k # 0 => k \in 1..N /\ k - 1 \in 0..N
      BY <1>1
    <3> QED BY <1>4, <1>5, <3>1 DEF Goes
  <2> QED BY <2>1, <2>2
<1> DEFINE g == CHOOSE h : h = kept(h)
           D == {k \in Nat : k <= N => g[k] \in T[k]}
<1>7. g = kept(g)
  BY <1>6
<1>8. Without(vs, task) = g[N]
  BY DEF Without, N
<1> HIDE DEF g
<1>9. 0 \in D
  BY <1>1, <1>2, <1>7
<1>10. ASSUME NEW k \in Nat, k \in D PROVE k + 1 \in D
  <2> SUFFICES ASSUME k + 1 <= N PROVE g[k + 1] \in T[k + 1]
    OBVIOUS
  <2>1. k + 1 \in 1..N /\ k + 1 \in 0..N /\ k + 1 # 0 /\ (k + 1) - 1 = k /\ g[k] \in T[k]
    BY <1>1, <1>10
  <2>2. g[k + 1] = Keep(g[k], k + 1)
    BY <1>7, <2>1
  <2> QED BY <1>3, <2>1, <2>2
<1> HIDE DEF D
<1>11. Nat \subseteq D
  BY <1>9, <1>10, Induction
<1>12. g[N] \in T[N]
  BY <1>1, <1>11 DEF D
<1> QED BY <1>1, <1>8, <1>12 DEF T, N

\* So they are in order.
LEMMA WithoutKeeps ==
  ASSUME NEW vs, NEW n, Orderly(vs, n), NEW task
  PROVE  Orderly(Without(vs, task), n)
<1> DEFINE us == Without(vs, task)
<1>1. us \in Seq(Entries) /\ Among(us, vs, Len(vs))
  BY WithoutAmong
<1>2. vs \in Seq(Entries)
  BY DEF Orderly
<1> HIDE DEF us
<1>3. \A i \in DOMAIN us : \E p \in DOMAIN vs : us[i] = vs[p]
  BY <1>1, <1>2 DEF Among
<1>4. \A i \in DOMAIN us : us[i].status # "other" /\ us[i].id \in 1..n
  BY <1>3 DEF Orderly
<1>5. \A i, j \in DOMAIN us : us[i].id = us[j].id => i = j
  BY <1>1 DEF Among
<1>6. OneEach(us)
  <2> SUFFICES ASSUME NEW i \in DOMAIN us, NEW j \in DOMAIN us,
                      us[i].issue = us[j].issue, us[i].task = us[j].task, us[i].task \in Tasks
               PROVE  i = j
    BY DEF OneEach
  <2>1. PICK p \in DOMAIN vs, q \in DOMAIN vs : us[i] = vs[p] /\ us[j] = vs[q]
    BY <1>3
  <2>2. p = q
    BY <2>1 DEF Orderly, OneEach
  <2> QED BY <1>5, <2>1, <2>2
<1> QED BY <1>1, <1>4, <1>5, <1>6 DEF Orderly, us

-----------------------------------------------------------------------------
(* Vulnerabilities: the inductive invariant.                               *)

\* A copy of the column, of which n ids were drawn: whoever loads it finds its
\* entries in order, and its counts true unless an entry was only appended.
AllCounts == {Counts(vs) : vs \in Seq(Entries)}
Columns == [vulns : Seq(Entries), listed : BOOLEAN, counts : AllCounts, appended : BOOLEAN]
Sound(c, n) ==
  /\ c \in Columns /\ Orderly(c.vulns, n)
  /\ c.listed \/ c.vulns = <<>>
  /\ c.appended \/ c.counts = Counts(c.vulns)

Copies == [stage : {"filling", "loaded"}, base : Columns, cached : BOOLEAN]
VulnIInv ==
  /\ setting \in Settings /\ made \in Nat
  /\ Sound(row, made)
  /\ cache # NotCached => Sound(cache, made)
  /\ op = [a \in Actors |-> op[a]]
  /\ \A a \in Actors : op[a].stage \in {"filling", "loaded"} =>
                         op[a] \in Copies /\ Sound(op[a].base, made)

\* A copy that is sound stays so while ids are drawn.
LEMMA SoundLater ==
  ASSUME NEW c, NEW n \in Nat, NEW k \in Nat, n <= k, Sound(c, n)
  PROVE  Sound(c, k)
BY DEF Sound, Orderly

\* A recount of entries in order is sound.
LEMMA RecountSound ==
  ASSUME NEW c \in Columns, NEW vs, NEW n, Orderly(vs, n)
  PROVE  Sound(Recount(c, vs), n) /\ Recount(c, vs).vulns = vs
<1> DEFINE k == Counts(vs)
<1>1. k \in AllCounts /\ vs \in Seq(Entries)
  BY DEF Orderly, AllCounts
<1>2. Recount(c, vs) = [c EXCEPT !.vulns = vs, !.listed = TRUE, !.counts = k, !.appended = FALSE]
  BY DEF Recount
<1> HIDE DEF k
<1>3. Recount(c, vs) = [vulns |-> vs, listed |-> TRUE, counts |-> k, appended |-> FALSE]
  BY <1>2 DEF Columns
<1>4. Recount(c, vs) \in Columns
  BY <1>1, <1>3 DEF Columns
<1> QED BY <1>3, <1>4 DEF Sound, k

SameFinding(e, f) == e.id = f.id /\ e.issue = f.issue /\ e.task = f.task

\* The callback puts the statuses in order before it counts.
LEMMA NormalisedSound ==
  ASSUME NEW vs, NEW n \in Nat, Orderly(vs, n), NEW m \in Columns, m.vulns \in Seq(Entries),
         DOMAIN m.vulns = DOMAIN vs, \A i \in DOMAIN vs : SameFinding(m.vulns[i], vs[i])
  PROVE  Sound(Recount(m, [i \in DOMAIN m.vulns |-> Normal(m.vulns[i])]), n)
<1> DEFINE us == [i \in DOMAIN m.vulns |-> Normal(m.vulns[i])]
<1>1. \A i \in DOMAIN m.vulns : m.vulns[i] \in Entries
  OBVIOUS
<1>2. us \in Seq(Entries) /\ DOMAIN us = DOMAIN vs
  BY <1>1, NormalFacts
<1>3. \A i \in DOMAIN vs : /\ us[i].id = vs[i].id /\ us[i].issue = vs[i].issue
                           /\ us[i].task = vs[i].task /\ us[i].status # "other"
  BY <1>1, NormalFacts DEF SameFinding
<1> HIDE DEF us
<1>4. Orderly(us, n)
  BY <1>2, <1>3, SameEntries
<1> QED BY <1>4, RecountSound DEF us

\* So the before_save callbacks leave a sound column.
LEMMA SavedSound ==
  ASSUME NEW base, NEW m, NEW n \in Nat, Sound(m, n)
  PROVE  Sound(BeforeSave(base, m), n)
<1>1. m.vulns \in Seq(Entries) /\ m \in Columns /\ Orderly(m.vulns, n)
  BY DEF Sound, Orderly
<1>2. Sound(Recount(m, [i \in DOMAIN m.vulns |-> Normal(m.vulns[i])]), n)
  BY <1>1, NormalisedSound DEF SameFinding
<1> QED BY <1>2 DEF BeforeSave

\* An edit that changes an entry is counted.
LEMMA EditSound ==
  ASSUME NEW base, NEW n \in Nat, Sound(base, n), NEW i \in DOMAIN base.vulns,
         NEW e \in Entries, SameFinding(e, base.vulns[i]),
         [base EXCEPT !.vulns = [base.vulns EXCEPT ![i] = e]] # base
  PROVE  Sound(BeforeSave(base, [base EXCEPT !.vulns = [base.vulns EXCEPT ![i] = e]]), n)
<1> DEFINE m == [base EXCEPT !.vulns = [base.vulns EXCEPT ![i] = e]]
<1>a. /\ base.vulns \in Seq(Entries) /\ base \in Columns
      /\ [base.vulns EXCEPT ![i] = e] \in Seq(Entries)
  BY DEF Sound, Orderly
<1>b. /\ m \in Columns /\ m.vulns = [base.vulns EXCEPT ![i] = e]
      /\ m.listed = base.listed /\ m.counts = base.counts /\ m.appended = base.appended
  BY <1>a DEF Columns
<1>1. base.vulns \in Seq(Entries) /\ base \in Columns /\ Orderly(base.vulns, n)
  BY DEF Sound, Orderly
<1>2. /\ m.vulns \in Seq(Entries) /\ DOMAIN m.vulns = DOMAIN base.vulns /\ m.vulns[i] = e
      /\ \A k \in DOMAIN base.vulns : k # i => m.vulns[k] = base.vulns[k]
  BY <1>1, <1>b
<1>3. base.listed
  BY <1>1 DEF Sound
<1>4. e # base.vulns[i]
  <2> SUFFICES ASSUME e = base.vulns[i] PROVE m = base
    OBVIOUS
  <2>1. m.vulns = base.vulns
    BY <1>1, <1>b
  <2> QED BY <1>1, <1>b, <2>1 DEF Columns
<1>5. base.vulns[i] \notin Range(m.vulns)
  <2> SUFFICES ASSUME NEW k \in DOMAIN base.vulns, m.vulns[k] = base.vulns[i] PROVE FALSE
    BY <1>2 DEF Range
  <2>1. CASE k = i
    BY <1>2, <1>4, <2>1
  <2>2. CASE k # i
    BY <1>1, <1>2, <2>2 DEF Orderly
  <2> QED BY <2>1, <2>2
<1>6. Changed(base, m)
  BY <1>5 DEF Changed, Range
<1>7. Sound(Recount(m, [k \in DOMAIN m.vulns |-> Normal(m.vulns[k])]), n)
  <2>1. \A k \in DOMAIN base.vulns : SameFinding(m.vulns[k], base.vulns[k])
    BY <1>2 DEF SameFinding
  <2> QED BY <1>1, <1>2, <1>b, <2>1, NormalisedSound
<1> QED BY <1>3, <1>6, <1>7 DEF BeforeSave

\* Remediating entries leaves them in order.
LEMMA ScannedKeeps ==
  ASSUME NEW w \in Works, Orderly(w.vulns, w.made), NEW task
  PROVE  Orderly(Scanned(w, task), w.made)
<1> DEFINE us == Scanned(w, task)
<1>1. w.vulns \in Seq(Entries) /\ w.made \in Nat /\ \A i \in DOMAIN w.vulns : w.vulns[i] \in Entries
  BY DEF Works
<1>2. DOMAIN us = DOMAIN w.vulns
      /\ \A i \in DOMAIN w.vulns :
           us[i] = IF Gone(w.vulns[i], task, w.ids)
                     THEN [w.vulns[i] EXCEPT !.status = "remediated"] ELSE w.vulns[i]
  BY DEF Scanned
<1>3. \A e \in Entries : LET r == [e EXCEPT !.status = "remediated"] IN
        r \in Entries /\ r.id = e.id /\ r.issue = e.issue /\ r.task = e.task /\ r.status # "other"
  BY DEF Entries, Status, Closed
<1>4. us = [i \in DOMAIN w.vulns |-> us[i]]
  BY DEF Scanned
<1> HIDE DEF us
<1>6. \A i \in DOMAIN w.vulns :
        /\ us[i] \in Entries /\ us[i].id = w.vulns[i].id /\ us[i].issue = w.vulns[i].issue
        /\ us[i].task = w.vulns[i].task /\ us[i].status # "other"
  <2> SUFFICES ASSUME NEW i \in DOMAIN w.vulns
               PROVE  /\ us[i] \in Entries /\ us[i].id = w.vulns[i].id
                      /\ us[i].issue = w.vulns[i].issue
                      /\ us[i].task = w.vulns[i].task /\ us[i].status # "other"
    OBVIOUS
  <2>1. w.vulns[i] \in Entries /\ w.vulns[i].status # "other"
    BY <1>1 DEF Orderly
  <2>2. us[i] \in {w.vulns[i], [w.vulns[i] EXCEPT !.status = "remediated"]}
    BY <1>2
  <2> QED BY <1>3, <2>1, <2>2
<1>7. us \in Seq(Entries)
  <2>1. us \in [DOMAIN w.vulns -> Entries]
    BY <1>4, <1>6
  <2>2. DOMAIN w.vulns = 1..Len(w.vulns) /\ Len(w.vulns) \in Nat
    BY <1>1
  <2> QED BY <2>1, <2>2, SeqDef
<1>5. Orderly(us, w.made)
  BY <1>1, <1>2, <1>6, <1>7, SameEntries
<1> QED BY <1>5 DEF us

\* What the actors report is of the types of the model.
LEMMA SettingFacts ==
  ASSUME setting \in Settings
  PROVE  /\ setting.tasks \subseteq Tasks
         /\ setting.traits \subseteq AnyTraits
         /\ Reports[setting] \subseteq AnyReports
         /\ ReportLists[setting] \subseteq Seq(AnyReports)
<1>1. /\ setting.tasks \in SUBSET Tasks /\ setting.traits \in SUBSET AnyTraits
      /\ setting.issues \in SUBSET Issues /\ setting.reports \in Nat
  BY VulnerabilitiesAssumption
<1>2. Reports[setting] \subseteq AnyReports
  BY <1>1 DEF Reports, AnyReports, AnyTraits
<1>3. ReportLists[setting] = SeqOf(Reports[setting], setting.reports)
  BY DEF ReportLists
<1> DEFINE R == Reports[setting]
<1>4. R \subseteq AnyReports
  BY <1>2
<1> HIDE DEF R
<1>5. SeqOf(R, setting.reports) \subseteq Seq(AnyReports)
  <2>1. \A k \in Nat : [1..k -> R] \subseteq Seq(AnyReports)
    <3> SUFFICES ASSUME NEW k \in Nat, NEW s \in [1..k -> R] PROVE s \in Seq(AnyReports)
      OBVIOUS
    <3>1. s \in [1..k -> AnyReports]
      BY <1>4
    <3> QED BY <3>1, SeqDef
  <2>2. 0..setting.reports \subseteq Nat
    OBVIOUS
  <2> QED BY <2>1, <2>2 DEF SeqOf
<1> QED BY <1>1, <1>2, <1>3, <1>5 DEF R

\* What a write does to the invariant, when what it writes is sound.
LEMMA WriteStep ==
  ASSUME VulnIInv, NEW a \in Actors, NEW m, NEW w, Write(a, m, w),
         made' \in Nat, made <= made',
         m # op[a].base => Sound(BeforeSave(op[a].base, m), made')
  PROVE  VulnIInv'
<1>1. setting' = setting /\ cache' = cache /\ setting \in Settings /\ made \in Nat
  BY DEF Write, VulnIInv
<1>2. op' = [op EXCEPT ![a] = [stage |-> "committed"]] /\ op = [b \in Actors |-> op[b]]
  BY DEF Write, VulnIInv
<1>3. Sound(row', made')
  BY <1>1, SoundLater DEF VulnIInv, Write
<1>4. cache # NotCached => Sound(cache, made')
  BY <1>1, SoundLater DEF VulnIInv
<1>5. op' = [b \in Actors |-> op'[b]]
  BY <1>2
<1>6. \A b \in Actors : op'[b].stage \in {"filling", "loaded"} =>
                          b # a /\ op'[b] = op[b]
  BY <1>2
<1>7. \A b \in Actors : op'[b].stage \in {"filling", "loaded"} =>
        op'[b] \in Copies /\ Sound(op'[b].base, made')
  BY <1>1, <1>6, SoundLater DEF VulnIInv
<1> QED BY <1>1, <1>3, <1>4, <1>5, <1>7 DEF VulnIInv

\* An actor that loaded holds a sound copy.
LEMMA LoadedSound ==
  ASSUME VulnIInv, NEW a \in Actors, NEW k, Loaded(a, k)
  PROVE  /\ Sound(op[a].base, made) /\ op[a].base \in Columns
         /\ Orderly(op[a].base.vulns, made)
BY DEF VulnIInv, Loaded, At, Sound, Copies

\* A scan writes entries in order, recounted.
LEMMA ScanStep ==
  ASSUME VulnIInv, NEW a \in Actors, Scan(a)
  PROVE  VulnIInv'
<1>1. PICK task \in setting.tasks, reports \in ReportLists[setting] :
        LET w == Update(op[a].base, reports, task, TRUE) IN
        /\ Loaded(a, "scan") /\ made' = w.made
        /\ Write(a, Recount(op[a].base, Scanned(w, task)),
                 [kind |-> "scan", task |-> task, issues |-> {v.issue : v \in Range(reports)},
                  tally |-> [w.tally EXCEPT !.closed = ClosedBy(w, task)]])
  BY DEF Scan
<1> DEFINE w == Update(op[a].base, reports, task, TRUE)
           m == Recount(op[a].base, Scanned(w, task))
           l == [kind |-> "scan", task |-> task, issues |-> {v.issue : v \in Range(reports)},
                 tally |-> [w.tally EXCEPT !.closed = ClosedBy(w, task)]]
<1>2. task \in Tasks /\ reports \in Seq(AnyReports) /\ made \in Nat
  BY SettingFacts DEF VulnIInv
<1>3. /\ Sound(op[a].base, made) /\ op[a].base \in Columns
      /\ Orderly(op[a].base.vulns, made)
  BY <1>1, LoadedSound
<1>4. w \in Works /\ Orderly(w.vulns, w.made) /\ w.made >= made
  BY <1>2, <1>3, UpdateKeeps
<1>5. made' = w.made /\ Write(a, m, l)
  BY <1>1
<1> HIDE DEF w, l
<1>6. w.made \in Nat
  BY <1>4 DEF Works
<1>7. Sound(m, w.made)
  BY <1>3, <1>4, ScannedKeeps, RecountSound
<1> HIDE DEF m
<1>8. Sound(BeforeSave(op[a].base, m), w.made)
  BY <1>6, <1>7, SavedSound
<1> QED BY <1>2, <1>4, <1>5, <1>6, <1>8, WriteStep

\* So does an analyzer.
LEMMA AnalyzeStep ==
  ASSUME VulnIInv, NEW a \in Actors, Analyze(a)
  PROVE  VulnIInv'
<1>1. PICK task \in setting.tasks, reports \in ReportLists[setting] :
        LET w == Update(op[a].base, reports, task, FALSE) IN
        /\ Loaded(a, "analyze") /\ made' = w.made
        /\ Write(a, Recount(op[a].base, w.vulns),
                 [kind |-> "analyze", task |-> task,
                  issues |-> {v.issue : v \in Range(reports)}, tally |-> w.tally])
  BY DEF Analyze
<1> DEFINE w == Update(op[a].base, reports, task, FALSE)
           m == Recount(op[a].base, w.vulns)
           l == [kind |-> "analyze", task |-> task,
                 issues |-> {v.issue : v \in Range(reports)}, tally |-> w.tally]
<1>2. task \in Tasks /\ reports \in Seq(AnyReports) /\ made \in Nat
  BY SettingFacts DEF VulnIInv
<1>3. /\ Sound(op[a].base, made) /\ op[a].base \in Columns
      /\ Orderly(op[a].base.vulns, made)
  BY <1>1, LoadedSound
<1>4. w \in Works /\ Orderly(w.vulns, w.made) /\ w.made >= made
  BY <1>2, <1>3, UpdateKeeps
<1>5. made' = w.made /\ Write(a, m, l)
  BY <1>1
<1> HIDE DEF w, l
<1>6. w.made \in Nat
  BY <1>4 DEF Works
<1>7. Sound(m, w.made)
  BY <1>3, <1>4, RecountSound
<1> HIDE DEF m
<1>8. Sound(BeforeSave(op[a].base, m), w.made)
  BY <1>6, <1>7, SavedSound
<1> QED BY <1>2, <1>4, <1>5, <1>6, <1>8, WriteStep

\* So does a person who enters a finding, out of a copy that may be cached.
LEMMA CreateStep ==
  ASSUME VulnIInv, NEW a \in Actors, Create(a)
  PROVE  VulnIInv'
<1>1. PICK v \in Reports[setting] :
        LET w == Update(op[a].base, <<v>>, NoTask, FALSE) IN
        /\ Loaded(a, "create") /\ made' = w.made
        /\ Write(a, Recount(op[a].base, w.vulns),
                 [kind |-> "create", task |-> NoTask, issues |-> {v.issue}, tally |-> w.tally])
  BY DEF Create
<1> DEFINE w == Update(op[a].base, <<v>>, NoTask, FALSE)
           m == Recount(op[a].base, w.vulns)
           l == [kind |-> "create", task |-> NoTask, issues |-> {v.issue}, tally |-> w.tally]
<1>2. <<v>> \in Seq(AnyReports) /\ made \in Nat
  BY SettingFacts DEF VulnIInv
<1>3. /\ Sound(op[a].base, made) /\ op[a].base \in Columns
      /\ Orderly(op[a].base.vulns, made)
  BY <1>1, LoadedSound
<1>4. w \in Works /\ Orderly(w.vulns, w.made) /\ w.made >= made
  BY <1>2, <1>3, UpdateKeeps
<1>5. made' = w.made /\ Write(a, m, l)
  BY <1>1
<1> HIDE DEF w, l
<1>6. w.made \in Nat
  BY <1>4 DEF Works
<1>7. Sound(m, w.made)
  BY <1>3, <1>4, RecountSound
<1> HIDE DEF m
<1>8. Sound(BeforeSave(op[a].base, m), w.made)
  BY <1>6, <1>7, SavedSound
<1> QED BY <1>2, <1>4, <1>5, <1>6, <1>8, WriteStep

\* So does a person who edits one, by the callbacks of the save.
LEMMA EditStep ==
  ASSUME VulnIInv, NEW a \in Actors, Edit(a)
  PROVE  VulnIInv'
<1> DEFINE base == op[a].base
           l == [Quiet EXCEPT !.kind = "edit"]
<1>1. /\ Sound(base, made) /\ base \in Columns /\ Orderly(base.vulns, made)
      /\ made \in Nat /\ made' = made
  BY LoadedSound DEF Edit, VulnIInv
<1>2. PICK i \in DOMAIN base.vulns :
        \/ \E s \in Status : Write(a, [base EXCEPT !.vulns[i].status = s], l)
        \/ \E t \in setting.traits :
             Write(a, [base EXCEPT !.vulns[i].minor = t.minor, !.vulns[i].ticket = t.ticket], l)
  BY DEF Edit
<1>3. base.vulns \in Seq(Entries) /\ base.vulns[i] \in Entries
  BY <1>1 DEF Columns
<1>4. ASSUME NEW e \in Entries, SameFinding(e, base.vulns[i]),
             Write(a, [base EXCEPT !.vulns = [base.vulns EXCEPT ![i] = e]], l)
      PROVE  VulnIInv'
  <2> DEFINE m == [base EXCEPT !.vulns = [base.vulns EXCEPT ![i] = e]]
  <2>1. m # base => Sound(BeforeSave(base, m), made)
    BY <1>1, <1>2, <1>4, EditSound
  <2>2. Write(a, m, l)
    BY <1>4
  <2> HIDE DEF m, l
  <2> QED BY <1>1, <2>1, <2>2, WriteStep
<1>5. ASSUME NEW s \in Status, Write(a, [base EXCEPT !.vulns[i].status = s], l)
      PROVE  VulnIInv'
  <2> DEFINE e == [base.vulns[i] EXCEPT !.status = s]
  <2>1. e \in Entries /\ SameFinding(e, base.vulns[i])
    BY <1>3 DEF Entries, SameFinding
  <2>2. [base EXCEPT !.vulns[i].status = s] = [base EXCEPT !.vulns = [base.vulns EXCEPT ![i] = e]]
    BY <1>1 DEF Columns
  <2> HIDE DEF e
  <2> QED BY <1>4, <1>5, <2>1, <2>2
<1>6. ASSUME NEW t \in setting.traits,
             Write(a, [base EXCEPT !.vulns[i].minor = t.minor, !.vulns[i].ticket = t.ticket], l)
      PROVE  VulnIInv'
  <2> DEFINE e == [base.vulns[i] EXCEPT !.minor = t.minor, !.ticket = t.ticket]
  <2>1. t \in AnyTraits
    BY SettingFacts DEF VulnIInv
  <2>2. e \in Entries /\ SameFinding(e, base.vulns[i])
    BY <1>3, <2>1 DEF Entries, AnyTraits, SameFinding
  <2>3. [base EXCEPT !.vulns[i].minor = t.minor, !.vulns[i].ticket = t.ticket]
          = [base EXCEPT !.vulns = [base.vulns EXCEPT ![i] = e]]
    BY <1>1, <1>3 DEF Columns
  <2> HIDE DEF e
  <2> QED BY <1>4, <1>6, <2>2, <2>3
<1> QED BY <1>2, <1>5, <1>6

\* Appending leaves the counts behind, which is noted.
LEMMA AppendStep ==
  ASSUME VulnIInv, NEW a \in Actors, AppendFinding(a)
  PROVE  VulnIInv'
<1> DEFINE base == op[a].base
           l == [Quiet EXCEPT !.kind = "append"]
<1>1. /\ Sound(base, made) /\ base \in Columns /\ Orderly(base.vulns, made)
      /\ made \in Nat /\ made' = made + 1
  BY LoadedSound DEF AppendFinding, VulnIInv
<1>2. PICK v \in Reports[setting] :
        Write(a, [base EXCEPT !.listed = TRUE, !.appended = TRUE,
                    !.vulns = Append(@, [id |-> made + 1, issue |-> v.issue, task |-> NoTask,
                      status |-> "new", ticket |-> v.ticket, minor |-> v.minor])], l)
  BY DEF AppendFinding
<1> DEFINE e == [id |-> made + 1, issue |-> v.issue, task |-> NoTask, status |-> "new",
                 ticket |-> v.ticket, minor |-> v.minor]
<1>3. v \in AnyReports
  BY SettingFacts DEF VulnIInv
<1>4. base.vulns \in Seq(Entries)
  BY <1>1 DEF Columns
<1>5. e \in Entries
  BY <1>1, <1>3 DEF Entries, AnyReports, Status, Open
<1> DEFINE us == Append(base.vulns, e)
           m == [base EXCEPT !.listed = TRUE, !.appended = TRUE, !.vulns = us]
<1>6. Write(a, m, l)
  BY <1>2
<1>7. Orderly(us, made + 1)
  <2>1. e.id = made + 1 /\ e.status = "new" /\ e.task \notin Tasks
    BY VulnerabilitiesAssumption
  <2> HIDE DEF e, base
  <2> QED BY <1>1, <1>5, <2>1, OneMore
<1>8. us \in Seq(Entries)
  BY <1>4, <1>5
<1> HIDE DEF us, l, e
<1>9. m \in Columns /\ m.vulns = us /\ m.listed = TRUE /\ m.appended = TRUE
  BY <1>1, <1>8 DEF Columns
<1> HIDE DEF m
<1>10. Sound(m, made + 1)
  BY <1>7, <1>9 DEF Sound
<1>11. Sound(BeforeSave(base, m), made + 1)
  BY <1>1, <1>10, SavedSound
<1> QED BY <1>1, <1>6, <1>11, WriteStep

\* The cleaner removes entries and recounts.
LEMMA CleanStep ==
  ASSUME VulnIInv, NEW a \in Actors, Clean(a)
  PROVE  VulnIInv'
<1> DEFINE base == op[a].base
           l == [Quiet EXCEPT !.kind = "clean"]
<1>1. /\ Sound(base, made) /\ base \in Columns /\ Orderly(base.vulns, made)
      /\ made \in Nat /\ made' = made
  BY LoadedSound DEF Clean, VulnIInv
<1>2. PICK task \in setting.tasks : Write(a, Recount(base, Without(base.vulns, task)), l)
  BY DEF Clean
<1> DEFINE m == Recount(base, Without(base.vulns, task))
<1>3. Sound(m, made)
  BY <1>1, WithoutKeeps, RecountSound
<1>4. Write(a, m, l)
  BY <1>2
<1> HIDE DEF m, l
<1>5. Sound(BeforeSave(base, m), made)
  BY <1>1, <1>3, SavedSound
<1> QED BY <1>1, <1>4, <1>5, WriteStep

\* Who only loads keeps a copy of what is sound.
LEMMA VulnStep ==
  ASSUME VulnIInv, [Next]_vars
  PROVE  VulnIInv'
<1>1. CASE UNCHANGED vars
  BY <1>1 DEF vars, VulnIInv
<1>2. row \in Columns /\ (cache # NotCached => cache \in Columns)
  BY DEF VulnIInv, Sound
<1>3. ASSUME NEW a \in Actors, NEW c, op' = [op EXCEPT ![a] = c], UNCHANGED <<setting, row, made>>,
             cache' \in {cache, NotCached} \/ Sound(cache', made),
             c.stage \in {"filling", "loaded"} => c \in Copies /\ Sound(c.base, made)
      PROVE  VulnIInv'
  <2>1. op'[a] = c /\ \A b \in Actors \ {a} : op'[b] = op[b]
    BY <1>3 DEF VulnIInv
  <2>2. op' = [b \in Actors |-> op'[b]]
    BY <1>3 DEF VulnIInv
  <2>3. \A b \in Actors : op'[b].stage \in {"filling", "loaded"} =>
                            op'[b] \in Copies /\ Sound(op'[b].base, made)
    BY <1>3, <2>1 DEF VulnIInv
  <2> QED BY <1>3, <2>2, <2>3 DEF VulnIInv
<1>4. ASSUME NEW a \in Actors, Load(a) PROVE VulnIInv'
  <2> DEFINE c == [stage |-> "loaded", base |-> row, cached |-> FALSE]
  <2>1. op' = [op EXCEPT ![a] = c] /\ UNCHANGED <<setting, row, cache, made>>
    BY <1>4 DEF Load
  <2>2. c \in Copies /\ Sound(c.base, made)
    BY <1>2 DEF Copies, VulnIInv
  <2> HIDE DEF c
  <2> QED BY <1>3, <2>1, <2>2
<1>5. ASSUME NEW a \in Actors, CachedFind(a) PROVE VulnIInv'
  <2> DEFINE c == IF cache = NotCached
                    THEN [stage |-> "filling", base |-> row, cached |-> TRUE]
                    ELSE [stage |-> "loaded", base |-> cache, cached |-> TRUE]
  <2>1. op' = [op EXCEPT ![a] = c] /\ UNCHANGED <<setting, row, cache, made>>
    BY <1>5 DEF CachedFind
  <2>2. c \in Copies /\ Sound(c.base, made)
    BY <1>2 DEF Copies, VulnIInv
  <2> HIDE DEF c
  <2> QED BY <1>3, <2>1, <2>2
<1>6. ASSUME NEW a \in Actors, FillCache(a) PROVE VulnIInv'
  <2> DEFINE c == [op[a] EXCEPT !.stage = "loaded"]
  <2>1. /\ op[a].stage = "filling" /\ cache' = op[a].base
        /\ op' = [op EXCEPT ![a].stage = "loaded"] /\ UNCHANGED <<setting, row, made>>
    BY <1>6 DEF FillCache, At
  <2>2. op[a] \in Copies /\ Sound(op[a].base, made)
    BY <2>1 DEF VulnIInv
  <2>3. c \in Copies /\ c.base = op[a].base
    BY <2>2 DEF Copies
  <2>4. op' = [op EXCEPT ![a] = c]
    BY <2>1
  <2> HIDE DEF c
  <2> QED BY <1>3, <2>1, <2>2, <2>3, <2>4
<1>7. ASSUME NEW a \in Actors, Flush(a) \/ Abandon(a) PROVE VulnIInv'
  <2>1. /\ op' = [op EXCEPT ![a] = Idle] /\ UNCHANGED <<setting, row, made>>
        /\ cache' \in {cache, NotCached}
    BY <1>7 DEF Flush, Abandon, Flushed
  <2>2. Idle.stage = "idle"
    BY DEF Idle
  <2> QED BY <1>3, <2>1, <2>2
<1> QED BY <1>1, <1>4, <1>5, <1>6, <1>7, ScanStep, AnalyzeStep, CreateStep, EditStep,
           AppendStep, CleanStep DEF Next, Step

\* An empty column is sound.
LEMMA VulnInitHolds == Init => VulnIInv
<1> SUFFICES ASSUME Init PROVE VulnIInv
  OBVIOUS
<1>1. <<>> \in Seq(Entries) /\ Orderly(<<>>, 0)
  BY DEF Orderly, OneEach
<1>2. Sound(Empty, 0)
  <2> DEFINE k == Counts(<<>>)
  <2>1. k \in AllCounts
    BY <1>1 DEF AllCounts
  <2>2. Empty = [vulns |-> <<>>, listed |-> FALSE, counts |-> k, appended |-> FALSE]
    BY DEF Empty
  <2> HIDE DEF k
  <2>3. Empty \in Columns
    BY <1>1, <2>1, <2>2 DEF Columns
  <2> QED BY <1>1, <2>2, <2>3 DEF Sound, k
<1> QED BY <1>2 DEF Init, VulnIInv, Idle

\* Every copy of the column that an actor, the cache or the row holds is sound,
\* whoever wrote it (vulnerability_helpers.rb:59-71, 293-352).
THEOREM VulnInvariance == Spec => []VulnIInv
BY VulnInitHolds, VulnStep, PTL DEF Spec

\* vulnerability_helpers.rb:59-71: whoever wrote last, the counts in the column
\* are those of its entries, and it has no status that is not known.
THEOREM CountsAreTrue == Spec => []CountsMatch
<1>1. VulnIInv => CountsMatch
  BY DEF VulnIInv, Sound, Orderly, CountsMatch, Range
<1> QED BY <1>1, VulnInvariance, PTL

\* vulnerability_helpers.rb:413-474: a task has one entry of an issue.
THEOREM FindingsAreNotRepeated == Spec => []OneEntryPerFinding
<1>1. VulnIInv => OneEntryPerFinding
  BY DEF VulnIInv, Sound, Orderly, OneEach, OneEntryPerFinding
<1> QED BY <1>1, VulnInvariance, PTL

-----------------------------------------------------------------------------
(* What the reports of a job or a request make of the entries vs that it   *)
(* loaded.                                                                 *)

Touched == {"ignored", "new", "ticketed"}
Found(e, w) == e.id \in w.ids
Returned(vs, w) == {i \in DOMAIN vs : vs[i].status = "remediated" /\ Found(w.vulns[i], w)}
Stays(e, f) == SameFinding(e, f) /\ (e.status = "ignored" <=> f.status = "ignored")

\* Entries keep their places, and the decisions about them; those that are found
\* are open or ignored, the others are as they were.  The tally counts both.
Traced(vs, w) ==
  /\ Len(vs) <= Len(w.vulns) /\ w.tally.new = Len(w.vulns) - Len(vs) /\ w.tally.closed = 0
  /\ \A i \in DOMAIN vs : Stays(w.vulns[i], vs[i])
  /\ \A i \in DOMAIN vs : Found(w.vulns[i], w) \/ w.vulns[i] = Normal(vs[i])
  /\ \A i \in DOMAIN w.vulns : Found(w.vulns[i], w) => w.vulns[i].status \in Touched
  /\ \A i \in DOMAIN w.vulns : i \in DOMAIN vs \/ Found(w.vulns[i], w)
  /\ w.tally.regression = Cardinality(Returned(vs, w))

\* It holds before the first report,
LEMMA TracedBegun ==
  ASSUME NEW m, Orderly(m.vulns, made), made \in Nat
  PROVE  Traced(m.vulns, Begun(m))
<1> DEFINE vs == m.vulns
           us == [i \in DOMAIN vs |-> Normal(vs[i])]
<1>1. vs \in Seq(Entries) /\ \A i \in DOMAIN vs : vs[i] \in Entries
  BY DEF Orderly
<1>2. us \in Seq(Entries) /\ DOMAIN us = DOMAIN vs /\ Len(us) = Len(vs)
      /\ \A i \in DOMAIN vs : us[i] = Normal(vs[i])
  BY <1>1, NormalFacts
<1>3. \A i \in DOMAIN vs : Stays(us[i], vs[i])
  <2> SUFFICES ASSUME NEW i \in DOMAIN vs PROVE Stays(Normal(vs[i]), vs[i])
    BY <1>2
  <2> QED BY <1>1, NormalFacts DEF Stays, SameFinding, Closed, Open
<1>4. Begun(m) = [vulns |-> us, made |-> made, ids |-> {}, tally |-> NoTally]
  BY DEF Begun
<1> HIDE DEF us
<1>5. /\ Begun(m).vulns = us /\ Begun(m).tally.new = 0 /\ Begun(m).tally.closed = 0
      /\ Begun(m).tally.regression = 0 /\ Begun(m).ids = {}
  BY <1>4 DEF NoTally
<1>6. Returned(vs, Begun(m)) = {}
  BY <1>5 DEF Returned, Found
<1>7. Len(vs) \in Nat
  BY <1>1
<1> QED BY <1>2, <1>3, <1>5, <1>6, <1>7, FS_EmptySet DEF Traced, Found

\* after an entry is added,
LEMMA TracedAdds ==
  ASSUME NEW vs \in Seq(Entries), NEW w \in Works, Orderly(w.vulns, w.made), Traced(vs, w),
         NEW v \in AnyReports, NEW task \in Tasks \cup {NoTask}
  PROVE  Traced(vs, Adds(w, v, task))
<1> DEFINE u == Adds(w, v, task)
           e == NewEntry(w, v, task)
<1>1. w.vulns \in Seq(Entries) /\ w.made \in Nat /\ w.ids \in SUBSET Nat /\ w.tally \in Tallies
  BY DEF Works
<1>2. e \in Entries /\ e.id = w.made + 1 /\ e.status = "new"
  BY <1>1 DEF NewEntry, Entries, AnyReports, Status, Open
<1>3. /\ u.vulns = Append(w.vulns, e) /\ u.ids = w.ids \cup {w.made + 1}
      /\ u.tally.new = w.tally.new + 1 /\ u.tally.closed = w.tally.closed
      /\ u.tally.regression = w.tally.regression
  BY <1>1 DEF Adds, Tallies
<1> HIDE DEF u, e
<1>4. /\ Len(vs) \in Nat /\ Len(w.vulns) \in Nat /\ Len(u.vulns) = Len(w.vulns) + 1
      /\ DOMAIN vs = 1..Len(vs) /\ DOMAIN w.vulns = 1..Len(w.vulns)
      /\ DOMAIN u.vulns = 1..(Len(w.vulns) + 1)
      /\ \A i \in DOMAIN w.vulns : u.vulns[i] = w.vulns[i]
      /\ u.vulns[Len(w.vulns) + 1] = e
  BY <1>1, <1>2, <1>3
<1>5. DOMAIN vs \subseteq DOMAIN w.vulns
  BY <1>4 DEF Traced
<1>6. \A i \in DOMAIN w.vulns : Found(u.vulns[i], u) <=> Found(w.vulns[i], w)
  BY <1>1, <1>3, <1>4 DEF Orderly, Found
<1>7. Found(e, u)
  BY <1>2, <1>3 DEF Found
<1>8. Returned(vs, u) = Returned(vs, w)
  BY <1>5, <1>6 DEF Returned
<1>9. w.tally.new \in Nat
  BY <1>1 DEF Tallies
<1>10. Len(vs) <= Len(u.vulns) /\ u.tally.new = Len(u.vulns) - Len(vs) /\ u.tally.closed = 0
  BY <1>3, <1>4 DEF Traced
<1>11. \A i \in DOMAIN vs : Stays(u.vulns[i], vs[i])
  BY <1>4, <1>5 DEF Traced
<1>12. \A i \in DOMAIN vs : Found(u.vulns[i], u) \/ u.vulns[i] = Normal(vs[i])
  BY <1>4, <1>5, <1>6 DEF Traced
<1>13. \A i \in DOMAIN u.vulns : i \in DOMAIN w.vulns \/ u.vulns[i] = e
  BY <1>4
<1>14. \A i \in DOMAIN u.vulns : Found(u.vulns[i], u) => u.vulns[i].status \in Touched
  BY <1>2, <1>4, <1>6, <1>13 DEF Traced, Touched
<1>15. \A i \in DOMAIN u.vulns : i \in DOMAIN vs \/ Found(u.vulns[i], u)
  BY <1>6, <1>7, <1>13 DEF Traced
<1> QED BY <1>3, <1>8, <1>10, <1>11, <1>12, <1>14, <1>15 DEF Traced, u

\* and after one is found again.
LEMMA TracedUpdates ==
  ASSUME NEW vs \in Seq(Entries), NEW w \in Works, Orderly(w.vulns, w.made), Traced(vs, w),
         NEW v \in AnyReports, NEW i \in DOMAIN w.vulns
  PROVE  Traced(vs, Updates(w, v, i))
<1> DEFINE u == Updates(w, v, i)
           e == w.vulns[i]
           f == Again(e, v)
<1>1. w.vulns \in Seq(Entries) /\ w.made \in Nat /\ w.ids \in SUBSET Nat /\ w.tally \in Tallies
  BY DEF Works
<1>2. e \in Entries
  BY <1>1
<1>3. /\ f \in Entries /\ Stays(f, e) /\ f.id = e.id /\ f.status \in Touched
  BY <1>2, AgainFacts DEF Stays, SameFinding, Touched
<1>4. /\ u.vulns = [w.vulns EXCEPT ![i] = f] /\ u.ids = w.ids \cup {e.id}
      /\ u.tally = [w.tally EXCEPT ![Tallied(e)] = @ + 1]
  BY DEF Updates
<1>5. /\ u.tally.new = w.tally.new /\ u.tally.closed = w.tally.closed
      /\ u.tally.regression = IF e.status = "remediated" THEN w.tally.regression + 1
                                                         ELSE w.tally.regression
  BY <1>1, <1>4 DEF Tallies, Tallied
<1> HIDE DEF u, f
<1>6. /\ Len(vs) \in Nat /\ Len(w.vulns) \in Nat /\ Len(u.vulns) = Len(w.vulns)
      /\ DOMAIN vs = 1..Len(vs) /\ DOMAIN w.vulns = 1..Len(w.vulns)
      /\ DOMAIN u.vulns = DOMAIN w.vulns
      /\ \A k \in DOMAIN w.vulns : k # i => u.vulns[k] = w.vulns[k]
      /\ u.vulns[i] = f
  BY <1>1, <1>3, <1>4
<1>7. DOMAIN vs \subseteq DOMAIN w.vulns
  BY <1>6 DEF Traced
<1>8. \A k \in DOMAIN w.vulns : k # i => (Found(u.vulns[k], u) <=> Found(w.vulns[k], w))
  BY <1>1, <1>4, <1>6 DEF Orderly, Found
<1>9. Found(u.vulns[i], u)
  BY <1>3, <1>4, <1>6 DEF Found
<1>10. Len(vs) <= Len(u.vulns) /\ u.tally.new = Len(u.vulns) - Len(vs) /\ u.tally.closed = 0
  BY <1>5, <1>6 DEF Traced
<1>11. \A k \in DOMAIN vs : Stays(u.vulns[k], vs[k])
  BY <1>3, <1>6, <1>7 DEF Traced, Stays, SameFinding
<1>12. \A k \in DOMAIN vs : Found(u.vulns[k], u) \/ u.vulns[k] = Normal(vs[k])
  BY <1>6, <1>7, <1>8, <1>9 DEF Traced
<1>13. \A k \in DOMAIN u.vulns : Found(u.vulns[k], u) => u.vulns[k].status \in Touched
  BY <1>3, <1>6, <1>8 DEF Traced
<1>14. \A k \in DOMAIN u.vulns : k \in DOMAIN vs \/ Found(u.vulns[k], u)
  BY <1>6, <1>8, <1>9 DEF Traced
<1>15. u.tally.regression = Cardinality(Returned(vs, u))
  <2>1. \A k \in DOMAIN vs : vs[k] \in Entries
    OBVIOUS
  <2>2. IsFiniteSet(Returned(vs, w))
    <3>1. 1 \in Int /\ Len(vs) \in Int
      BY <1>6
    <3>2. IsFiniteSet(1..Len(vs))
      BY <3>1, FS_Interval, Zenon
    <3>3. Returned(vs, w) \subseteq 1..Len(vs)
      BY <1>6 DEF Returned
    <3> QED BY <3>2, <3>3, FS_Subset, Zenon
  <2>3. CASE e.status = "remediated"
    <3>1. ~Found(e, w) /\ i \in DOMAIN vs
      BY <2>3 DEF Traced, Touched
    <3>2. vs[i].status = "remediated"
      <4>1. e = Normal(vs[i])
        BY <3>1 DEF Traced
      <4> QED BY <2>1, <2>3, <3>1, <4>1, NormalFacts DEF Open, Closed, Status, Entries
    <3>3. Returned(vs, u) = Returned(vs, w) \cup {i} /\ i \notin Returned(vs, w)
      BY <1>7, <1>8, <1>9, <3>1, <3>2 DEF Returned
    <3>4. Cardinality(Returned(vs, w) \cup {i}) = Cardinality(Returned(vs, w)) + 1
      BY <2>2, <3>3, FS_AddElement
    <3> QED BY <1>5, <2>3, <3>3, <3>4 DEF Traced
  <2>4. CASE e.status # "remediated"
    <3>1. i \in DOMAIN vs /\ ~Found(e, w) => vs[i].status # "remediated"
      <4> SUFFICES ASSUME i \in DOMAIN vs, ~Found(e, w), vs[i].status = "remediated" PROVE FALSE
        OBVIOUS
      <4>1. e = Normal(vs[i])
        BY DEF Traced
      <4> QED BY <2>1, <2>4, <4>1, NormalFacts DEF Closed
    <3>2. Returned(vs, u) = Returned(vs, w)
      BY <1>7, <1>8, <1>9, <3>1 DEF Returned
    <3> QED BY <1>5, <2>4, <3>2 DEF Traced
  <2> QED BY <2>3, <2>4
<1> QED BY <1>10, <1>11, <1>12, <1>13, <1>14, <1>15 DEF Traced, u

\* A report finds an entry of its issue, and no entry of another.
For(e, v, task, isolate) == e.issue = v.issue /\ (isolate => e.task = task)
Finds(u, w, v, task, isolate) ==
  /\ DOMAIN w.vulns \subseteq DOMAIN u.vulns
  /\ \A k \in DOMAIN w.vulns : /\ SameFinding(u.vulns[k], w.vulns[k])
                               /\ Found(w.vulns[k], w) => Found(u.vulns[k], u)
  /\ \E i \in DOMAIN u.vulns : Found(u.vulns[i], u) /\ For(u.vulns[i], v, task, isolate)
  /\ \A k \in DOMAIN u.vulns : Found(u.vulns[k], u) =>
       u.vulns[k].issue = v.issue \/ (k \in DOMAIN w.vulns /\ Found(w.vulns[k], w))

\* Report finds the entry of its finding, and no other.
LEMMA ReportFinds ==
  ASSUME NEW w \in Works, Orderly(w.vulns, w.made), NEW v \in AnyReports,
         NEW task \in Tasks \cup {NoTask}, NEW isolate \in BOOLEAN
  PROVE  Finds(Report(w, v, task, isolate), w, v, task, isolate)
<1> DEFINE u == Report(w, v, task, isolate)
<1> SUFFICES Finds(u, w, v, task, isolate)
  OBVIOUS
<1> HIDE DEF u
<1>1. w.vulns \in Seq(Entries) /\ w.made \in Nat /\ w.ids \in SUBSET Nat /\ w.tally \in Tallies
  BY DEF Works
<1>2. CASE u = Adds(w, v, task)
  <2> DEFINE e == NewEntry(w, v, task)
  <2>1. e \in Entries /\ e.id = w.made + 1 /\ For(e, v, task, isolate)
    BY <1>1 DEF NewEntry, Entries, AnyReports, Status, Open, For
  <2>2. u.vulns = Append(w.vulns, e) /\ u.ids = w.ids \cup {w.made + 1}
    BY <1>2 DEF Adds
  <2> HIDE DEF e
  <2>3. /\ Len(w.vulns) \in Nat /\ DOMAIN w.vulns = 1..Len(w.vulns)
        /\ DOMAIN u.vulns = 1..(Len(w.vulns) + 1)
        /\ \A i \in DOMAIN w.vulns : u.vulns[i] = w.vulns[i]
        /\ u.vulns[Len(w.vulns) + 1] = e
    BY <1>1, <2>1, <2>2
  <2>4. \A i \in DOMAIN w.vulns : Found(u.vulns[i], u) <=> Found(w.vulns[i], w)
    BY <1>1, <2>2, <2>3 DEF Orderly, Found
  <2>5. \A i \in DOMAIN u.vulns : i \in DOMAIN w.vulns \/ u.vulns[i] = e
    BY <2>3
  <2>6. Found(e, u)
    BY <2>1, <2>2 DEF Found
  <2>7. \A k \in DOMAIN w.vulns : SameFinding(u.vulns[k], w.vulns[k])
    BY <2>3 DEF SameFinding
  <2>8. Len(w.vulns) + 1 \in DOMAIN u.vulns /\ DOMAIN w.vulns \subseteq DOMAIN u.vulns
    BY <2>3
  <2>9. \E i \in DOMAIN u.vulns : Found(u.vulns[i], u) /\ For(u.vulns[i], v, task, isolate)
    BY <2>1, <2>3, <2>6, <2>8
  <2>10. \A k \in DOMAIN u.vulns : Found(u.vulns[k], u) =>
           u.vulns[k].issue = v.issue \/ (k \in DOMAIN w.vulns /\ Found(w.vulns[k], w))
    BY <2>1, <2>4, <2>5 DEF For
  <2>11. \A k \in DOMAIN w.vulns : Found(w.vulns[k], w) => Found(u.vulns[k], u)
    BY <2>4
  <2> QED BY <2>7, <2>8, <2>9, <2>10, <2>11 DEF Finds
<1>3. ASSUME NEW i \in Duplicates(w.vulns, v, task, isolate), u = Updates(w, v, i)
      PROVE  Finds(u, w, v, task, isolate)
  <2> DEFINE f == Again(w.vulns[i], v)
  <2>1. i \in DOMAIN w.vulns /\ For(w.vulns[i], v, task, isolate)
    BY <1>3 DEF Duplicates, For
  <2>2. w.vulns[i] \in Entries
    BY <1>1, <2>1
  <2>3. f \in Entries /\ SameFinding(f, w.vulns[i])
    BY <2>2, AgainFacts DEF SameFinding
  <2>4. u.vulns = [w.vulns EXCEPT ![i] = f] /\ u.ids = w.ids \cup {w.vulns[i].id}
    BY <1>3 DEF Updates
  <2> HIDE DEF f
  <2>5. /\ DOMAIN u.vulns = DOMAIN w.vulns /\ u.vulns[i] = f
        /\ \A k \in DOMAIN w.vulns : k # i => u.vulns[k] = w.vulns[k]
    BY <1>1, <2>1, <2>4
  <2>6. \A k \in DOMAIN w.vulns : k # i => (Found(u.vulns[k], u) <=> Found(w.vulns[k], w))
    BY <2>1, <2>4, <2>5 DEF Orderly, Found
  <2>7. Found(u.vulns[i], u) /\ For(u.vulns[i], v, task, isolate)
    BY <2>1, <2>3, <2>4, <2>5 DEF Found, SameFinding, For
  <2>8. \A k \in DOMAIN w.vulns : SameFinding(u.vulns[k], w.vulns[k])
    BY <2>3, <2>5 DEF SameFinding
  <2> QED BY <2>1, <2>5, <2>6, <2>7, <2>8 DEF For, Finds
<1> QED BY <1>2, <1>3, ReportCases DEF u

\* The entries that n reports found are those of their issues.
Answers(w, reports, n, task, isolate) ==
  /\ \A k \in 1..n : \E i \in DOMAIN w.vulns :
       Found(w.vulns[i], w) /\ For(w.vulns[i], reports[k], task, isolate)
  /\ \A i \in DOMAIN w.vulns : Found(w.vulns[i], w) =>
       \E k \in 1..n : w.vulns[i].issue = reports[k].issue

\* What update_vulnerabilities makes of entries in order.
LEMMA UpdateTraced ==
  ASSUME NEW m, Orderly(m.vulns, made), made \in Nat,
         NEW reports \in Seq(AnyReports), NEW task \in Tasks \cup {NoTask}, NEW isolate \in BOOLEAN
  PROVE  LET w == Update(m, reports, task, isolate) IN
         Traced(m.vulns, w) /\ Answers(w, reports, Len(reports), task, isolate)
<1> DEFINE vs == m.vulns
           W == {w \in Works : Orderly(w.vulns, w.made) /\ Traced(vs, w)}
           T == [n \in Nat |-> {w \in W : Answers(w, reports, n, task, isolate)}]
<1>1. vs \in Seq(Entries)
  BY DEF Orderly
<1>2. Begun(m) \in W /\ Answers(Begun(m), reports, 0, task, isolate)
  <2>1. Begun(m).ids = {}
    BY DEF Begun
  <2> QED BY <2>1, BegunKeeps, TracedBegun DEF Answers, Found
<1>3. ASSUME NEW n \in 1..Len(reports), NEW w \in W, Answers(w, reports, n - 1, task, isolate)
      PROVE  LET u == Report(w, reports[n], task, isolate) IN
             u \in W /\ Answers(u, reports, n, task, isolate)
  <2> DEFINE u == Report(w, reports[n], task, isolate)
  <2>1. reports[n] \in AnyReports
    OBVIOUS
  <2>2. w \in Works /\ Orderly(w.vulns, w.made) /\ Traced(vs, w)
    OBVIOUS
  <2>3. u \in Works /\ Orderly(u.vulns, u.made)
    BY <2>1, <2>2, ReportKeeps
  <2>4. Traced(vs, u)
    <3>1. \A i \in Duplicates(w.vulns, reports[n], task, isolate) : i \in DOMAIN w.vulns
      BY DEF Duplicates
    <3> QED BY <1>1, <2>1, <2>2, <3>1, ReportCases, TracedAdds, TracedUpdates
  <2>5. Finds(u, w, reports[n], task, isolate)
    BY <2>1, <2>2, ReportFinds
  <2> HIDE DEF u
  <2> HIDE DEF W
  <2>6. Answers(u, reports, n, task, isolate)
    <3>1. \A k \in 1..n : k = n \/ k \in 1..(n - 1)
      OBVIOUS
    <3>2. \A k \in 1..(n - 1) : k \in 1..n
      OBVIOUS
    <3>3. n \in 1..n
      OBVIOUS
    <3>4. \A k \in 1..n : \E i \in DOMAIN u.vulns :
            Found(u.vulns[i], u) /\ For(u.vulns[i], reports[k], task, isolate)
      <4> SUFFICES ASSUME NEW k \in 1..(n - 1)
                   PROVE  \E i \in DOMAIN u.vulns :
                            Found(u.vulns[i], u) /\ For(u.vulns[i], reports[k], task, isolate)
        BY <2>5, <3>1 DEF Finds
      <4>1. PICK i \in DOMAIN w.vulns : Found(w.vulns[i], w) /\ For(w.vulns[i], reports[k], task, isolate)
        BY <1>3 DEF Answers
      <4> QED BY <2>5, <4>1 DEF Finds, For, SameFinding
    <3>5. \A i \in DOMAIN u.vulns : Found(u.vulns[i], u) =>
            \E k \in 1..n : u.vulns[i].issue = reports[k].issue
      <4> SUFFICES ASSUME NEW i \in DOMAIN w.vulns, Found(w.vulns[i], w)
                   PROVE  \E k \in 1..n : u.vulns[i].issue = reports[k].issue
        BY <2>5, <3>3 DEF Finds
      <4>1. PICK k \in 1..(n - 1) : w.vulns[i].issue = reports[k].issue
        BY <1>3 DEF Answers
      <4> QED BY <2>5, <3>2, <4>1 DEF Finds, SameFinding
    <3> QED BY <3>4, <3>5 DEF Answers
  <2>7. u \in W
    BY <2>3, <2>4 DEF W
  <2> QED BY <2>6, <2>7 DEF u
<1>4. \A n \in Nat : T[n] = {w \in W : Answers(w, reports, n, task, isolate)}
  OBVIOUS
<1>5. \A n \in 1..Len(reports) : n \in Nat /\ n - 1 \in Nat
  OBVIOUS
<1>6. Len(reports) \in Nat
  OBVIOUS
<1> HIDE DEF W, T
<1>7. \A n \in 1..Len(reports) : \A w \in T[n - 1] : Report(w, reports[n], task, isolate) \in T[n]
  BY <1>3, <1>4, <1>5
<1>8. Begun(m) \in T[0]
  BY <1>2, <1>4
<1>9. Update(m, reports, task, isolate) \in T[Len(reports)]
  BY <1>7, <1>8, ReportByReport
<1> QED BY <1>4, <1>6, <1>9 DEF W

-----------------------------------------------------------------------------
(* Vulnerabilities: the column after a report.                             *)

\* The column after a save of the row with entries vs, by who has just loaded it.
Saves(vs) ==
  row' = IF Recount(row, vs) = row THEN row ELSE BeforeSave(row, Recount(row, vs))
Wrote(task, reports, isolate) ==
  LET w == Update(row, reports, task, isolate) IN
  IF last'.kind = "scan"
    THEN /\ isolate = TRUE /\ Saves(Scanned(w, task))
         /\ last'.task = task /\ last'.issues = {v.issue : v \in Range(reports)}
         /\ last'.tally = [w.tally EXCEPT !.closed = ClosedBy(w, task)]
    ELSE Saves(w.vulns) /\ last'.tally = w.tally

\* Whoever reports writes what update_vulnerabilities makes of the row itself:
\* Reporting asks that nothing was written since it loaded.
LEMMA WhoReports ==
  ASSUME VulnIInv, [Next]_vars, NEW a \in Actors, Reporting(a, Reported)
  PROVE  \E task \in Tasks \cup {NoTask}, reports \in Seq(AnyReports), isolate \in BOOLEAN :
           Wrote(task, reports, isolate)
<1> USE DEF Reporting, Writes, At, Reported
<1>1. /\ op[a].stage = "loaded" /\ op'[a].stage = "committed" /\ op[a].base = row
      /\ last'.kind \in {"scan", "analyze", "create"}
  OBVIOUS
<1>2. op = [b \in Actors |-> op[b]] /\ setting \in Settings
  BY DEF VulnIInv
<1>3. CASE UNCHANGED vars
  BY <1>1, <1>3 DEF vars
<1>4. ASSUME NEW b \in Actors, Step(b) PROVE b = a
  <2>1. \E c : op' = [op EXCEPT ![b] = c]
    BY <1>4 DEF Step, Load, CachedFind, FillCache, Scan, Analyze, Create, Edit, AppendFinding,
                Clean, Flush, Abandon, Write
  <2> QED BY <1>1, <1>2, <2>1
<1>5. ASSUME Load(a) \/ CachedFind(a) \/ FillCache(a) \/ Flush(a) \/ Abandon(a) PROVE FALSE
  BY <1>1, <1>2, <1>5 DEF Load, CachedFind, FillCache, Flush, Abandon, Busy, Idle
<1>6. ASSUME Edit(a) \/ AppendFinding(a) \/ Clean(a) PROVE FALSE
  BY <1>1, <1>6 DEF Edit, AppendFinding, Clean, Write, Quiet
<1>7. CASE Scan(a)
  <2>1. PICK task \in setting.tasks, reports \in ReportLists[setting] :
          LET w == Update(row, reports, task, TRUE) IN
          Write(a, Recount(row, Scanned(w, task)),
                [kind |-> "scan", task |-> task, issues |-> {v.issue : v \in Range(reports)},
                 tally |-> [w.tally EXCEPT !.closed = ClosedBy(w, task)]])
    BY <1>1, <1>7 DEF Scan
  <2>2. task \in Tasks \cup {NoTask} /\ reports \in Seq(AnyReports)
    BY <1>2, SettingFacts
  <2>3. Wrote(task, reports, TRUE)
    BY <1>1, <2>1 DEF Wrote, Saves, Write
  <2> QED BY <2>2, <2>3
<1>8. CASE Analyze(a)
  <2>1. PICK task \in setting.tasks, reports \in ReportLists[setting] :
          LET w == Update(row, reports, task, FALSE) IN
          Write(a, Recount(row, w.vulns),
                [kind |-> "analyze", task |-> task,
                 issues |-> {v.issue : v \in Range(reports)}, tally |-> w.tally])
    BY <1>1, <1>8 DEF Analyze
  <2>2. task \in Tasks \cup {NoTask} /\ reports \in Seq(AnyReports)
    BY <1>2, SettingFacts
  <2>3. Wrote(task, reports, FALSE)
    BY <1>1, <2>1 DEF Wrote, Saves, Write
  <2> QED BY <2>2, <2>3
<1>9. CASE Create(a)
  <2>1. PICK v \in Reports[setting] :
          LET w == Update(row, <<v>>, NoTask, FALSE) IN
          Write(a, Recount(row, w.vulns),
                [kind |-> "create", task |-> NoTask, issues |-> {v.issue}, tally |-> w.tally])
    BY <1>1, <1>9 DEF Create
  <2>2. NoTask \in Tasks \cup {NoTask} /\ <<v>> \in Seq(AnyReports)
    BY <1>2, SettingFacts
  <2>3. Wrote(NoTask, <<v>>, FALSE)
    BY <1>1, <2>1 DEF Wrote, Saves, Write
  <2> QED BY <2>2, <2>3
<1> QED BY <1>3, <1>4, <1>5, <1>6, <1>7, <1>8, <1>9 DEF Next, Step

\* The save may put a status in order, and does nothing else to the entries.
LEMMA SavedEntries ==
  ASSUME VulnIInv, NEW vs, NEW n, Orderly(vs, n), Saves(vs)
  PROVE  /\ DOMAIN row'.vulns = DOMAIN vs /\ Len(row'.vulns) = Len(vs)
         /\ \A i \in DOMAIN vs : row'.vulns[i] \in {vs[i], Normal(vs[i])}
<1> DEFINE m == Recount(row, vs)
           us == [i \in DOMAIN vs |-> Normal(vs[i])]
<1>1. m.vulns = vs /\ m \in Columns /\ vs \in Seq(Entries)
  <2>1. row \in Columns
    BY DEF VulnIInv, Sound
  <2>2. Sound(m, n) /\ m.vulns = vs
    BY <2>1, RecountSound
  <2> HIDE DEF m
  <2> QED BY <2>2 DEF Sound, Orderly
<1>2. us \in Seq(Entries) /\ DOMAIN us = DOMAIN vs /\ Len(us) = Len(vs)
      /\ \A i \in DOMAIN vs : us[i] = Normal(vs[i])
  <2>1. \A i \in DOMAIN vs : vs[i] \in Entries
    BY <1>1
  <2> QED BY <1>1, <2>1, NormalFacts
<1>3. row' = m \/ row' = Recount(m, us)
  <2>1. row' = m \/ row' = BeforeSave(row, m)
    BY DEF Saves
  <2> QED BY <1>1, <2>1 DEF BeforeSave
<1> HIDE DEF m, us
<1>4. Recount(m, us).vulns = us
  BY <1>1 DEF Recount, Columns
<1>5. row'.vulns = vs \/ row'.vulns = us
  BY <1>1, <1>3, <1>4
<1> QED BY <1>2, <1>5

\* What the column has for an entry e of w: the same, except that a scan
\* remediates what is gone, and that an open status may have been put in order.
Kept(f, e, remediated) ==
  /\ SameFinding(f, e) /\ f.minor = e.minor
  /\ remediated => f.status = "remediated"
  /\ ~remediated /\ e.status \in Open => f.status \in Open
  /\ ~remediated /\ e.status \notin Open => f.status = e.status
Remediates(e, task, w) == last'.kind = "scan" /\ Gone(e, task, w.ids)

\* The column after a report, entry by entry.
LEMMA ReportedColumn ==
  ASSUME VulnIInv, NEW task \in Tasks \cup {NoTask}, NEW reports \in Seq(AnyReports),
         NEW isolate \in BOOLEAN, Wrote(task, reports, isolate),
         NEW w, w = Update(row, reports, task, isolate)
  PROVE  /\ w \in Works /\ Orderly(w.vulns, w.made)
         /\ Traced(row.vulns, w) /\ Answers(w, reports, Len(reports), task, isolate)
         /\ DOMAIN row'.vulns = DOMAIN w.vulns /\ Len(row'.vulns) = Len(w.vulns)
         /\ \A i \in DOMAIN w.vulns :
              Kept(row'.vulns[i], w.vulns[i], Remediates(w.vulns[i], task, w))
<1>1. Orderly(row.vulns, made) /\ made \in Nat
  BY DEF VulnIInv, Sound
<1>2. w \in Works /\ Orderly(w.vulns, w.made)
  BY <1>1, UpdateKeeps
<1>3. Traced(row.vulns, w) /\ Answers(w, reports, Len(reports), task, isolate)
  BY <1>1, UpdateTraced
<1>4. \A i \in DOMAIN w.vulns : w.vulns[i] \in Entries /\ w.vulns[i].status # "other"
  BY <1>2 DEF Works, Orderly
<1>5. CASE last'.kind = "scan"
  <2> DEFINE vs == Scanned(w, task)
  <2>1. Saves(vs)
    BY <1>5 DEF Wrote
  <2>2. Orderly(vs, w.made)
    BY <1>2, ScannedKeeps
  <2>3. /\ DOMAIN vs = DOMAIN w.vulns /\ Len(vs) = Len(w.vulns)
        /\ \A i \in DOMAIN w.vulns :
             vs[i] = IF Gone(w.vulns[i], task, w.ids)
                       THEN [w.vulns[i] EXCEPT !.status = "remediated"] ELSE w.vulns[i]
    BY <1>2, <2>2 DEF Scanned, Orderly
  <2> HIDE DEF vs
  <2>4. /\ DOMAIN row'.vulns = DOMAIN vs /\ Len(row'.vulns) = Len(vs)
        /\ \A i \in DOMAIN vs : row'.vulns[i] \in {vs[i], Normal(vs[i])}
    BY <2>1, <2>2, SavedEntries
  <2>5. ASSUME NEW i \in DOMAIN w.vulns
        PROVE  Kept(row'.vulns[i], w.vulns[i], Remediates(w.vulns[i], task, w))
    <3> DEFINE e == w.vulns[i]
    <3>1. vs[i] = IF Gone(e, task, w.ids) THEN [e EXCEPT !.status = "remediated"] ELSE e
      BY <2>3
    <3>2. row'.vulns[i] \in {vs[i], Normal(vs[i])} /\ e \in Entries /\ e.status # "other"
      BY <1>4, <2>3, <2>4
    <3>3. Remediates(e, task, w) <=> Gone(e, task, w.ids)
      BY <1>5 DEF Remediates
    <3> HIDE DEF e
    <3>4. vs[i] \in Entries /\ SameFinding(vs[i], e) /\ vs[i].minor = e.minor
          /\ vs[i].status = IF Gone(e, task, w.ids) THEN "remediated" ELSE e.status
      BY <3>1, <3>2 DEF Entries, SameFinding, Status, Closed
    <3>5. vs[i].status \in Open \cup Closed
      BY <3>2, <3>4 DEF Entries, Status, Closed
    <3> QED BY <3>2, <3>3, <3>4, <3>5, NormalFacts DEF Kept, SameFinding, Open, Closed, e
  <2> QED BY <1>2, <1>3, <2>3, <2>4, <2>5
<1>6. CASE last'.kind # "scan"
  <2>1. Saves(w.vulns)
    BY <1>6 DEF Wrote
  <2>2. /\ DOMAIN row'.vulns = DOMAIN w.vulns /\ Len(row'.vulns) = Len(w.vulns)
        /\ \A i \in DOMAIN w.vulns : row'.vulns[i] \in {w.vulns[i], Normal(w.vulns[i])}
    BY <1>2, <2>1, SavedEntries
  <2>3. ASSUME NEW i \in DOMAIN w.vulns
        PROVE  Kept(row'.vulns[i], w.vulns[i], Remediates(w.vulns[i], task, w))
    <3> DEFINE e == w.vulns[i]
    <3>1. row'.vulns[i] \in {e, Normal(e)} /\ e \in Entries /\ e.status # "other"
      BY <1>4, <2>2
    <3>2. ~Remediates(e, task, w)
      BY <1>6 DEF Remediates
    <3> HIDE DEF e
    <3>3. e.status \in Open \cup Closed
      BY <3>1 DEF Entries, Status
    <3> QED BY <3>1, <3>2, <3>3, NormalFacts DEF Kept, SameFinding, Open, Closed, e
  <2> QED BY <1>2, <1>3, <2>2, <2>3
<1> QED BY <1>5, <1>6

\* The entry of an id is where it is.
LEMMA EntryIs ==
  ASSUME NEW c, NEW n, Orderly(c.vulns, n), NEW i \in DOMAIN c.vulns
  PROVE  Entry(c, c.vulns[i].id) = c.vulns[i]
<1>1. c.vulns[i] \in Range(c.vulns)
  BY DEF Range
<1>2. \A e \in Range(c.vulns) : e.id = c.vulns[i].id => e = c.vulns[i]
  BY DEF Range, Orderly
<1> QED BY <1>1, <1>2 DEF Entry

\* vulnerability_helpers.rb:220: no scan touches what a person has closed.
THEOREM ScansLeaveDecisions == Spec => DecisionsStand
<1>1. ASSUME VulnIInv, VulnIInv', [Next]_vars, NEW a \in Actors, Reporting(a, Reported),
             NEW id \in Ids(row), Entry(row, id).status = "ignored"
      PROVE  id \in Ids(row') /\ Entry(row', id).status = "ignored"
  <2>1. PICK task \in Tasks \cup {NoTask}, reports \in Seq(AnyReports), isolate \in BOOLEAN :
          Wrote(task, reports, isolate)
    BY <1>1, WhoReports
  <2> DEFINE w == Update(row, reports, task, isolate)
  <2>2. /\ w \in Works /\ Traced(row.vulns, w) /\ DOMAIN row'.vulns = DOMAIN w.vulns
        /\ \A i \in DOMAIN w.vulns :
             Kept(row'.vulns[i], w.vulns[i], Remediates(w.vulns[i], task, w))
    BY <1>1, <2>1, ReportedColumn
  <2> HIDE DEF w
  <2>3. Orderly(row.vulns, made) /\ Orderly(row'.vulns, made')
    BY <1>1 DEF VulnIInv, Sound
  <2>4. PICK i \in DOMAIN row.vulns : row.vulns[i].id = id
    BY <1>1 DEF Ids, Range
  <2>5. i \in DOMAIN w.vulns
    BY <2>2, <2>3, <2>4 DEF Works, Orderly, Traced
  <2>6. w.vulns[i].status = "ignored" /\ w.vulns[i].id = id
    BY <1>1, <2>2, <2>3, <2>4, EntryIs DEF Traced, Stays, SameFinding
  <2>7. row'.vulns[i].status = "ignored" /\ row'.vulns[i].id = id
    BY <2>2, <2>5, <2>6 DEF Kept, SameFinding, Remediates, Gone, IsOpen, Open
  <2>8. Entry(row', row'.vulns[i].id) = row'.vulns[i]
    BY <2>2, <2>3, <2>5, EntryIs
  <2> QED BY <2>2, <2>5, <2>7, <2>8 DEF Ids, Range
<1>2. VulnIInv /\ VulnIInv' /\ [Next]_vars =>
        [\A a \in Actors : Reporting(a, Reported) =>
           \A id \in Ids(row) : Entry(row, id).status = "ignored" =>
             id \in Ids(row') /\ Entry(row', id).status = "ignored"]_vars
  BY <1>1
<1> QED BY <1>2, VulnInvariance, PTL DEF Spec, DecisionsStand

\* vulnerability_helpers.rb:111-141: after a scan its task has what the scan
\* reported, and nothing else that is open.
THEOREM ScansAreMirrored == Spec => ScanIsMirrored
<1>1. ASSUME VulnIInv, VulnIInv', [Next]_vars, NEW a \in Actors, Reporting(a, {"scan"})
      PROVE  LET mine == {e \in Range(row'.vulns) : e.task = last'.task} IN
             /\ \A x \in last'.issues :
                  \E e \in mine : e.issue = x /\ e.status \in Open \cup {"ignored"}
             /\ \A e \in mine : IsOpen(e) => e.issue \in last'.issues
  <2> DEFINE mine == {e \in Range(row'.vulns) : e.task = last'.task}
  <2>1. PICK task \in Tasks \cup {NoTask}, reports \in Seq(AnyReports), isolate \in BOOLEAN :
          Wrote(task, reports, isolate)
    BY <1>1, WhoReports DEF Reporting, Reported
  <2>2. /\ last'.kind = "scan" /\ isolate = TRUE /\ last'.task = task
        /\ last'.issues = {v.issue : v \in Range(reports)}
    BY <1>1, <2>1 DEF Wrote, Reporting
  <2> DEFINE w == Update(row, reports, task, isolate)
  <2>3. /\ w \in Works /\ Traced(row.vulns, w) /\ DOMAIN row'.vulns = DOMAIN w.vulns
        /\ Answers(w, reports, Len(reports), task, isolate)
        /\ \A i \in DOMAIN w.vulns :
             Kept(row'.vulns[i], w.vulns[i], Remediates(w.vulns[i], task, w))
    BY <1>1, <2>1, ReportedColumn
  <2> HIDE DEF w
  <2>4. ASSUME NEW x \in last'.issues
        PROVE  \E e \in mine : e.issue = x /\ e.status \in Open \cup {"ignored"}
    <3>1. PICK k \in 1..Len(reports) : reports[k].issue = x
      BY <2>2 DEF Range
    <3>2. PICK i \in DOMAIN w.vulns :
            Found(w.vulns[i], w) /\ For(w.vulns[i], reports[k], task, isolate)
      BY <2>3 DEF Answers
    <3>3. w.vulns[i].status \in Touched /\ ~Remediates(w.vulns[i], task, w)
      BY <2>3, <3>2 DEF Traced, Remediates, Gone, Found
    <3>4. w.vulns[i].issue = x /\ w.vulns[i].task = last'.task
      BY <2>2, <3>1, <3>2 DEF For
    <3>5. /\ row'.vulns[i].issue = x /\ row'.vulns[i].task = last'.task
          /\ row'.vulns[i].status \in Open \cup {"ignored"}
      BY <2>3, <3>3, <3>4 DEF Kept, SameFinding, Touched, Open
    <3>6. row'.vulns[i] \in mine
      BY <2>3, <3>2, <3>5 DEF Range
    <3> QED BY <3>5, <3>6
  <2>5. ASSUME NEW e \in mine, IsOpen(e) PROVE e.issue \in last'.issues
    <3>1. PICK i \in DOMAIN w.vulns : e = row'.vulns[i]
      BY <2>3 DEF Range
    <3>2. Kept(e, w.vulns[i], Remediates(w.vulns[i], task, w))
      BY <2>3, <3>1
    <3>3. ~Remediates(w.vulns[i], task, w) /\ IsOpen(w.vulns[i])
      BY <2>5, <3>2 DEF Kept, IsOpen, Open
    <3>4. w.vulns[i].task = task
      BY <2>2, <3>2 DEF Kept, SameFinding
    <3>5. Found(w.vulns[i], w)
      BY <2>2, <3>3, <3>4 DEF Remediates, Gone, Found
    <3>6. PICK k \in 1..Len(reports) : w.vulns[i].issue = reports[k].issue
      BY <2>3, <3>5 DEF Answers
    <3>7. e.issue = reports[k].issue /\ reports[k] \in Range(reports)
      BY <3>2, <3>6 DEF Kept, SameFinding, Range
    <3> QED BY <2>2, <3>7
  <2> QED BY <2>4, <2>5
<1>2. VulnIInv /\ VulnIInv' /\ [Next]_vars =>
        [\A a \in Actors : Reporting(a, {"scan"}) =>
           LET mine == {e \in Range(row'.vulns) : e.task = last'.task} IN
           /\ \A x \in last'.issues :
                \E e \in mine : e.issue = x /\ e.status \in Open \cup {"ignored"}
           /\ \A e \in mine : IsOpen(e) => e.issue \in last'.issues]_vars
  BY <1>1
<1> QED BY <1>2, VulnInvariance, PTL DEF Spec, ScanIsMirrored

\* As many entries as ids turned from one status to another.
Turned(S, T) ==
  {id \in Ids(row) : Entry(row, id).status \in S /\ Entry(row', id).status \in T}
TurnedAt(S, T) ==
  {i \in DOMAIN row.vulns : row.vulns[i].status \in S /\ row'.vulns[i].status \in T}

\* Counting ids is counting places, since each id has one place.
LEMMA TurnedCount ==
  ASSUME NEW n, NEW k, Orderly(row.vulns, n), Orderly(row'.vulns, k),
         DOMAIN row.vulns \subseteq DOMAIN row'.vulns,
         \A i \in DOMAIN row.vulns : row'.vulns[i].id = row.vulns[i].id,
         NEW S, NEW T
  PROVE  Cardinality(Turned(S, T)) = Cardinality(TurnedAt(S, T))
<1> DEFINE A == TurnedAt(S, T)
           B == Turned(S, T)
           f == [i \in A |-> row.vulns[i].id]
<1>1. \A i \in DOMAIN row.vulns : /\ Entry(row, row.vulns[i].id) = row.vulns[i]
                                  /\ Entry(row', row.vulns[i].id) = row'.vulns[i]
  <2> TAKE i \in DOMAIN row.vulns
  <2>1. i \in DOMAIN row'.vulns /\ row'.vulns[i].id = row.vulns[i].id
    OBVIOUS
  <2>2. Entry(row', row'.vulns[i].id) = row'.vulns[i]
    BY <2>1, EntryIs
  <2> QED BY <2>1, <2>2, EntryIs
<1>2. \A i \in A : row.vulns[i].id \in B
  BY <1>1 DEF Turned, TurnedAt, Ids, Range
<1>3. \A id \in B : \E i \in A : row.vulns[i].id = id
  <2> TAKE id \in B
  <2>1. PICK i \in DOMAIN row.vulns : row.vulns[i].id = id
    BY DEF Turned, Ids, Range
  <2> QED BY <1>1, <2>1 DEF Turned, TurnedAt
<1>4. \A i, j \in A : row.vulns[i].id = row.vulns[j].id => i = j
  BY DEF TurnedAt, Orderly
<1>5. IsFiniteSet(A)
  <2>1. DOMAIN row.vulns = 1..Len(row.vulns) /\ Len(row.vulns) \in Int /\ 1 \in Int
    BY DEF Orderly
  <2>2. IsFiniteSet(1..Len(row.vulns))
    BY <2>1, FS_Interval, Zenon
  <2>3. A \subseteq 1..Len(row.vulns)
    BY <2>1 DEF TurnedAt
  <2> QED BY <2>2, <2>3, FS_Subset, Zenon
<1> HIDE DEF A, B
<1>6. f \in Bijection(A, B)
  BY <1>2, <1>3, <1>4 DEF Bijection, Injection, Surjection, IsInjective
<1>7. ExistsBijection(A, B)
  BY <1>6 DEF ExistsBijection
<1> QED BY <1>5, <1>7, FS_Bijection DEF A, B

\* vulnerability_helpers.rb:166-291, 117-124: the tally of the scan tells what
\* became of the entries.
THEOREM TalliesAreTrue == Spec => TallyIsTrue
<1>1. ASSUME VulnIInv, VulnIInv', [Next]_vars, NEW a \in Actors, Reporting(a, Reported)
      PROVE  /\ last'.tally.new = Len(row'.vulns) - Len(row.vulns)
             /\ last'.tally.regression = Cardinality(Turned({"remediated"}, Open))
             /\ last'.tally.closed = Cardinality(Turned(Open, {"remediated"}))
  <2>1. PICK task \in Tasks \cup {NoTask}, reports \in Seq(AnyReports), isolate \in BOOLEAN :
          Wrote(task, reports, isolate)
    BY <1>1, WhoReports
  <2> DEFINE w == Update(row, reports, task, isolate)
             vs == row.vulns
             gone == {i \in DOMAIN w.vulns : Gone(w.vulns[i], task, w.ids)}
  <2>2. /\ w \in Works /\ Traced(vs, w) /\ Orderly(w.vulns, w.made)
        /\ DOMAIN row'.vulns = DOMAIN w.vulns /\ Len(row'.vulns) = Len(w.vulns)
        /\ \A i \in DOMAIN w.vulns :
             Kept(row'.vulns[i], w.vulns[i], Remediates(w.vulns[i], task, w))
    BY <1>1, <2>1, ReportedColumn
  <2>3. last'.tally = IF last'.kind = "scan"
                        THEN [w.tally EXCEPT !.closed = Cardinality(gone)] ELSE w.tally
    BY <2>1 DEF Wrote, ClosedBy
  <2> HIDE DEF w
  <2>4. /\ Orderly(vs, made) /\ Orderly(row'.vulns, made')
        /\ \A i \in DOMAIN vs : vs[i] \in Entries /\ vs[i].status # "other"
    BY <1>1 DEF VulnIInv, Sound, Orderly
  <2>5. /\ DOMAIN vs \subseteq DOMAIN w.vulns
        /\ \A i \in DOMAIN vs : Stays(w.vulns[i], vs[i])
    BY <2>2, <2>4 DEF Works, Orderly, Traced
  <2>6. \A i \in DOMAIN vs : row'.vulns[i].id = vs[i].id
    BY <2>2, <2>5 DEF Kept, Stays, SameFinding
  <2>7. \A S, T : Cardinality(Turned(S, T)) = Cardinality(TurnedAt(S, T))
    BY <2>2, <2>4, <2>5, <2>6, TurnedCount
  <2>8. /\ last'.tally.new = w.tally.new /\ last'.tally.regression = w.tally.regression
        /\ last'.tally.closed = IF last'.kind = "scan" THEN Cardinality(gone) ELSE 0
    BY <2>2, <2>3 DEF Works, Tallies, Traced
  <2>9. ASSUME NEW i \in DOMAIN w.vulns, Found(w.vulns[i], w)
        PROVE  /\ w.vulns[i].status \in Touched /\ ~Gone(w.vulns[i], task, w.ids)
               /\ row'.vulns[i].status # "remediated"
               /\ row'.vulns[i].status \in Open <=> w.vulns[i].status # "ignored"
    <3>1. w.vulns[i].status \in Touched
      BY <2>2, <2>9 DEF Traced
    <3>2. ~Gone(w.vulns[i], task, w.ids) /\ ~Remediates(w.vulns[i], task, w)
      BY <2>9 DEF Found, Gone, Remediates
    <3> QED BY <2>2, <3>1, <3>2 DEF Kept, Touched, Open
  <2>10. ASSUME NEW i \in DOMAIN vs, ~Found(w.vulns[i], w)
         PROVE  /\ w.vulns[i].status \in Open <=> vs[i].status \in Open
                /\ w.vulns[i].status = "remediated" <=> vs[i].status = "remediated"
    <3>1. w.vulns[i] = Normal(vs[i])
      BY <2>2, <2>10 DEF Traced
    <3> QED BY <2>4, <3>1, NormalFacts DEF Open, Closed, Entries, Status
  <2>11. TurnedAt({"remediated"}, Open) = Returned(vs, w)
    <3>1. ASSUME NEW i \in DOMAIN vs, vs[i].status = "remediated"
          PROVE  row'.vulns[i].status \in Open <=> Found(w.vulns[i], w)
      <4>1. i \in DOMAIN w.vulns
        BY <2>5
      <4>2. CASE Found(w.vulns[i], w)
        BY <2>5, <2>9, <3>1, <4>1, <4>2 DEF Stays
      <4>3. CASE ~Found(w.vulns[i], w)
        BY <2>2, <2>10, <3>1, <4>1, <4>3 DEF Kept, Open
      <4> QED BY <4>2, <4>3
    <3> QED BY <3>1 DEF TurnedAt, Returned
  <2>12. TurnedAt(Open, {"remediated"}) = IF last'.kind = "scan" THEN gone ELSE {}
    <3>1. ASSUME NEW i \in DOMAIN vs, vs[i].status \in Open
          PROVE  row'.vulns[i].status = "remediated" <=> Remediates(w.vulns[i], task, w)
      <4>1. i \in DOMAIN w.vulns
        BY <2>5
      <4>2. CASE Found(w.vulns[i], w)
        BY <2>9, <4>1, <4>2 DEF Remediates
      <4>3. CASE ~Found(w.vulns[i], w)
        BY <2>2, <2>10, <3>1, <4>1, <4>3 DEF Kept, Open
      <4> QED BY <4>2, <4>3
    <3>2. ASSUME NEW i \in DOMAIN w.vulns, Gone(w.vulns[i], task, w.ids)
          PROVE  i \in DOMAIN vs /\ vs[i].status \in Open
      <4>1. ~Found(w.vulns[i], w)
        BY <2>9, <3>2
      <4>2. i \in DOMAIN vs
        BY <2>2, <4>1 DEF Traced
      <4> QED BY <2>10, <3>2, <4>1, <4>2 DEF Gone, IsOpen
    <3> QED BY <2>5, <3>1, <3>2 DEF TurnedAt, Remediates
  <2>13. last'.tally.closed = Cardinality(TurnedAt(Open, {"remediated"}))
    BY <2>8, <2>12, FS_EmptySet
  <2>14. last'.tally.regression = Cardinality(TurnedAt({"remediated"}, Open))
    BY <2>2, <2>8, <2>11 DEF Traced
  <2>15. last'.tally.new = Len(row'.vulns) - Len(vs)
    BY <2>2, <2>8 DEF Traced
  <2> QED BY <2>7, <2>13, <2>14, <2>15
<1>2. VulnIInv /\ VulnIInv' /\ [Next]_vars =>
        [\A a \in Actors : Reporting(a, Reported) =>
           /\ last'.tally.new = Len(row'.vulns) - Len(row.vulns)
           /\ last'.tally.regression = Cardinality(Turned({"remediated"}, Open))
           /\ last'.tally.closed = Cardinality(Turned(Open, {"remediated"}))]_vars
  BY <1>1
<1> QED BY <1>2, VulnInvariance, PTL DEF Spec, TallyIsTrue, Turned

-----------------------------------------------------------------------------
(* MetadataPaths: positions.                                               *)

\* A prefix has the same parts in the same places.
LEMMA PrefixMeans ==
  ASSUME NEW S, NEW p \in Seq(S), NEW q \in Seq(S)
  PROVE  IsPrefix(p, q) <=> Len(p) <= Len(q) /\ \A i \in 1..Len(p) : p[i] = q[i]
<1>1. CASE Len(p) <= Len(q)
  <2>1. SubSeq(p, 1, Len(p)) = p
    OBVIOUS
  <2>2. /\ SubSeq(q, 1, Len(p)) \in Seq(S) /\ Len(SubSeq(q, 1, Len(p))) = Len(p)
        /\ \A i \in 1..Len(p) : SubSeq(q, 1, Len(p))[i] = q[i]
    BY <1>1
  <2>3. p = SubSeq(q, 1, Len(p)) <=> \A i \in 1..Len(p) : p[i] = q[i]
    BY <2>2, SeqEqual
  <2> QED BY <1>1, <2>1, <2>3 DEF IsPrefix
<1>2. CASE ~(Len(p) <= Len(q))
  BY <1>2 DEF IsPrefix
<1> QED BY <1>1, <1>2

\* Being a prefix is an order, and the prefixes of one position are in line.
LEMMA PrefixFacts ==
  ASSUME NEW S, NEW p \in Seq(S), NEW q \in Seq(S), NEW r \in Seq(S)
  PROVE  /\ IsPrefix(p, p)
         /\ IsPrefix(p, q) /\ IsPrefix(q, r) => IsPrefix(p, r)
         /\ IsPrefix(p, r) /\ IsPrefix(q, r) /\ Len(p) <= Len(q) => IsPrefix(p, q)
         /\ IsPrefix(p, q) => Len(p) <= Len(q)
         /\ IsPrefix(p, q) /\ Len(p) >= Len(q) => p = q
<1>0. Len(p) \in Nat /\ Len(q) \in Nat /\ Len(r) \in Nat
  OBVIOUS
<1>1. IsPrefix(p, p)
  BY PrefixMeans
<1>2. IsPrefix(p, q) /\ IsPrefix(q, r) => IsPrefix(p, r)
  BY <1>0, PrefixMeans
<1>3. IsPrefix(p, r) /\ IsPrefix(q, r) /\ Len(p) <= Len(q) => IsPrefix(p, q)
  BY <1>0, PrefixMeans
<1>4. IsPrefix(p, q) => Len(p) <= Len(q)
  BY PrefixMeans
<1>5. IsPrefix(p, q) /\ Len(p) >= Len(q) => p = q
  BY <1>0, PrefixMeans, SeqEqual
<1> QED BY <1>1, <1>2, <1>3, <1>4, <1>5

\* A position below another one.
LEMMA AppendFacts ==
  ASSUME NEW S, NEW q \in Seq(S), NEW k \in S
  PROVE  /\ Append(q, k) \in Seq(S) /\ Append(q, k) # <<>> /\ Len(Append(q, k)) = Len(q) + 1
         /\ Front(Append(q, k)) = q /\ Last(Append(q, k)) = k
         /\ IsPrefix(q, Append(q, k))
         /\ \A p \in Seq(S) : IsPrefix(p, Append(q, k)) <=> IsPrefix(p, q) \/ p = Append(q, k)
<1> DEFINE r == Append(q, k)
<1>1. /\ r \in Seq(S) /\ r # <<>> /\ Len(r) = Len(q) + 1 /\ Len(q) \in Nat
      /\ r[Len(q) + 1] = k /\ \A i \in 1..Len(q) : r[i] = q[i]
  OBVIOUS
<1>2. Front(r) = q
  <2>1. /\ SubSeq(r, 1, Len(q)) \in Seq(S) /\ Len(SubSeq(r, 1, Len(q))) = Len(q)
        /\ \A i \in 1..Len(q) : SubSeq(r, 1, Len(q))[i] = q[i]
    BY <1>1
  <2>2. Front(r) = SubSeq(r, 1, Len(q))
    BY <1>1 DEF Front
  <2> QED BY <2>1, <2>2, SeqEqual
<1>3. Last(r) = k
  BY <1>1 DEF Last
<1> HIDE DEF r
<1>4. IsPrefix(q, r)
  BY <1>1, PrefixMeans
<1>5. ASSUME NEW p \in Seq(S) PROVE IsPrefix(p, r) <=> IsPrefix(p, q) \/ p = r
  <2>1. CASE IsPrefix(p, r) /\ Len(p) <= Len(q)
    BY <1>1, <1>4, <2>1, PrefixFacts
  <2>2. CASE IsPrefix(p, r) /\ ~(Len(p) <= Len(q))
    <3>1. Len(p) >= Len(r)
      BY <1>1, <2>2
    <3> QED BY <1>1, <2>2, <3>1, PrefixFacts
  <2>3. CASE IsPrefix(p, q)
    BY <1>1, <1>4, <2>3, PrefixFacts
  <2>4. CASE p = r
    BY <1>1, <2>4, PrefixFacts
  <2> QED BY <2>1, <2>2, <2>3, <2>4
<1> QED BY <1>1, <1>2, <1>3, <1>4, <1>5 DEF r

\* Every position but the root is below another one.
LEMMA FrontFacts ==
  ASSUME NEW S, NEW q \in Seq(S), q # <<>>
  PROVE  /\ Front(q) \in Seq(S) /\ Last(q) \in S /\ q = Append(Front(q), Last(q))
         /\ Len(q) = Len(Front(q)) + 1
<1>1. PICK p \in Seq(S), k \in S : q = Append(p, k)
  BY SequenceEmptyOrAppend
<1> QED BY <1>1, AppendFacts

-----------------------------------------------------------------------------
(* MetadataPaths: trees.                                                   *)

TreeKinds == {Hash, Array} \cup Leaves

LEMMA KindsDiffer ==
  /\ Hash # Array /\ Hash # Nil /\ Array # Nil
  /\ Hash \notin Leaves /\ Array \notin Leaves /\ Nil \notin Leaves
  /\ Texts \subseteq Leaves
<1>1. /\ Hash[1] = "hash" /\ Array[1] = "list" /\ Nil[1] = "nil"
      /\ \A s \in Leaves : s[1] \in {"text", "number", "true", "false"}
  BY DEF Hash, Array, Nil, Leaves, Texts, Number, True, False
<1> QED BY <1>1 DEF Leaves

USE KindsDiffer

\* What is read in a tree is what its nodes say, and nil anywhere else.
LEMMA KindFacts ==
  ASSUME NEW t \in AllTrees, NEW p
  PROVE  /\ Kind(t, p) \in TreeKinds \cup {Nil}
         /\ Kind(t, p) # Nil <=> There(t, p)
         /\ There(t, p) <=> p \in Taken(t)
         /\ There(t, p) => /\ p \in Positions /\ [at |-> p, is |-> Kind(t, p)] \in t
                           /\ p # <<>> => Kind(t, Front(p)) \in {Hash, Array}
         /\ There(t, p) /\ Kind(t, p) = Array =>
              \A i \in 1..Size(t, p) : There(t, Element(p, i - 1))
         /\ Kind(t, <<>>) = Hash /\ IsFiniteSet(t) /\ t \subseteq Nodes
         /\ \A n \in t : n.at \in Positions /\ n.is \in TreeKinds /\ n.is = Kind(t, n.at)
<1>1. /\ t \subseteq Nodes /\ IsFiniteSet(t) /\ Kind(t, <<>>) = Hash
      /\ \A n \in t : Kind(t, n.at) = n.is
      /\ \A n \in t : n.at # <<>> => Kind(t, Front(n.at)) \in {Hash, Array}
      /\ \A n \in t : n.is = Array =>
           \A i \in 1..Size(t, n.at) : There(t, Element(n.at, i - 1))
  BY Zenon DEF AllTrees, WellFormed
<1>2. \A n \in t : /\ n.at \in Positions /\ n.is \in TreeKinds
                   /\ n = [at |-> n.at, is |-> n.is]
  BY <1>1 DEF Nodes, TreeKinds
<1>3. There(t, p) <=> p \in Taken(t)
  BY DEF There, Taken
<1>4. CASE There(t, p)
  <2>1. PICK n \in t : n.at = p
    BY <1>4 DEF There
  <2>2. n.is = Kind(t, p) /\ n = [at |-> p, is |-> n.is] /\ n.is \in TreeKinds /\ p \in Positions
    BY <1>1, <1>2, <2>1
  <2>3. n.is # Nil
    BY <2>2 DEF TreeKinds
  <2> QED BY <1>1, <1>2, <1>3, <1>4, <2>1, <2>2, <2>3
<1>5. CASE ~There(t, p)
  BY <1>1, <1>2, <1>3, <1>5 DEF Kind
<1> QED BY <1>4, <1>5

\* What is put at p is there, nothing is below it, and the rest is as it was.
LEMMA PutKind ==
  ASSUME NEW t \in AllTrees, NEW p \in Positions, NEW k, k # Nil, NEW q \in Positions
  PROVE  Kind(Put(t, p, k), q) = IF q = p THEN k
                                 ELSE IF IsPrefix(p, q) THEN Nil ELSE Kind(t, q)
<1> DEFINE u == Put(t, p, k)
<1>1. \A n : n \in u <=> (n \in t /\ ~IsPrefix(p, n.at)) \/ n = [at |-> p, is |-> k]
  BY DEF Put
<1>2. IsPrefix(p, p)
  BY PrefixFacts DEF Positions
<1>3. CASE q = p
  <2>1. \A n \in u : n.at = p => n.is = k
    BY <1>1, <1>2
  <2>2. \E n \in u : n.at = p
    <3>1. [at |-> p, is |-> k] \in u /\ [at |-> p, is |-> k].at = p
      BY <1>1
    <3> QED BY <3>1
  <2> HIDE DEF u
  <2>3. Kind(u, q) = k
    BY <1>3, <2>1, <2>2 DEF Kind, There
  <2> QED BY <1>3, <2>3 DEF u
<1>4. CASE q # p /\ IsPrefix(p, q)
  <2>1. ~\E n \in u : n.at = q
    BY <1>1, <1>4
  <2> QED BY <1>4, <2>1 DEF Kind, There
<1>5. CASE q # p /\ ~IsPrefix(p, q)
  <2>1. \A n : n \in u /\ n.at = q <=> n \in t /\ n.at = q
    BY <1>1, <1>5
  <2> HIDE DEF u
  <2>2. There(u, q) <=> There(t, q)
    BY <2>1 DEF There
  <2>3. CASE There(t, q)
    <3>1. There(u, q)
      BY <2>2, <2>3
    <3>2. \A n \in u : n.at = q => n.is = Kind(t, q)
      <4>1. \A n \in t : n.is = Kind(t, n.at)
        BY KindFacts
      <4> QED BY <2>1, <4>1
    <3>3. Kind(u, q) = Kind(t, q)
      BY <3>1, <3>2 DEF Kind, There
    <3> QED BY <1>5, <3>3 DEF u
  <2>4. CASE ~There(t, q)
    BY <1>5, <2>2, <2>4 DEF Kind, u
  <2> QED BY <2>3, <2>4
<1> QED BY <1>3, <1>4, <1>5

\* There are finitely many things below a position.
LEMMA BelowFinite ==
  ASSUME NEW t \in AllTrees, NEW p
  PROVE  IsFiniteSet(Below(t, p)) /\ Size(t, p) \in Nat
<1>1. IsFiniteSet(t)
  BY KindFacts
<1>2. IsFiniteSet(Taken(t))
  <2> DEFINE f == [n \in t |-> n.at]
  <2>1. f \in Surjection(t, Taken(t))
    BY DEF Surjection, Taken
  <2> QED BY <1>1, <2>1, FS_Surjection
<1>3. Below(t, p) \subseteq Taken(t)
  BY DEF Below
<1>4. IsFiniteSet(Below(t, p))
  BY <1>2, <1>3, FS_Subset
<1> QED BY <1>4, FS_CardinalityType DEF Size

\* Everything below p that is there, and how many they are.
LEMMA BelowFacts ==
  ASSUME NEW t \in AllTrees, NEW p \in Positions
  PROVE  /\ IsFiniteSet(Below(t, p)) /\ Size(t, p) \in Nat
         /\ \A q : q \in Below(t, p) <=> There(t, q) /\ q # <<>> /\ Front(q) = p
         /\ \A q \in Below(t, p) : q \in Positions /\ q = Append(p, Last(q)) /\ Last(q) \in Parts
         /\ \A i \in Nat : /\ Index(i) \in Parts /\ Element(p, i) \in Positions
                           /\ Element(p, i) # <<>> /\ Front(Element(p, i)) = p
         /\ \A i \in Nat : There(t, Element(p, i)) <=> Element(p, i) \in Below(t, p)
         /\ \A i, j \in Nat : Element(p, i) = Element(p, j) => i = j
<1>1. \A q : There(t, q) <=> q \in Taken(t)
  BY KindFacts
<1>3. IsFiniteSet(Below(t, p)) /\ Size(t, p) \in Nat
  BY BelowFinite
<1>4. \A q : q \in Below(t, p) <=> There(t, q) /\ q # <<>> /\ Front(q) = p
  BY <1>1 DEF Below
<1>5. \A q \in Below(t, p) : q \in Positions /\ q = Append(p, Last(q)) /\ Last(q) \in Parts
  <2> SUFFICES ASSUME NEW q \in Below(t, p)
               PROVE  q \in Positions /\ q = Append(p, Last(q)) /\ Last(q) \in Parts
    OBVIOUS
  <2>1. q \in Positions /\ q # <<>> /\ Front(q) = p
    BY <1>4, KindFacts
  <2> QED BY <2>1, FrontFacts DEF Positions
<1>6. \A i \in Nat : Index(i) \in Parts
  BY DEF Index, Parts
<1>7. \A i \in Nat : /\ Element(p, i) \in Positions
                     /\ Element(p, i) # <<>> /\ Front(Element(p, i)) = p
  BY <1>6, AppendFacts DEF Element, Positions
<1>8. \A i \in Nat : There(t, Element(p, i)) <=> Element(p, i) \in Below(t, p)
  BY <1>4, <1>7
<1>9. \A i, j \in Nat : Element(p, i) = Element(p, j) => i = j
  <2> SUFFICES ASSUME NEW i \in Nat, NEW j \in Nat, Element(p, i) = Element(p, j) PROVE i = j
    OBVIOUS
  <2>1. Index(i) = Index(j)
    BY <1>6, AppendInjective DEF Element, Positions
  <2> QED BY <2>1 DEF Index
<1> QED BY <1>3, <1>4, <1>5, <1>6, <1>7, <1>8, <1>9

\* Where something can be put in a tree.
Place(t, p) ==
  /\ p \in Positions /\ p # <<>> /\ Kind(t, Front(p)) \in {Hash, Array}
  /\ Kind(t, Front(p)) = Array => There(t, p) \/ p = Element(Front(p), Size(t, Front(p)))

\* What is below another position afterwards.
LEMMA PutBelow ==
  ASSUME NEW t \in AllTrees, NEW p \in Positions, p # <<>>, NEW k, k # Nil,
         NEW q \in Positions
  PROVE  Below(Put(t, p, k), q) =
           IF IsPrefix(p, q) THEN {} ELSE Below(t, q) \cup (IF Front(p) = q THEN {p} ELSE {})
<1> DEFINE u == Put(t, p, k)
<1>1. \A r : There(u, r) <=> (There(t, r) /\ ~IsPrefix(p, r)) \/ r = p
  <2>1. \A n : n \in u <=> (n \in t /\ ~IsPrefix(p, n.at)) \/ n = [at |-> p, is |-> k]
    BY DEF Put
  <2>2. [at |-> p, is |-> k].at = p
    OBVIOUS
  <2> HIDE DEF u
  <2> QED BY <2>1, <2>2 DEF There
<1>2. \A r : r \in Below(u, q) <=> There(u, r) /\ r # <<>> /\ Front(r) = q
  BY DEF Below, Taken, There
<1>3. ASSUME NEW r \in Positions, r # <<>>, Front(r) = q
      PROVE  IsPrefix(p, r) <=> IsPrefix(p, q) \/ p = r
  <2>1. q \in Seq(Parts) /\ Last(r) \in Parts /\ r = Append(q, Last(r)) /\ p \in Seq(Parts)
    BY <1>3, FrontFacts DEF Positions
  <2>2. PICK l \in Parts : r = Append(q, l)
    BY <2>1
  <2>3. IsPrefix(p, Append(q, l)) <=> IsPrefix(p, q) \/ p = Append(q, l)
    BY <2>1, AppendFacts
  <2> QED BY <2>2, <2>3
<1> HIDE DEF u
<1>4. \A r : There(t, r) => r \in Positions
  BY KindFacts
<1>5. \A r : r \in Below(t, q) <=> There(t, r) /\ r # <<>> /\ Front(r) = q
  BY BelowFacts
<1>6. ~(IsPrefix(p, q) /\ Front(p) = q)
  <2> SUFFICES ASSUME IsPrefix(p, q), Front(p) = q PROVE FALSE
    OBVIOUS
  <2>1. Len(p) = Len(q) + 1 /\ Len(p) <= Len(q) /\ Len(q) \in Nat
    BY FrontFacts, PrefixFacts DEF Positions
  <2> QED BY <2>1
<1>7. \A r : r \in Below(u, q) <=>
        ~IsPrefix(p, q) /\ (r \in Below(t, q) \/ (r = p /\ Front(p) = q))
  <2> TAKE r
  <2>1. CASE r = p
    BY <1>1, <1>2, <1>5, <1>6, <2>1
  <2>2. CASE r # p /\ There(t, r) /\ r # <<>> /\ Front(r) = q
    BY <1>1, <1>2, <1>3, <1>4, <1>5, <2>2
  <2>3. CASE r # p /\ ~(There(t, r) /\ r # <<>> /\ Front(r) = q)
    BY <1>1, <1>2, <1>5, <2>3
  <2> QED BY <2>1, <2>2, <2>3
<1> QED BY <1>7 DEF u

\* Whatever is put in its place leaves a tree.
LEMMA PutKeeps ==
  ASSUME NEW t \in AllTrees, NEW p, Place(t, p), NEW k \in TreeKinds
  PROVE  Put(t, p, k) \in AllTrees
<1> DEFINE u == Put(t, p, k)
<1>1. /\ p \in Positions /\ p # <<>> /\ Kind(t, Front(p)) \in {Hash, Array}
      /\ Kind(t, Front(p)) = Array => There(t, p) \/ p = Element(Front(p), Size(t, Front(p)))
      /\ Front(p) \in Positions /\ IsPrefix(p, p) /\ k # Nil /\ <<>> \in Positions
  <2>1. k # Nil
    BY DEF TreeKinds
  <2> QED BY <2>1, FrontFacts, PrefixFacts, EmptySeq DEF Place, Positions
<1>2. /\ t \subseteq Nodes /\ IsFiniteSet(t) /\ Kind(t, <<>>) = Hash
      /\ \A n \in t : n.at \in Positions /\ n.is \in TreeKinds /\ n.is = Kind(t, n.at)
  BY KindFacts
<1>3. \A n : n \in u <=> (n \in t /\ ~IsPrefix(p, n.at)) \/ n = [at |-> p, is |-> k]
  BY DEF Put
<1>4. \A q \in Positions : Kind(u, q) = IF q = p THEN k
                                        ELSE IF IsPrefix(p, q) THEN Nil ELSE Kind(t, q)
  BY <1>1, PutKind
<1>5. \A q \in Positions :
        Below(u, q) = IF IsPrefix(p, q) THEN {}
                      ELSE Below(t, q) \cup (IF Front(p) = q THEN {p} ELSE {})
  BY <1>1, PutBelow
<1>6. IsFiniteSet(u) /\ u \subseteq Nodes
  <2>1. IsFiniteSet({n \in t : ~IsPrefix(p, n.at)})
    BY <1>2, FS_Subset
  <2>2. IsFiniteSet(u)
    BY <2>1, FS_AddElement DEF Put
  <2>3. [at |-> p, is |-> k] \in Nodes
    BY <1>1 DEF Nodes, TreeKinds
  <2> QED BY <1>2, <1>3, <2>2, <2>3
<1>7. \A r : There(u, r) <=> (There(t, r) /\ ~IsPrefix(p, r)) \/ r = p
  <2>1. [at |-> p, is |-> k].at = p
    OBVIOUS
  <2> HIDE DEF u
  <2> QED BY <1>3, <2>1 DEF There
<1>8. ASSUME NEW n \in u
      PROVE  /\ n.at \in Positions /\ n.is = Kind(u, n.at)
             /\ n.at = p \/ (n \in t /\ ~IsPrefix(p, n.at))
  <2>1. CASE n \in t /\ ~IsPrefix(p, n.at)
    BY <1>1, <1>2, <1>4, <2>1
  <2>2. CASE n = [at |-> p, is |-> k]
    BY <1>1, <1>4, <2>2
  <2> QED BY <1>3, <2>1, <2>2
<1> HIDE DEF u
<1>9. \A q \in Positions : q # <<>> /\ ~IsPrefix(p, q) => ~IsPrefix(p, Front(q))
  <2> SUFFICES ASSUME NEW q \in Positions, q # <<>>, IsPrefix(p, Front(q)) PROVE IsPrefix(p, q)
    OBVIOUS
  <2>1. PICK f \in Seq(Parts), l \in Parts : q = Append(f, l)
    BY SequenceEmptyOrAppend DEF Positions
  <2>2. Front(q) = f /\ (IsPrefix(p, q) <=> IsPrefix(p, f) \/ p = q)
    BY <1>1, <2>1, AppendFacts DEF Positions
  <2> QED BY <2>2
<1>10. ~IsPrefix(p, <<>>) /\ ~IsPrefix(p, Front(p))
  <2>1. Len(p) = Len(Front(p)) + 1 /\ Len(Front(p)) \in Nat
    BY <1>1, FrontFacts DEF Positions
  <2>2. ~(Len(p) <= 0) /\ ~(Len(p) <= Len(Front(p)))
    BY <2>1
  <2> QED BY <1>1, <2>2, PrefixFacts, EmptySeq DEF Positions
<1>11. Kind(u, <<>>) = Hash
  BY <1>1, <1>2, <1>4, <1>10
<1>12. ASSUME NEW n \in u, n.at # <<>> PROVE Kind(u, Front(n.at)) \in {Hash, Array}
  <2>1. Front(n.at) \in Positions
    BY <1>8, <1>12, FrontFacts DEF Positions
  <2>2. CASE n.at = p
    <3>1. Front(p) # p
      BY <1>1, <1>10
    <3> QED BY <1>1, <1>4, <1>10, <2>2, <3>1
  <2>3. CASE n \in t /\ ~IsPrefix(p, n.at)
    <3>1. ~IsPrefix(p, Front(n.at)) /\ Front(n.at) # p
      BY <1>1, <1>8, <1>9, <1>12, <2>3
    <3>2. Kind(t, Front(n.at)) \in {Hash, Array}
      <4>1. There(t, n.at)
        BY <2>3 DEF There
      <4>2. \A r : There(t, r) /\ r # <<>> => Kind(t, Front(r)) \in {Hash, Array}
        BY KindFacts
      <4> QED BY <1>12, <4>1, <4>2
    <3> QED BY <1>4, <2>1, <3>1, <3>2
  <2> QED BY <1>8, <2>2, <2>3
<1>13. ASSUME NEW n \in u, n.is = Array, NEW i \in 1..Size(u, n.at)
       PROVE  There(u, Element(n.at, i - 1))
  <2> DEFINE q == n.at
             e == Element(q, i - 1)
  <2>1. q \in Positions
    BY <1>8
  <2>2. CASE q = p
    <3>1. Size(u, q) = 0
      BY <1>1, <1>5, <2>1, <2>2, FS_EmptySet DEF Size
    <3> QED BY <1>13, <3>1
  <2>3. CASE n \in t /\ ~IsPrefix(p, q)
    <3>0. n.is = Kind(t, q) /\ There(t, q)
      BY <1>2, <2>3 DEF There
    <3>1. \A j \in 1..Size(t, q) : There(t, Element(q, j - 1))
      <4>1. Kind(t, q) = Array
        BY <1>13, <3>0
      <4> HIDE DEF q
      <4> QED BY <3>0, <4>1, KindFacts
    <3>2. /\ IsFiniteSet(Below(t, q)) /\ Size(t, q) \in Nat
          /\ \A j \in Nat : There(t, Element(q, j)) <=> Element(q, j) \in Below(t, q)
          /\ \A j \in Nat : Element(q, j) \in Positions
      BY <2>1, BelowFacts
    <3>3. \A r \in Below(t, q) : r \in Positions /\ There(t, r) /\ r # <<>> /\ Front(r) = q
      BY <2>1, BelowFacts
    <3>4. ASSUME NEW r \in Below(t, q), r # p PROVE There(u, r)
      <4>1. ~IsPrefix(p, r)
        <5>1. PICK f \in Seq(Parts), l \in Parts : r = Append(f, l)
          BY <3>3, SequenceEmptyOrAppend DEF Positions
        <5>2. Front(r) = f /\ (IsPrefix(p, r) <=> IsPrefix(p, f) \/ p = r)
          BY <1>1, <5>1, AppendFacts DEF Positions
        <5> QED BY <2>3, <3>3, <3>4, <5>2
      <4> QED BY <1>7, <3>3, <4>1
    <3>5. \A r \in Below(t, q) : There(u, r)
      BY <1>7, <3>4
    <3>6. CASE i \in 1..Size(t, q)
      <4>1. i - 1 \in Nat /\ There(t, e)
        BY <3>1, <3>6
      <4> HIDE DEF e
      <4>2. e \in Below(t, q)
        BY <3>2, <4>1 DEF e
      <4> QED BY <3>5, <4>2 DEF e
    <3>7. CASE i \notin 1..Size(t, q)
      <4>1. Below(u, q) # Below(t, q)
        BY <3>7 DEF Size
      <4>2. Below(u, q) = Below(t, q) \cup {p} /\ p \notin Below(t, q) /\ Front(p) = q
        BY <1>5, <2>1, <2>3, <4>1
      <4>3. Size(u, q) = Size(t, q) + 1
        <5> DEFINE D == Below(t, q)
        <5>1. IsFiniteSet(D) /\ p \notin D /\ Below(u, q) = D \cup {p}
          BY <3>2, <4>2
        <5> HIDE DEF D
        <5>2. Cardinality(D \cup {p}) = Cardinality(D) + 1
          BY <5>1, FS_AddElement
        <5> QED BY <5>1, <5>2 DEF Size, D
      <4>4. i - 1 = Size(t, q)
        BY <1>13, <3>2, <3>7, <4>3
      <4>5. ~There(t, p)
        BY <1>1, <2>1, <4>2, BelowFacts
      <4>6. p = e
        BY <1>1, <1>13, <3>0, <4>2, <4>4, <4>5
      <4> QED BY <1>7, <4>6
    <3> QED BY <3>6, <3>7
  <2> QED BY <1>8, <2>2, <2>3
<1>14. \A n \in u : Kind(u, n.at) = n.is
  BY <1>8
<1>15. WellFormed(u)
  BY <1>6, <1>11, <1>12, <1>13, <1>14, Zenon DEF WellFormed
<1> QED BY <1>6, <1>15 DEF AllTrees, u

-----------------------------------------------------------------------------
(* MetadataPaths: what is defined key by key.                              *)

\* What a key is.
LEMMA KeyFacts ==
  ASSUME NEW key \in Keys
  PROVE  /\ IsA(key, "name") \/ IsA(key, "colon") \/ IsA(key, "index") => key \in Parts
         /\ IsA(key, "index") => \E i \in Nat : key = Index(i)
         /\ ~Selects(key) => key \in Parts \cup {All}
         /\ IsA(key, "list") => key[2] \in Seq(Parts)
         /\ IsA(key, "where") => key[2] \in Parts /\ key[3] \subseteq Texts
         /\ key \in Parts => ~Selects(key) /\ key # All
         /\ ~Selects(All) /\ All \notin Parts
BY DEF Keys, Parts, IsA, Selects, All, Index

\* Every element that fits has its key among s.
TakesAll(s, t, p, key) ==
  \A j \in 0..(Size(t, p) - 1) : Fits(t, p, key, j) => \E i \in DOMAIN s : s[i] = Index(j)

\* The keys selected are those of the elements that fit, and of all of them.
LEMMA SelectedOnes ==
  ASSUME NEW t \in AllTrees, NEW p \in Positions, NEW key
  PROVE  /\ Selected(t, p, key) \in Seq(Parts)
         /\ \A i \in DOMAIN Selected(t, p, key) :
              \E j \in 0..(Size(t, p) - 1) :
                Selected(t, p, key)[i] = Index(j) /\ Fits(t, p, key, j)
         /\ TakesAll(Selected(t, p, key), t, p, key)
<1> DEFINE N == Size(t, p)
           Fit(s) == \A i \in DOMAIN s :
                       \E j \in 0..(N - 1) : s[i] = Index(j) /\ Fits(t, p, key, j)
           Every(s, n) == \A j \in 0..(n - 1) :
                            Fits(t, p, key, j) => \E i \in DOMAIN s : s[i] = Index(j)
           T == [n \in Nat |-> {s \in Seq(Parts) : Fit(s) /\ Every(s, n)}]
           Next1(s, n) == IF Fits(t, p, key, n - 1) THEN Append(s, Index(n - 1)) ELSE s
           S == [n \in 1..N |-> [s \in T[n - 1] |-> Next1(s, n)]]
           chosen(f) == [n \in 0..N |->
                           IF n = 0 THEN <<>>
                           ELSE IF Fits(t, p, key, n - 1) THEN Append(f[n - 1], Index(n - 1))
                           ELSE f[n - 1]]
<1>1. N \in Nat /\ \A i \in Nat : Index(i) \in Parts
  BY BelowFacts
<1>2. \A n \in Nat : \A s : s \in T[n] <=> s \in Seq(Parts) /\ Fit(s) /\ Every(s, n)
  OBVIOUS
<1>3. <<>> \in T[0]
  <2>1. <<>> \in Seq(Parts) /\ Fit(<<>>) /\ Every(<<>>, 0)
    BY EmptySeq
  <2> QED BY <1>2, <2>1
<1>4. ASSUME NEW n \in 1..N, NEW s \in T[n - 1] PROVE Next1(s, n) \in T[n]
  <2>1. /\ n \in Nat /\ n - 1 \in 0..(N - 1) /\ n - 1 \in Nat /\ Index(n - 1) \in Parts
        /\ \A j \in 0..(n - 1) : j \in 0..(n - 1 - 1) \/ j = n - 1
    BY <1>1
  <2>2. s \in Seq(Parts) /\ Fit(s) /\ Every(s, n - 1)
    BY <1>2, <2>1
  <2>3. CASE Fits(t, p, key, n - 1)
    <3> DEFINE r == Append(s, Index(n - 1))
    <3>1. /\ r \in Seq(Parts) /\ DOMAIN r = 1..(Len(s) + 1) /\ r[Len(s) + 1] = Index(n - 1)
          /\ DOMAIN s = 1..Len(s) /\ Len(s) \in Nat
          /\ \A i \in DOMAIN s : r[i] = s[i]
      BY <2>1, <2>2
    <3> HIDE DEF r, T
    <3>2. Len(s) + 1 \in DOMAIN r /\ \A i \in DOMAIN s : i \in DOMAIN r
      BY <3>1
    <3>3. Fit(r)
      BY <2>1, <2>2, <2>3, <3>1
    <3>4. Every(r, n)
      BY <2>1, <2>2, <3>1, <3>2
    <3> QED BY <1>2, <2>1, <2>3, <3>1, <3>3, <3>4 DEF r
  <2>4. CASE ~Fits(t, p, key, n - 1)
    <3>1. Every(s, n)
      BY <2>1, <2>2, <2>4
    <3> HIDE DEF Fit, Every, T
    <3> QED BY <1>2, <2>1, <2>2, <2>4, <3>1
  <2> QED BY <2>3, <2>4
<1> HIDE DEF N, T, Next1
<1>5. \A n \in 1..N : \A s \in T[n - 1] : S[n][s] = Next1(s, n) /\ S[n][s] \in T[n]
  BY <1>4
<1> HIDE DEF S
<1>6. PICK f : Goes(f, <<>>, S, T, N)
  BY <1>1, <1>3, <1>5, Stepwise, Zenon
<1>7. f = chosen(f)
  <2>1. f = [n \in 0..N |-> f[n]]
    BY <1>6 DEF Goes
  <2>2. \A n \in 0..N : f[n] = IF n = 0 THEN <<>> ELSE Next1(f[n - 1], n)
    <3>1. \A n \in 0..N : n # 0 => n \in 1..N /\ n - 1 \in 0..N
      BY <1>1
    <3> QED BY <1>5, <1>6, <3>1 DEF Goes
  <2> QED BY <2>1, <2>2 DEF Next1
<1> DEFINE g == CHOOSE h : h = chosen(h)
           D == {n \in Nat : n <= N => g[n] \in T[n]}
<1>8. g = chosen(g)
  BY <1>7
<1>9. Selected(t, p, key) = g[N]
  BY DEF Selected, N
<1> HIDE DEF g
<1>10. 0 \in D
  BY <1>1, <1>3, <1>8
<1>11. ASSUME NEW n \in Nat, n \in D PROVE n + 1 \in D
  <2> SUFFICES ASSUME n + 1 <= N PROVE g[n + 1] \in T[n + 1]
    OBVIOUS
  <2>1. n + 1 \in 1..N /\ n + 1 \in 0..N /\ n + 1 # 0 /\ (n + 1) - 1 = n /\ g[n] \in T[n]
    BY <1>1, <1>11
  <2>2. g[n + 1] = Next1(g[n], n + 1)
    BY <1>8, <2>1 DEF Next1
  <2> QED BY <1>4, <2>1, <2>2
<1> HIDE DEF D
<1>12. Nat \subseteq D
  BY <1>10, <1>11, Induction
<1>13. g[N] \in T[N]
  BY <1>1, <1>12 DEF D
<1> QED BY <1>1, <1>2, <1>9, <1>13 DEF N, TakesAll

\* What goes from one set to the next with each of several keys ends in the last.
LEMMA InTurn ==
  ASSUME NEW t, NEW p, NEW K, NEW ks \in Seq(K), NEW rest, NEW v, NEW below, NEW T,
         Done(t) \in T[0],
         \A i \in 1..Len(ks) : \A o \in T[i - 1] :
           IF o.raised THEN o \in T[i] ELSE Follow(o.tree, p, ks[i], rest, v, below) \in T[i]
  PROVE  Each(t, p, ks, rest, v, below) \in T[Len(ks)]
<1> DEFINE N == Len(ks)
           Then(o, n) == IF o.raised THEN o ELSE Follow(o.tree, p, ks[n], rest, v, below)
           S == [n \in 1..N |-> [o \in T[n - 1] |-> Then(o, n)]]
           after(f) == [n \in 0..N |->
                          IF n = 0 THEN Done(t)
                          ELSE LET done == f[n - 1] IN
                               IF done.raised THEN done
                               ELSE Follow(done.tree, p, ks[n], rest, v, below)]
<1>1. N \in Nat
  OBVIOUS
<1>2. \A n \in 1..N : \A o \in T[n - 1] : Then(o, n) \in T[n]
  OBVIOUS
<1>3. \A f : after(f) = [n \in 0..N |-> IF n = 0 THEN Done(t) ELSE Then(f[n - 1], n)]
  OBVIOUS
<1> DEFINE g == CHOOSE h : h = after(h)
           D == {n \in Nat : n <= N => g[n] \in T[n]}
<1>4. Each(t, p, ks, rest, v, below) = g[N]
  BY DEF Each
<1> HIDE DEF N, Then, after
<1>5. \A n \in 1..N : \A o \in T[n - 1] : S[n][o] = Then(o, n) /\ S[n][o] \in T[n]
  BY <1>2
<1> HIDE DEF S
<1>6. PICK f : Goes(f, Done(t), S, T, N)
  BY <1>1, <1>5, Stepwise, Zenon
<1>7. f = after(f)
  <2>1. f = [n \in 0..N |-> f[n]]
    BY <1>6 DEF Goes
  <2>2. \A n \in 0..N : f[n] = IF n = 0 THEN Done(t) ELSE Then(f[n - 1], n)
    <3>1. \A n \in 0..N : n # 0 => n \in 1..N /\ n - 1 \in 0..N
      BY <1>1
    <3> QED BY <1>5, <1>6, <3>1 DEF Goes
  <2> QED BY <1>3, <2>1, <2>2
<1>8. g = after(g)
  BY <1>7
<1> HIDE DEF g
<1>9. 0 \in D
  BY <1>1, <1>3, <1>8
<1>10. ASSUME NEW n \in Nat, n \in D PROVE n + 1 \in D
  <2> SUFFICES ASSUME n + 1 <= N PROVE g[n + 1] \in T[n + 1]
    OBVIOUS
  <2>1. n + 1 \in 1..N /\ n + 1 \in 0..N /\ n + 1 # 0 /\ (n + 1) - 1 = n /\ g[n] \in T[n]
    BY <1>1, <1>10
  <2>2. g[n + 1] = Then(g[n], n + 1)
    BY <1>3, <1>8, <2>1
  <2> QED BY <1>2, <2>1, <2>2
<1> HIDE DEF D
<1>11. Nat \subseteq D
  BY <1>9, <1>10, Induction
<1> QED BY <1>1, <1>4, <1>11 DEF D, N

\* What holds before the first of several keys, and after each one that does
\* not come after an exception if it did before it, holds after all of them.
LEMMA OneByOne ==
  ASSUME NEW t, NEW p, NEW K, NEW ks \in Seq(K), NEW rest, NEW v, NEW below, NEW O,
         Done(t) \in O,
         \A i \in 1..Len(ks) : \A o \in O :
           ~o.raised => Follow(o.tree, p, ks[i], rest, v, below) \in O
  PROVE  Each(t, p, ks, rest, v, below) \in O
<1> DEFINE T == [i \in Nat |-> O]
<1>1. Len(ks) \in Nat /\ \A i \in Nat : T[i] = O
  OBVIOUS
<1>2. \A i \in 1..Len(ks) : i \in Nat /\ i - 1 \in Nat
  BY <1>1
<1> HIDE DEF T
<1>3. \A i \in 1..Len(ks) : \A o \in T[i - 1] :
        IF o.raised THEN o \in T[i] ELSE Follow(o.tree, p, ks[i], rest, v, below) \in T[i]
  BY <1>1, <1>2
<1>4. Each(t, p, ks, rest, v, below) \in T[Len(ks)]
  BY <1>1, <1>3, InTurn
<1> QED BY <1>1, <1>4

\* What the last n keys of a path do, if below is what the last n - 1 do.
Call(keys, v, n, below) ==
  [c \in Calls |-> Traverse(c.tree, c.at, keys[Len(keys) - n + 1],
                            SubSeq(keys, Len(keys) - n + 2, Len(keys)), v, below)]

\* What holds of no key, and of one key more if it does of the rest, holds of a path.
LEMMA KeyByKey ==
  ASSUME NEW t, NEW K, NEW keys \in Seq(K), NEW v, NEW T,
         [c \in Calls |-> Done(c.tree)] \in T[0],
         \A n \in 1..Len(keys) : \A w \in T[n - 1] : Call(keys, v, n, w) \in T[n]
  PROVE  \E w \in T[Len(keys)] : Updated(t, keys, v) = w[[tree |-> t, at |-> <<>>]]
<1> DEFINE N == Len(keys)
           start == [c \in Calls |-> Done(c.tree)]
           S == [n \in 1..N |-> [w \in T[n - 1] |-> Call(keys, v, n, w)]]
           below(f) == [n \in 0..N |->
                          [c \in Calls |->
                             IF n = 0 THEN Done(c.tree)
                             ELSE Traverse(c.tree, c.at, keys[N - n + 1],
                                           SubSeq(keys, N - n + 2, N), v, f[n - 1])]]
           g == CHOOSE h : h = below(h)
           D == {n \in Nat : n <= N => g[n] \in T[n]}
<1>1. N \in Nat
  OBVIOUS
<1>2. \A f : below(f) = [n \in 0..N |-> IF n = 0 THEN start ELSE Call(keys, v, n, f[n - 1])]
  BY DEF Call
<1>3. Updated(t, keys, v) = g[N][[tree |-> t, at |-> <<>>]]
  BY DEF Updated
<1>4. \A n \in 1..N : \A w \in T[n - 1] : S[n][w] = Call(keys, v, n, w) /\ S[n][w] \in T[n]
  OBVIOUS
<1>5. start \in T[0]
  OBVIOUS
<1> HIDE DEF N, S, start, below
<1>6. PICK f : Goes(f, start, S, T, N)
  BY <1>1, <1>4, <1>5, Stepwise, Zenon
<1>7. f = below(f)
  <2>1. f = [n \in 0..N |-> f[n]]
    BY <1>6 DEF Goes
  <2>2. \A n \in 0..N : f[n] = IF n = 0 THEN start ELSE Call(keys, v, n, f[n - 1])
    <3>1. \A n \in 0..N : n # 0 => n \in 1..N /\ n - 1 \in 0..N
      BY <1>1
    <3> QED BY <1>4, <1>6, <3>1 DEF Goes
  <2> QED BY <1>2, <2>1, <2>2
<1>8. g = below(g)
  BY <1>7
<1> HIDE DEF g
<1>9. 0 \in D
  BY <1>1, <1>2, <1>5, <1>8
<1>10. ASSUME NEW n \in Nat, n \in D PROVE n + 1 \in D
  <2> SUFFICES ASSUME n + 1 <= N PROVE g[n + 1] \in T[n + 1]
    OBVIOUS
  <2>1. n + 1 \in 1..N /\ n + 1 \in 0..N /\ n + 1 # 0 /\ (n + 1) - 1 = n /\ g[n] \in T[n]
    BY <1>1, <1>10
  <2>2. g[n + 1] = Call(keys, v, n + 1, g[n])
    BY <1>2, <1>8, <2>1
  <2> QED BY <1>4, <2>1, <2>2
<1> HIDE DEF D
<1>11. Nat \subseteq D
  BY <1>9, <1>10, Induction
<1>12. g[N] \in T[N]
  BY <1>1, <1>11 DEF D
<1> QED BY <1>3, <1>12 DEF N

-----------------------------------------------------------------------------
(* MetadataPaths: the metadata stays sound.                                *)

Steps == Parts \cup {All}

\* What the sets Calls and Outcomes consist of.
LEMMA OutcomeFacts ==
  /\ \A t \in AllTrees : Done(t) \in Outcomes /\ Raised(t) \in Outcomes
  /\ \A o \in Outcomes : o.tree \in AllTrees /\ o.raised \in BOOLEAN
  /\ \A c \in Calls : c.tree \in AllTrees /\ c.at \in Seq(Steps) \cup Pieces
  /\ \A t \in AllTrees, p \in Seq(Steps) \cup Pieces : [tree |-> t, at |-> p] \in Calls
BY DEF Outcomes, Calls, Steps, Done, Raised

\* A key below something that is there is a place for something, in a hash any one.
LEMMA Places ==
  ASSUME NEW t \in AllTrees, NEW p, NEW key \in Steps, NEW v
  PROVE  /\ p \in Seq(Steps) => Append(p, key) \in Seq(Steps)
         /\ Positions \subseteq Seq(Steps) /\ Missing \in Seq(Steps) /\ <<>> \in Seq(Steps)
         /\ Kind(t, Missing) = Nil
         /\ Kind(t, p) # Nil => p \in Positions
         /\ key \in Parts /\ Kind(t, p) = Hash => Place(t, Append(p, key))
         /\ Kind(t, p) = Array => Place(t, Element(p, Size(t, p)))
         /\ Kind(t, p) \in Leaves => Place(t, p)
<1>1. Positions \subseteq Seq(Steps) /\ <<>> \in Seq(Steps)
  BY SeqMonotonic, EmptySeq DEF Positions, Steps
<1>2. Missing \in Seq(Steps) /\ Missing \notin Positions
  <2>1. All \notin Parts /\ All \in Steps
    BY DEF Steps, All, Parts
  <2>2. Missing[1] = All /\ 1 \in 1..Len(Missing) /\ Missing \in Seq(Steps)
    BY <2>1 DEF Missing
  <2>3. Missing \notin Positions
    BY <2>1, <2>2, ElementOfSeq DEF Positions
  <2> QED BY <2>2, <2>3
<1>3. Kind(t, Missing) = Nil
  BY <1>2, KindFacts
<1>4. Kind(t, p) # Nil => p \in Positions /\ There(t, p)
  BY KindFacts
<1>5. key \in Parts /\ Kind(t, p) = Hash => Place(t, Append(p, key))
  BY <1>4, AppendFacts DEF Place, Positions
<1>6. Kind(t, p) = Array => Place(t, Element(p, Size(t, p)))
  <2> SUFFICES ASSUME Kind(t, p) = Array PROVE Place(t, Element(p, Size(t, p)))
    OBVIOUS
  <2>1. p \in Positions
    BY <1>4
  <2>2. Size(t, p) \in Nat
    BY <2>1, BelowFacts
  <2> DEFINE e == Element(p, Size(t, p))
  <2>3. e \in Positions /\ e # <<>> /\ Front(e) = p
    BY <2>1, <2>2, BelowFacts
  <2>4. e = Element(Front(e), Size(t, Front(e)))
    BY <2>3
  <2> HIDE DEF e
  <2>5. Place(t, e)
    BY <2>3, <2>4 DEF Place
  <2> QED BY <2>5 DEF e
<1>7. Kind(t, p) \in Leaves => Place(t, p)
  <2> SUFFICES ASSUME Kind(t, p) \in Leaves PROVE Place(t, p)
    OBVIOUS
  <2>1. Kind(t, p) # Nil /\ Kind(t, p) # Hash
    OBVIOUS
  <2>2. p # <<>>
    BY <2>1, KindFacts
  <2>3. Kind(t, Front(p)) \in {Hash, Array}
    BY <1>4, <2>1, <2>2, KindFacts
  <2> QED BY <1>4, <2>1, <2>2, <2>3 DEF Place
<1> QED BY <1>1, <1>2, <1>3, <1>4, <1>5, <1>6, <1>7, AppendProperties

\* What a value can be, and what becomes of a missing key.
Settable == Texts \cup {Hash, True, False}

LEMMA SettableKinds == Settable \subseteq TreeKinds /\ Settable \cap Texts = Texts
BY DEF Settable, TreeKinds, Leaves

\* What is read from a text is in no tree; a text that is in one is at a place.
LEMMA PieceFacts ==
  ASSUME NEW t \in AllTrees, NEW p
  PROVE  /\ p \in Pieces => /\ p \notin Positions /\ Kind(t, p) = Nil
                            /\ Leaf(t, p) \in Leaves
         /\ p \notin Pieces => Leaf(t, p) = Kind(t, p)
         /\ Leaf(t, p) \in Leaves => p \in Pieces \/ Place(t, p)
         /\ Missing \notin Pieces
         /\ \A s \in Leaves : Piece(s) \in Pieces
<1>1. ASSUME p \in Pieces
      PROVE  p \notin Positions /\ Kind(t, p) = Nil /\ Leaf(t, p) \in Leaves
  <2>1. PICK s \in Leaves : p = <<All, s>>
    BY <1>1 DEF Pieces
  <2>2. p[1] = All /\ Len(p) = 2 /\ p[2] = s
    BY <2>1
  <2>3. All \notin Parts
    BY DEF All, Parts
  <2>4. p \notin Positions
    <3> SUFFICES ASSUME p \in Seq(Parts) PROVE FALSE
      BY DEF Positions
    <3> QED BY <2>2, <2>3, ElementOfSeq
  <2>5. Kind(t, p) = Nil
    BY <2>4, KindFacts
  <2> QED BY <1>1, <2>2, <2>4, <2>5 DEF Leaf
<1>2. p \notin Pieces => Leaf(t, p) = Kind(t, p)
  BY DEF Leaf
<1>3. Leaf(t, p) \in Leaves => p \in Pieces \/ Place(t, p)
  <2>1. All \in Steps
    BY DEF Steps
  <2> QED BY <1>2, <2>1, Places
<1>4. Missing \notin Pieces
  <2>1. Len(Missing) = 1 /\ \A s \in Leaves : Len(<<All, s>>) = 2
    BY DEF Missing
  <2>2. \A x \in Pieces : \E s \in Leaves : x = <<All, s>>
    BY DEF Pieces
  <2> QED BY <2>1, <2>2
<1>5. \A s \in Leaves : Piece(s) \in Pieces
  BY DEF Piece, Pieces
<1> QED BY <1>1, <1>2, <1>3, <1>4, <1>5

\* The letters of a text, also after a change, and what its "[]" yields.
LEMMA TextFacts ==
  /\ \A l : Text(l) \in Texts <=> l \in Seq(Parts)
  /\ \A s \in Texts : s = Text(Letters(s)) /\ Letters(s) \in Seq(Parts)
BY DEF Texts, Text, Letters

LEMMA ReplacedTyped ==
  ASSUME NEW l \in Seq(Parts), NEW m \in Seq(Parts), NEW k \in Range(l)
  PROVE  Replaced(l, k, m) \in Seq(Parts)
<1> DEFINE First(i) == l[i] = k /\ \A j \in DOMAIN l : l[j] = k => i <= j
           S == {i \in DOMAIN l : l[i] = k}
<1>1. DOMAIN l = 1..Len(l) /\ Len(l) \in Nat
  OBVIOUS
<1>2. S # {} /\ S \subseteq Nat
  BY <1>1 DEF Range
<1>3. PICK i \in S : \A j \in S : i <= j
  BY <1>2, Least
<1>4. i \in DOMAIN l /\ First(i)
  BY <1>3
<1> DEFINE c == CHOOSE x \in DOMAIN l : First(x)
<1>5. c \in DOMAIN l
  BY <1>4
<1>6. Replaced(l, k, m) = SubSeq(l, 1, c - 1) \o m \o SubSeq(l, c + 1, Len(l))
  BY DEF Replaced
<1> HIDE DEF c
<1>7. SubSeq(l, 1, c - 1) \in Seq(Parts) /\ SubSeq(l, c + 1, Len(l)) \in Seq(Parts)
  BY <1>1, <1>5
<1> QED BY <1>6, <1>7

LEMMA BracketTyped ==
  ASSUME NEW s \in Leaves, NEW key \in Parts
  PROVE  Bracket(s, key) \in Leaves \cup {Nil}
<1>1. CASE s \in Texts
  <2>1. ASSUME NEW k \in Parts PROVE Text(<<k>>) \in Leaves
    <3>1. <<k>> \in Seq(Parts)
      OBVIOUS
    <3> QED BY <3>1, TextFacts
  <2>2. Letters(s) \in Seq(Parts)
    BY <1>1, TextFacts
  <2>3. CASE IsA(key, "index")
    <3>1. key[2] \in Nat
      BY <2>3 DEF Parts, IsA
    <3>2. key[2] < Len(Letters(s)) => Letters(s)[key[2] + 1] \in Parts
      BY <2>2, <3>1
    <3> QED BY <1>1, <2>1, <2>3, <3>2 DEF Bracket, Letter
  <2>4. CASE ~IsA(key, "index")
    BY <1>1, <2>1, <2>4 DEF Bracket, Part
  <2> QED BY <2>3, <2>4
<1>2. CASE s \notin Texts
  BY <1>2 DEF Bracket, Leaves
<1> QED BY <1>1, <1>2

\* No text, or a letter of one.
OfNoText(p) == p \in Pieces => p[2] \notin Texts

\* A key at a text, a number, true or false does nothing, changes the text, or
\* goes on with what is in no tree; it raises only if the value is no text, or
\* the key is no name.
LeafDoes(o, t, p, key, rest, v, below) ==
  \/ o = Done(t)
  \/ /\ rest = <<>> /\ o = Raised(t)
     /\ ~(IsA(key, "name") /\ (v \in Texts \/ Leaf(t, p) \notin Texts))
  \/ /\ rest = <<>> /\ p \notin Pieces /\ Kind(t, p) \in Texts /\ v \in Texts
     /\ \E s \in Texts : o = Done(Put(t, p, s))
  \/ rest # <<>> /\ key = All /\ o = below[[tree |-> t, at |-> p]]
  \/ /\ rest # <<>> /\ key # All
     /\ \E r \in {Missing} \cup Pieces : /\ o = below[[tree |-> t, at |-> r]]
                                       /\ (Leaf(t, p) \in Texts \/ OfNoText(r))

LEMMA LeafOutcome ==
  ASSUME NEW t \in AllTrees, NEW p, Leaf(t, p) \in Leaves, NEW key \in Steps, NEW rest,
         NEW v \in Settable, NEW below
  PROVE  LeafDoes(FollowLeaf(t, p, key, rest, v, below), t, p, key, rest, v, below)
<1> DEFINE o == FollowLeaf(t, p, key, rest, v, below)
           s == Leaf(t, p)
           got == Bracket(s, key)
<1>1. CASE key # All /\ ~IsA(key, "index") /\ got = Nil
  BY <1>1 DEF FollowLeaf, LeafDoes
<1>2. CASE ~(key # All /\ ~IsA(key, "index") /\ got = Nil) /\ rest = <<>>
  <2>1. o = SetLeaf(t, p, key, v)
    BY <1>2 DEF FollowLeaf
  <2>2. CASE s \notin Texts \/ v \notin Texts
    <3>1. o = Raised(t)
      BY <2>1, <2>2 DEF SetLeaf
    <3>2. IsA(key, "name") /\ s \notin Texts => FALSE
      <4> SUFFICES ASSUME IsA(key, "name"), s \notin Texts PROVE FALSE
        OBVIOUS
      <4>1. key # All /\ ~IsA(key, "index")
        BY DEF IsA, All
      <4>2. got = Nil
        BY <4>1 DEF Bracket
      <4> QED BY <1>2, <4>1, <4>2
    <3> QED BY <1>2, <2>2, <3>1, <3>2 DEF LeafDoes
  <2>3. CASE s \in Texts /\ v \in Texts
    <3>1. Letters(s) \in Seq(Parts) /\ Letters(v) \in Seq(Parts)
      BY <2>3, TextFacts
    <3>2. ASSUME NEW l \in Seq(Parts), o = Done(Rewritten(t, p, l))
          PROVE  \/ o = Done(t)
                 \/ p \notin Pieces /\ Kind(t, p) \in Texts /\ \E x \in Texts : o = Done(Put(t, p, x))
      BY <2>3, <3>2, TextFacts, PieceFacts DEF Rewritten
    <3>3. CASE key = All
      <4>1. Letters(s) \o Letters(v) \in Seq(Parts)
        BY <3>1
      <4>2. o \in {Done(t), Done(Rewritten(t, p, Letters(s) \o Letters(v)))}
        BY <2>1, <2>3, <3>3 DEF SetLeaf
      <4> QED BY <1>2, <2>3, <3>2, <4>1, <4>2 DEF LeafDoes
    <3>4. CASE key # All /\ key \in Range(Letters(s))
      <4>1. Replaced(Letters(s), key, Letters(v)) \in Seq(Parts)
        BY <3>1, <3>4, ReplacedTyped
      <4>2. o = Done(Rewritten(t, p, Replaced(Letters(s), key, Letters(v))))
        BY <2>1, <2>3, <3>4 DEF SetLeaf
      <4> QED BY <1>2, <2>3, <3>2, <4>1, <4>2 DEF LeafDoes
    <3>5. CASE key # All /\ key \notin Range(Letters(s))
      <4>1. o = Raised(t)
        BY <2>1, <2>3, <3>5 DEF SetLeaf
      <4>2. ~IsA(key, "index") => got = Nil
        BY <2>3, <3>5 DEF Bracket, Part
      <4>3. IsA(key, "index") => ~IsA(key, "name")
        BY DEF IsA
      <4> QED BY <1>2, <3>5, <4>1, <4>2, <4>3 DEF LeafDoes
    <3> QED BY <3>3, <3>4, <3>5
  <2> QED BY <2>2, <2>3
<1>3. CASE ~(key # All /\ ~IsA(key, "index") /\ got = Nil) /\ rest # <<>> /\ key = All
  BY <1>3 DEF FollowLeaf, LeafDoes
<1>4. CASE ~(key # All /\ ~IsA(key, "index") /\ got = Nil) /\ rest # <<>> /\ key # All
  <2>1. key \in Parts
    BY <1>4 DEF Steps
  <2>2. got = Nil \/ Piece(got) \in Pieces
    BY <2>1, BracketTyped, PieceFacts
  <2> DEFINE r == IF got = Nil THEN Missing ELSE Piece(got)
  <2>3. o = below[[tree |-> t, at |-> r]]
    BY <1>4 DEF FollowLeaf
  <2>4. s \in Texts \/ OfNoText(r)
    <3> SUFFICES ASSUME s \notin Texts PROVE OfNoText(r)
      OBVIOUS
    <3>1. got \notin Texts
      <4>1. Number \notin Texts
        BY DEF Number, Texts
      <4> QED BY <4>1 DEF Bracket
    <3>2. Piece(got)[2] = got /\ Missing \notin Pieces
      BY PieceFacts DEF Piece
    <3> QED BY <3>1, <3>2 DEF OfNoText
  <2>5. r \in {Missing} \cup Pieces
    BY <2>2
  <2> HIDE DEF r
  <2> QED BY <1>4, <2>3, <2>4, <2>5 DEF LeafDoes
<1> QED BY <1>1, <1>2, <1>3, <1>4

\* Adding to a list leaves a tree.
LEMMA AppendKeeps ==
  ASSUME NEW t \in AllTrees, NEW p, NEW v \in Settable
  PROVE  AppendTo(t, p, v) \in Outcomes
<1>1. v \in TreeKinds
  BY SettableKinds
<1>2. CASE Kind(t, p) = Array
  <2>1. Put(t, Element(p, Size(t, p)), v) \in AllTrees
    BY <1>1, <1>2, Places, PutKeeps DEF Steps
  <2> QED BY <1>2, <2>1, OutcomeFacts DEF AppendTo
<1>3. CASE Kind(t, p) # Array
  BY <1>3, OutcomeFacts DEF AppendTo
<1> QED BY <1>2, <1>3

\* One key leaves a tree if the rest of them does.
LEMMA FollowKeeps ==
  ASSUME NEW t \in AllTrees, NEW p \in Seq(Steps) \cup Pieces, NEW key \in Steps, NEW rest,
         NEW v \in Settable, NEW below \in [Calls -> Outcomes]
  PROVE  Follow(t, p, key, rest, v, below) \in Outcomes
<1> DEFINE q == Append(p, key)
           On(u, r) == below[[tree |-> u, at |-> r]]
<1>1. v \in TreeKinds /\ Hash \in TreeKinds /\ Fresh(rest) \in TreeKinds
  BY SettableKinds DEF TreeKinds, Fresh
<1>2. \A u \in AllTrees, r \in Seq(Steps) \cup Pieces : On(u, r) \in Outcomes
  BY OutcomeFacts
<1>l. CASE Leaf(t, p) \in Leaves
  <2>1. Missing \in Seq(Steps)
    BY Places
  <2>2. \A r \in {p, Missing} \cup Pieces : On(t, r) \in Outcomes
    BY <1>2, <2>1
  <2>3. \A s \in Texts : p \notin Pieces => Put(t, p, s) \in AllTrees
    BY <1>l, PieceFacts, PutKeeps DEF TreeKinds
  <2> DEFINE o == FollowLeaf(t, p, key, rest, v, below)
  <2>4. \/ o \in {Done(t), Raised(t)}
        \/ \E s \in Texts : p \notin Pieces /\ o = Done(Put(t, p, s))
        \/ \E r \in {p, Missing} \cup Pieces : o = On(t, r)
    <3>1. LeafDoes(o, t, p, key, rest, v, below)
      BY <1>l, LeafOutcome
    <3> HIDE DEF o
    <3> QED BY <3>1 DEF LeafDoes
  <2> HIDE DEF o, On
  <2>5. o \in Outcomes
    BY <2>2, <2>3, <2>4, OutcomeFacts
  <2> QED BY <1>l, <2>5 DEF Follow, o
<1>n. SUFFICES ASSUME Leaf(t, p) \notin Leaves
               PROVE  FollowNode(t, p, key, rest, v, below) \in Outcomes
  BY <1>l DEF Follow
<1>p. p \in Seq(Steps)
  BY <1>n, PieceFacts
<1>3. q \in Seq(Steps) /\ Missing \in Seq(Steps)
  BY <1>p, Places
<1>4. CASE key \in Parts /\ Kind(t, p) = Hash
  <2>1. \A k \in TreeKinds : Put(t, q, k) \in AllTrees
    BY <1>4, Places, PutKeeps
  <2>2. \A k \in TreeKinds : On(Put(t, q, k), q) \in Outcomes
    BY <1>2, <1>3, <2>1
  <2>3. On(t, q) \in Outcomes /\ On(t, Missing) \in Outcomes
    BY <1>2, <1>3
  <2>4. /\ \A k \in TreeKinds : Done(Put(t, q, k)) \in Outcomes
        /\ Done(t) \in Outcomes /\ Raised(t) \in Outcomes
    BY <2>1, OutcomeFacts
  <2>5. CASE IsA(key, "name")
    BY <1>1, <1>4, <2>2, <2>3, <2>4, <2>5 DEF FollowNode
  <2>6. CASE IsA(key, "colon")
    <3>1. ~IsA(key, "name")
      BY <2>6 DEF IsA
    <3> QED BY <1>1, <1>4, <2>3, <2>4, <2>6, <3>1 DEF FollowNode
  <2>7. CASE IsA(key, "index")
    <3>1. ~IsA(key, "name") /\ ~IsA(key, "colon")
      BY <2>7 DEF IsA
    <3> QED BY <1>1, <1>4, <2>3, <2>4, <2>7, <3>1 DEF FollowNode
  <2> QED BY <1>4, <2>5, <2>6, <2>7 DEF Parts, IsA
<1>5. CASE key \in Parts /\ Kind(t, p) # Hash
  <2> HIDE DEF On, q
  <2> QED BY <1>2, <1>3, <1>5, OutcomeFacts DEF FollowNode, On, q, IsA, Parts
<1>6. CASE key \notin Parts
  <2>1. key = All
    BY <1>6 DEF Steps
  <2> QED BY <1>2, <2>1, AppendKeeps, OutcomeFacts DEF FollowNode, IsA, All
<1> QED BY <1>4, <1>5, <1>6

\* The keys that a key stands for name one thing each.
LEMMA AlternativesTyped ==
  ASSUME NEW t \in AllTrees, NEW p, NEW key \in Keys
  PROVE  Alternatives(t, p, key) \in Seq(Steps)
<1>1. \A ks \in Seq(Parts) : ks \in Seq(Steps)
  BY SeqMonotonic DEF Steps
<1>2. CASE IsA(key, "list")
  BY <1>1, <1>2, KeyFacts DEF Alternatives
<1>3. CASE IsA(key, "where") /\ Askable(t, p)
  <2>1. p \in Positions
    BY <1>3, KindFacts DEF Askable
  <2>2. Selected(t, p, key) \in Seq(Parts)
    BY <2>1, SelectedOnes
  <2> QED BY <1>1, <1>3, <2>2 DEF Alternatives, IsA
<1>4. CASE IsA(key, "where") /\ ~Askable(t, p)
  BY <1>4, EmptySeq DEF Alternatives, IsA
<1>5. CASE ~Selects(key)
  <2>1. key \in Steps
    BY <1>5, KeyFacts DEF Steps
  <2> QED BY <1>5, <2>1 DEF Alternatives, Selects
<1> QED BY <1>2, <1>3, <1>4, <1>5 DEF Selects

\* So does a key that stands for several.
LEMMA TraverseKeeps ==
  ASSUME NEW t \in AllTrees, NEW p \in Seq(Steps) \cup Pieces, NEW key \in Keys, NEW rest,
         NEW v \in Settable, NEW below \in [Calls -> Outcomes]
  PROVE  Traverse(t, p, key, rest, v, below) \in Outcomes
<1> DEFINE ks == Alternatives(t, p, key)
<1>1. ks \in Seq(Steps) /\ \A i \in 1..Len(ks) : ks[i] \in Steps
  BY AlternativesTyped
<1>2. Done(t) \in Outcomes
  BY OutcomeFacts
<1> HIDE DEF ks
<1>3. \A i \in 1..Len(ks) : \A o \in Outcomes :
        ~o.raised => Follow(o.tree, p, ks[i], rest, v, below) \in Outcomes
  BY <1>1, FollowKeeps, OutcomeFacts
<1>4. Each(t, p, ks, rest, v, below) \in Outcomes
  BY <1>1, <1>2, <1>3, OneByOne
<1> QED BY <1>4, OutcomeFacts DEF Traverse, ks

\* And so does a path.
LEMMA UpdatedKeeps ==
  ASSUME NEW t \in AllTrees, NEW keys \in Seq(Keys), NEW v \in Settable
  PROVE  Updated(t, keys, v) \in Outcomes
<1> DEFINE T == [n \in Nat |-> [Calls -> Outcomes]]
<1>1. [c \in Calls |-> Done(c.tree)] \in T[0]
  BY OutcomeFacts
<1>2. ASSUME NEW n \in 1..Len(keys), NEW w \in T[n - 1] PROVE Call(keys, v, n, w) \in T[n]
  <2>1. w \in [Calls -> Outcomes] /\ T[n] = [Calls -> Outcomes]
    BY <1>2
  <2>2. keys[Len(keys) - n + 1] \in Keys
    BY <1>2
  <2>3. Call(keys, v, n, w) \in [Calls -> Outcomes]
    BY <2>1, <2>2, TraverseKeeps, OutcomeFacts DEF Call
  <2> QED BY <2>1, <2>3
<1> HIDE DEF T
<1>3. PICK w \in T[Len(keys)] : Updated(t, keys, v) = w[[tree |-> t, at |-> <<>>]]
  BY <1>1, <1>2, KeyByKey
<1>4. w \in [Calls -> Outcomes]
  <2>1. Len(keys) \in Nat
    OBVIOUS
  <2> QED BY <2>1 DEF T
<1>5. [tree |-> t, at |-> <<>>] \in Calls
  <2>1. <<>> \in Seq(Steps)
    BY EmptySeq
  <2> QED BY <2>1, OutcomeFacts
<1> QED BY <1>3, <1>4, <1>5

\* Whatever is asked for, the metadata stays a tree without gaps
\* (traverse_and_update_metadata).
LEMMA MetadataTyped == PathSpec => []PathTypeOK
<1>1. PathInit => PathTypeOK
  BY MetadataPathsAssumption DEF PathInit, PathTypeOK
<1>2. PathTypeOK /\ [PathNext]_pathVars => PathTypeOK'
  <2> SUFFICES ASSUME PathTypeOK, [PathNext]_pathVars PROVE PathTypeOK'
    OBVIOUS
  <2>1. CASE UpdateMetadata
    <3>1. PICK keys \in Paths, v \in Values :
            stored' = IF Updated(stored, keys, v).raised THEN stored
                      ELSE Updated(stored, keys, v).tree
      BY <2>1 DEF UpdateMetadata
    <3>2. Updated(stored, keys, v) \in Outcomes
      BY MetadataPathsAssumption, UpdatedKeeps DEF PathTypeOK, Settable
    <3> QED BY <3>1, <3>2, OutcomeFacts DEF PathTypeOK
  <2>2. CASE UNCHANGED pathVars
    BY <2>2 DEF pathVars, PathTypeOK
  <2> QED BY <2>1, <2>2 DEF PathNext
<1> QED BY <1>1, <1>2, PTL DEF PathSpec

-----------------------------------------------------------------------------
(* MetadataPaths: where the keys of a path lead.                           *)

\* What one key leads to.
LEMMA OnwardFacts ==
  ASSUME NEW t \in AllTrees, NEW p \in Seq(Steps), NEW key \in Keys, NEW final \in BOOLEAN
  PROVE  /\ Chosen(t, p, key) \subseteq Steps
         /\ Onward(t, p, key, final) # {}
         /\ \A w \in Onward(t, p, key, final) :
              /\ w \in Seq(Steps) /\ IsPrefix(p, w)
              /\ Len(w) = Len(p) \/ Len(w) = Len(p) + 1
              /\ key # All => Len(w) = Len(p) + 1
              /\ key = All /\ ~final => w = p
<1>1. Chosen(t, p, key) \subseteq Steps
  <2>1. CASE IsA(key, "list")
    <3>1. Range(key[2]) \subseteq Parts
      BY <2>1, KeyFacts DEF Range
    <3> QED BY <2>1, <3>1 DEF Chosen, Steps, IsA
  <2>2. CASE IsA(key, "where")
    <3>1. \A q \in Below(t, p) : Kind(t, p) = Array => Last(q) \in Parts
      <4>1. Kind(t, p) = Array => p \in Positions
        BY KindFacts
      <4> QED BY <4>1, BelowFacts
    <3> QED BY <2>2, <3>1 DEF Chosen, Askable, Steps, IsA
  <2>3. CASE ~Selects(key)
    BY <2>3, KeyFacts DEF Chosen, Steps, Selects
  <2> QED BY <2>1, <2>2, <2>3 DEF Selects
<1>2. \A k \in Steps : /\ Append(p, k) \in Seq(Steps) /\ IsPrefix(p, Append(p, k))
                       /\ Len(Append(p, k)) = Len(p) + 1
  BY AppendFacts
<1>3. p \in Seq(Steps) /\ IsPrefix(p, p)
  BY PrefixFacts
<1>4. CASE key = All
  <2>1. Index(Size(t, p)) \in Steps
    BY BelowFinite DEF Index, Steps, Parts
  <2> QED BY <1>1, <1>2, <1>3, <1>4, <2>1 DEF Onward, Element
<1>5. CASE key # All
  <2> DEFINE C == IF Chosen(t, p, key) = {} THEN {All} ELSE Chosen(t, p, key)
  <2>1. C # {} /\ C \subseteq Steps
    BY <1>1 DEF Steps
  <2>2. Onward(t, p, key, final) = {Append(p, k) : k \in C}
    BY <1>5 DEF Onward
  <2> HIDE DEF C
  <2> QED BY <1>1, <1>2, <1>5, <2>1, <2>2
<1> QED BY <1>4, <1>5

\* W[n] is where the first n keys lead.
Leads(t, keys, W) ==
  /\ \A n \in 0..Len(keys) : W[n] \subseteq Seq(Steps)
  /\ W[0] = {<<>>} /\ W[Len(keys)] = Ways(t, keys)
  /\ \A n \in 1..Len(keys) :
       /\ \A p \in W[n - 1] : Onward(t, p, keys[n], n = Len(keys)) \subseteq W[n]
       /\ \A w \in W[n] : \E p \in W[n - 1] : w \in Onward(t, p, keys[n], n = Len(keys))

\* The ways of a path of keys, followed key by key, lead from the root to its ends.
LEMMA WaysLead ==
  ASSUME NEW t \in AllTrees, NEW keys \in Seq(Keys)
  PROVE  \E W : Leads(t, keys, W)
<1> DEFINE N == Len(keys)
           Further(X, n) == UNION {Onward(t, p, keys[n], n = N) : p \in X}
           O == SUBSET Seq(Steps)
           T == [n \in 0..N |-> O]
           S == [n \in 1..N |-> [X \in O |-> Further(X, n)]]
           way(f) == [n \in 0..N |-> IF n = 0 THEN {<<>>}
                                     ELSE UNION {Onward(t, p, keys[n], n = N) : p \in f[n - 1]}]
           g == CHOOSE h : h = way(h)
           D == {n \in Nat : n <= N => g[n] \in O}
<1>1. N \in Nat /\ \A n \in 1..N : keys[n] \in Keys /\ (n = N) \in BOOLEAN
  OBVIOUS
<1>2. \A f : way(f) = [n \in 0..N |-> IF n = 0 THEN {<<>>} ELSE Further(f[n - 1], n)]
  OBVIOUS
<1>3. Ways(t, keys) = g[N]
  BY DEF Ways
<1>4. \A n \in 1..N : \A X \in O : Further(X, n) \in O
  <2> SUFFICES ASSUME NEW n \in 1..N, NEW X \in O PROVE Further(X, n) \in O
    OBVIOUS
  <2>1. \A p \in X : p \in Seq(Steps)
    OBVIOUS
  <2>2. \A p \in Seq(Steps) : Onward(t, p, keys[n], n = N) \subseteq Seq(Steps)
    BY <1>1, OnwardFacts
  <2> QED BY <2>1, <2>2
<1>5. {<<>>} \in O
  BY EmptySeq
<1>6. \A X, n, w : w \in Further(X, n) <=> \E p \in X : w \in Onward(t, p, keys[n], n = N)
  OBVIOUS
<1> HIDE DEF Further, way
<1>7. \A n \in 0..N : T[n] = O
  OBVIOUS
<1>8. \A n \in 1..N : \A X \in T[n - 1] : S[n][X] = Further(X, n) /\ S[n][X] \in T[n]
  <2> SUFFICES ASSUME NEW n \in 1..N, NEW X \in T[n - 1]
               PROVE  S[n][X] = Further(X, n) /\ S[n][X] \in T[n]
    OBVIOUS
  <2>1. n - 1 \in 0..N /\ n \in 0..N
    BY <1>1
  <2>2. X \in O /\ T[n] = O
    BY <1>7, <2>1
  <2> QED BY <1>4, <2>2
<1>9. {<<>>} \in T[0]
  BY <1>1, <1>5, <1>7
<1> HIDE DEF N, S, T, O
<1>10. PICK f : Goes(f, {<<>>}, S, T, N)
  BY <1>1, <1>8, <1>9, Stepwise, Zenon
<1>11. f = way(f)
  <2>1. f = [n \in 0..N |-> f[n]]
    BY <1>10 DEF Goes
  <2>2. \A n \in 0..N : f[n] = IF n = 0 THEN {<<>>} ELSE Further(f[n - 1], n)
    <3>1. \A n \in 0..N : n # 0 => n \in 1..N /\ n - 1 \in 0..N
      BY <1>1
    <3> QED BY <1>8, <1>10, <3>1 DEF Goes
  <2> QED BY <1>2, <2>1, <2>2
<1>12. g = way(g)
  BY <1>11
<1> HIDE DEF g
<1>13. g[0] = {<<>>} /\ \A n \in 1..N : g[n] = Further(g[n - 1], n)
  <2>1. 0 \in 0..N /\ \A n \in 1..N : n \in 0..N /\ n # 0
    BY <1>1
  <2> QED BY <1>2, <1>12, <2>1
<1>14. 0 \in D
  BY <1>5, <1>13
<1>15. ASSUME NEW n \in Nat, n \in D PROVE n + 1 \in D
  <2> SUFFICES ASSUME n + 1 <= N PROVE g[n + 1] \in O
    OBVIOUS
  <2>1. n + 1 \in 1..N /\ (n + 1) - 1 = n /\ g[n] \in O
    BY <1>1, <1>15
  <2> QED BY <1>4, <1>13, <2>1
<1> HIDE DEF D
<1>16. Nat \subseteq D
  BY <1>14, <1>15, Induction
<1>17. \A n \in 0..N : g[n] \subseteq Seq(Steps)
  <2>1. \A n \in 0..N : n \in Nat /\ n <= N
    BY <1>1
  <2> QED BY <1>16, <2>1 DEF D, O
<1>18. \A n \in 1..N : /\ \A p \in g[n - 1] : Onward(t, p, keys[n], n = N) \subseteq g[n]
                       /\ \A w \in g[n] : \E p \in g[n - 1] : w \in Onward(t, p, keys[n], n = N)
  BY <1>6, <1>13
<1> QED BY <1>3, <1>13, <1>17, <1>18 DEF Leads, N

\* One key further on a way.
LEMMA WayStep ==
  ASSUME NEW t \in AllTrees, NEW keys \in Seq(Keys), NEW W, Leads(t, keys, W),
         NEW n \in 1..Len(keys)
  PROVE  /\ \A p \in W[n - 1] : /\ p \in Seq(Steps)
                                /\ \E w \in W[n] : IsPrefix(p, w)
                                /\ Onward(t, p, keys[n], n = Len(keys)) \subseteq W[n]
         /\ \A w \in W[n] : /\ w \in Seq(Steps)
                            /\ \E p \in W[n - 1] :
                                 /\ p \in Seq(Steps) /\ IsPrefix(p, w)
                                 /\ w \in Onward(t, p, keys[n], n = Len(keys))
                                 /\ keys[n] # All => Len(w) = Len(p) + 1
                                 /\ keys[n] = All /\ n # Len(keys) => w = p
                                 /\ Len(w) <= Len(p) + 1
<1>1. /\ n - 1 \in 0..Len(keys) /\ n \in 0..Len(keys) /\ keys[n] \in Keys
      /\ (n = Len(keys)) \in BOOLEAN
  OBVIOUS
<1>2. W[n - 1] \subseteq Seq(Steps) /\ W[n] \subseteq Seq(Steps)
  BY <1>1 DEF Leads
<1>3. /\ \A p \in W[n - 1] : Onward(t, p, keys[n], n = Len(keys)) \subseteq W[n]
      /\ \A w \in W[n] : \E p \in W[n - 1] : w \in Onward(t, p, keys[n], n = Len(keys))
  BY DEF Leads
<1>4. ASSUME NEW p \in W[n - 1]
      PROVE  /\ p \in Seq(Steps) /\ Onward(t, p, keys[n], n = Len(keys)) # {}
             /\ \A w \in Onward(t, p, keys[n], n = Len(keys)) :
                  /\ w \in Seq(Steps) /\ IsPrefix(p, w)
                  /\ Len(w) = Len(p) \/ Len(w) = Len(p) + 1
                  /\ keys[n] # All => Len(w) = Len(p) + 1
                  /\ keys[n] = All /\ n # Len(keys) => w = p
  <2>1. p \in Seq(Steps)
    BY <1>2
  <2>2. ASSUME NEW key \in Keys, NEW final \in BOOLEAN
        PROVE  /\ Onward(t, p, key, final) # {}
               /\ \A w \in Onward(t, p, key, final) :
                    /\ w \in Seq(Steps) /\ IsPrefix(p, w)
                    /\ Len(w) = Len(p) \/ Len(w) = Len(p) + 1
                    /\ key # All => Len(w) = Len(p) + 1
                    /\ key = All /\ ~final => w = p
    BY <2>1, OnwardFacts
  <2> QED BY <1>1, <2>1, <2>2
<1>5. ASSUME NEW p \in W[n - 1] PROVE \E w \in W[n] : IsPrefix(p, w)
  BY <1>3, <1>4
<1>6. ASSUME NEW w \in W[n]
      PROVE  \E p \in W[n - 1] :
                                 /\ p \in Seq(Steps) /\ IsPrefix(p, w)
                                 /\ w \in Onward(t, p, keys[n], n = Len(keys))
                                 /\ keys[n] # All => Len(w) = Len(p) + 1
                                 /\ keys[n] = All /\ n # Len(keys) => w = p
                                 /\ Len(w) <= Len(p) + 1
  <2>1. PICK p \in W[n - 1] : w \in Onward(t, p, keys[n], n = Len(keys))
    BY <1>3
  <2>2. Len(p) \in Nat /\ (Len(w) = Len(p) \/ Len(w) = Len(p) + 1)
    BY <1>2, <1>4, <2>1, LenProperties
  <2>3. Len(w) <= Len(p) + 1
    BY <2>2
  <2> QED BY <1>4, <2>1, <2>3
<1> QED BY <1>2, <1>3, <1>4, <1>5, <1>6

\* Every position on a way comes from one after fewer keys, and leads to one
\* after more.
LEMMA OnTheWay ==
  ASSUME NEW t \in AllTrees, NEW keys \in Seq(Keys), NEW W, Leads(t, keys, W),
         NEW m \in 0..Len(keys), NEW n \in m..Len(keys)
  PROVE  /\ W[m] \subseteq Seq(Steps) /\ W[n] \subseteq Seq(Steps)
         /\ \A w \in W[n] : \E p \in W[m] : IsPrefix(p, w)
         /\ \A p \in W[m] : \E w \in W[n] : IsPrefix(p, w)
<1> DEFINE N == Len(keys)
           D == {d \in Nat : m + d <= N => /\ \A w \in W[m + d] : \E p \in W[m] : IsPrefix(p, w)
                                           /\ \A p \in W[m] : \E w \in W[m + d] : IsPrefix(p, w)}
<1>1. \A k \in 0..N : W[k] \subseteq Seq(Steps)
  BY DEF Leads
<1>2. N \in Nat /\ m \in Nat /\ m + 0 = m
  OBVIOUS
<1>3. 0 \in D
  <2>1. \A p \in W[m] : IsPrefix(p, p)
    BY <1>1, PrefixFacts
  <2> QED BY <1>2, <2>1
<1>4. ASSUME NEW d \in Nat, d \in D PROVE d + 1 \in D
  <2> SUFFICES ASSUME m + (d + 1) <= N
               PROVE  /\ \A w \in W[m + (d + 1)] : \E p \in W[m] : IsPrefix(p, w)
                      /\ \A p \in W[m] : \E w \in W[m + (d + 1)] : IsPrefix(p, w)
    OBVIOUS
  <2> DEFINE k == m + (d + 1)
  <2>1. k \in 1..N /\ k - 1 = m + d /\ k - 1 \in 0..N /\ k \in 0..N
    BY <1>2
  <2>2. /\ \A w \in W[k - 1] : \E p \in W[m] : IsPrefix(p, w)
        /\ \A p \in W[m] : \E w \in W[k - 1] : IsPrefix(p, w)
    BY <1>4, <2>1
  <2> HIDE DEF k, D
  <2>3. /\ \A p \in W[k - 1] : \E w \in W[k] : IsPrefix(p, w)
        /\ \A w \in W[k] : \E p \in W[k - 1] : IsPrefix(p, w)
    BY <2>1, WayStep
  <2>4. W[m] \subseteq Seq(Steps) /\ W[k - 1] \subseteq Seq(Steps) /\ W[k] \subseteq Seq(Steps)
    BY <1>1, <2>1
  <2>5. \A p \in W[m], q \in W[k - 1], w \in W[k] :
          IsPrefix(p, q) /\ IsPrefix(q, w) => IsPrefix(p, w)
    BY <2>4, PrefixFacts
  <2> QED BY <2>2, <2>3, <2>5 DEF k
<1> HIDE DEF D
<1>5. Nat \subseteq D
  BY <1>3, <1>4, Induction
<1>6. n - m \in D /\ m + (n - m) = n /\ n <= N /\ n \in 0..N
  BY <1>2, <1>5
<1> QED BY <1>1, <1>6 DEF D

\* Before the last key, the positions that the same keys lead to are equally deep.
LEMMA EquallyDeep ==
  ASSUME NEW t \in AllTrees, NEW keys \in Seq(Keys), NEW W, Leads(t, keys, W),
         NEW n \in 0..(Len(keys) - 1)
  PROVE  \A p, q \in W[n] : Len(p) = Len(q)
<1> DEFINE Beyond(w, i) == \E r \in W[i - 1] : /\ keys[i] # All => Len(w) = Len(r) + 1
                                               /\ keys[i] = All => w = r
<1>0. \A i \in 1..Len(keys) : i # Len(keys) => \A w \in W[i] : Beyond(w, i)
  <2> SUFFICES ASSUME NEW i \in 1..Len(keys), i # Len(keys) PROVE \A w \in W[i] : Beyond(w, i)
    OBVIOUS
  <2>1. \A w \in W[i] : /\ w \in Seq(Steps)
                        /\ \E p \in W[i - 1] :
                             /\ p \in Seq(Steps) /\ IsPrefix(p, w)
                             /\ w \in Onward(t, p, keys[i], i = Len(keys))
                             /\ keys[i] # All => Len(w) = Len(p) + 1
                             /\ keys[i] = All /\ i # Len(keys) => w = p
                             /\ Len(w) <= Len(p) + 1
    BY WayStep, SMTT(30)
  <2> QED BY <2>1
<1> HIDE DEF Beyond
<1> DEFINE N == Len(keys)
           D == {k \in Nat : k < N => \A p, q \in W[k] : Len(p) = Len(q)}
<1>1. N \in Nat
  OBVIOUS
<1>2. 0 \in D
  BY DEF Leads
<1>3. ASSUME NEW k \in Nat, k \in D PROVE k + 1 \in D
  <2> SUFFICES ASSUME k + 1 < N, NEW p \in W[k + 1], NEW q \in W[k + 1] PROVE Len(p) = Len(q)
    OBVIOUS
  <2> DEFINE j == k + 1
  <2>1. j \in 1..N /\ j - 1 = k /\ j # N /\ k < N
    BY <1>1
  <2> HIDE DEF j
  <2>2. \A w \in W[j] : \E r \in W[k] : /\ keys[j] # All => Len(w) = Len(r) + 1
                                        /\ keys[j] = All => w = r
    <3>1. j \in 1..Len(keys) /\ j # Len(keys)
      BY <2>1
    <3>2. \A w \in W[j] : Beyond(w, j)
      BY <1>0, <3>1
    <3>3. W[j - 1] = W[k]
      BY <2>1
    <3> QED BY <3>2, <3>3 DEF Beyond
  <2>3. PICK r \in W[k] : /\ keys[j] # All => Len(p) = Len(r) + 1
                          /\ keys[j] = All => p = r
    BY <2>2 DEF j
  <2>4. PICK s \in W[k] : /\ keys[j] # All => Len(q) = Len(s) + 1
                          /\ keys[j] = All => q = s
    BY <2>2 DEF j
  <2>5. Len(r) = Len(s)
    BY <1>3, <2>1
  <2> QED BY <2>3, <2>4, <2>5
<1> HIDE DEF D
<1>4. Nat \subseteq D
  BY <1>2, <1>3, Induction
<1>5. n \in Nat /\ n < N
  BY <1>1
<1> QED BY <1>4, <1>5 DEF D

-----------------------------------------------------------------------------
(* MetadataPaths: what a request changes.                                  *)

\* Only hashes and lists have something below them.
LEMMA Beneath ==
  ASSUME NEW t \in AllTrees, NEW q \in Positions, NEW r \in Positions,
         IsPrefix(q, r), q # r, Kind(t, r) # Nil
  PROVE  Kind(t, q) \in {Hash, Array}
<1> DEFINE D == {d \in Nat : \A x \in Positions :
                   IsPrefix(q, x) /\ Len(x) = Len(q) + 1 + d /\ Kind(t, x) # Nil =>
                     Kind(t, q) \in {Hash, Array}}
<1>1. ASSUME NEW x \in Positions, IsPrefix(q, x), q # x, Kind(t, x) # Nil
      PROVE  /\ Front(x) \in Positions /\ Kind(t, Front(x)) \in {Hash, Array}
             /\ IsPrefix(q, Front(x)) /\ Len(x) = Len(Front(x)) + 1 /\ Len(q) <= Len(Front(x))
  <2>1. Len(q) \in Nat /\ Len(x) \in Nat /\ Len(q) < Len(x)
    BY <1>1, PrefixFacts, LenProperties DEF Positions
  <2>2. x # <<>>
    BY <2>1
  <2>3. PICK f \in Seq(Parts), l \in Parts : x = Append(f, l)
    BY <2>2, SequenceEmptyOrAppend DEF Positions
  <2>4. Front(x) = f /\ Len(x) = Len(f) + 1 /\ (IsPrefix(q, x) <=> IsPrefix(q, f) \/ q = x)
    BY <2>3, AppendFacts DEF Positions
  <2>5. Kind(t, Front(x)) \in {Hash, Array}
    <3>1. There(t, x)
      BY <1>1 DEF Kind
    <3> QED BY <2>2, <3>1, KindFacts
  <2>6. IsPrefix(q, f) /\ Len(q) <= Len(f)
    BY <1>1, <2>4, PrefixFacts DEF Positions
  <2> QED BY <2>3, <2>4, <2>5, <2>6 DEF Positions
<1>2. 0 \in D
  <2> SUFFICES ASSUME NEW x \in Positions, IsPrefix(q, x), Len(x) = Len(q) + 1 + 0,
                      Kind(t, x) # Nil
               PROVE  Kind(t, q) \in {Hash, Array}
    OBVIOUS
  <2>1. Len(q) \in Nat /\ q # x
    BY LenProperties DEF Positions
  <2>2. IsPrefix(q, Front(x)) /\ Len(q) >= Len(Front(x)) /\ Front(x) \in Positions
    BY <1>1, <2>1, LenProperties DEF Positions
  <2>3. q = Front(x)
    BY <2>2, PrefixFacts DEF Positions
  <2> QED BY <1>1, <2>1, <2>3
<1>3. ASSUME NEW d \in Nat, d \in D PROVE d + 1 \in D
  <2> SUFFICES ASSUME NEW x \in Positions, IsPrefix(q, x), Len(x) = Len(q) + 1 + (d + 1),
                      Kind(t, x) # Nil
               PROVE  Kind(t, q) \in {Hash, Array}
    OBVIOUS
  <2>1. Len(q) \in Nat /\ q # x
    BY LenProperties DEF Positions
  <2>2. /\ Front(x) \in Positions /\ Kind(t, Front(x)) \in {Hash, Array}
        /\ IsPrefix(q, Front(x)) /\ Len(Front(x)) = Len(q) + 1 + d
    BY <1>1, <2>1, LenProperties DEF Positions
  <2> QED BY <1>3, <2>2
<1> HIDE DEF D
<1>4. Nat \subseteq D
  BY <1>2, <1>3, Induction
<1>5. Len(q) \in Nat /\ Len(r) \in Nat /\ Len(q) < Len(r)
  BY PrefixFacts, LenProperties DEF Positions
<1>6. Len(r) - Len(q) - 1 \in D /\ Len(r) = Len(q) + 1 + (Len(r) - Len(q) - 1)
  BY <1>4, <1>5
<1> QED BY <1>6 DEF D

\* What is put where nothing is below changes nothing else.
LEMMA PutLeaf ==
  ASSUME NEW t \in AllTrees, NEW q \in Positions, Kind(t, q) \notin {Hash, Array},
         NEW k, k # Nil
  PROVE  /\ Kind(Put(t, q, k), q) = k
         /\ \A r \in Positions : r # q => Kind(Put(t, q, k), r) = Kind(t, r)
         /\ q # <<>> => \A r \in Positions :
              /\ Front(q) # r => Below(Put(t, q, k), r) \subseteq Below(t, r)
              /\ r = q => Below(Put(t, q, k), r) = {}
<1>1. IsPrefix(q, q)
  BY PrefixFacts DEF Positions
<1>2. Kind(Put(t, q, k), q) = k
  BY PutKind
<1>3. ASSUME NEW r \in Positions, r # q PROVE Kind(Put(t, q, k), r) = Kind(t, r)
  <2>1. IsPrefix(q, r) => Kind(t, r) = Nil
    BY <1>3, Beneath
  <2> QED BY <1>3, <2>1, PutKind
<1>4. ASSUME q # <<>>, NEW r \in Positions
      PROVE  /\ Front(q) # r => Below(Put(t, q, k), r) \subseteq Below(t, r)
             /\ r = q => Below(Put(t, q, k), r) = {}
  BY <1>1, <1>4, PutBelow
<1> QED BY <1>2, <1>3, <1>4

\* The element after the last one of a list is not there.
LEMMA NoneAfterTheLast ==
  ASSUME NEW t \in AllTrees, NEW p \in Positions, Kind(t, p) \in {Array, Nil}
  PROVE  ~There(t, Element(p, Size(t, p)))
<1> DEFINE n == Size(t, p)
<1> SUFFICES ASSUME There(t, Element(p, n)) PROVE FALSE
  OBVIOUS
<1>1. n \in Nat /\ IsFiniteSet(Below(t, p))
  BY BelowFinite
<1>2. Element(p, n) # <<>> /\ Front(Element(p, n)) = p
  BY <1>1, BelowFacts
<1>3. Kind(t, p) = Array /\ There(t, p)
  <2>1. Kind(t, p) \in {Hash, Array}
    BY <1>2, KindFacts
  <2>2. Kind(t, p) = Array
    BY <2>1
  <2> QED BY <2>2, KindFacts
<1> DEFINE f == [i \in 1..(n + 1) |-> Element(p, i - 1)]
<1> HIDE DEF n
<1>4. \A i \in 1..n : There(t, Element(p, i - 1))
  BY <1>3, KindFacts DEF n
<1>5. \A i \in 1..(n + 1) : i - 1 \in Nat /\ Element(p, i - 1) \in Below(t, p)
  <2> SUFFICES ASSUME NEW i \in 1..(n + 1) PROVE i - 1 \in Nat /\ Element(p, i - 1) \in Below(t, p)
    OBVIOUS
  <2>1. i - 1 \in Nat /\ (i \in 1..n \/ i - 1 = n)
    BY <1>1
  <2>2. There(t, Element(p, i - 1))
    BY <1>4, <2>1
  <2> QED BY <2>1, <2>2, BelowFacts
<1>6. \A i, j \in 1..(n + 1) : Element(p, i - 1) = Element(p, j - 1) => i = j
  <2> SUFFICES ASSUME NEW i \in 1..(n + 1), NEW j \in 1..(n + 1),
                      Element(p, i - 1) = Element(p, j - 1)
               PROVE  i = j
    OBVIOUS
  <2>1. i - 1 = j - 1
    BY <1>5, BelowFacts
  <2> QED BY <1>1, <2>1
<1>7. f \in Injection(1..(n + 1), Below(t, p))
  <2>1. f \in [1..(n + 1) -> Below(t, p)]
    BY <1>5
  <2>2. \A i, j \in 1..(n + 1) : f[i] = f[j] => i = j
    BY <1>6
  <2> HIDE DEF f
  <2> QED BY <2>1, <2>2 DEF Injection, IsInjective
<1>8. Cardinality(1..(n + 1)) <= Cardinality(Below(t, p))
  BY <1>1, <1>7, FS_Injection
<1>9. Cardinality(1..(n + 1)) = n + 1
  BY <1>1, FS_Interval
<1> QED BY <1>1, <1>8, <1>9 DEF n, Size

\* What a request may have changed so far of the tree b: something at or below
\* where its keys lead, what was missing above, and a text right above.
Agrees(t, b, keys, W) ==
  \A q \in Positions : Kind(t, q) # Kind(b, q) =>
    \E w \in W[Len(keys)] :
      \/ IsPrefix(w, q)
      \/ IsPrefix(q, w) /\ Kind(b, q) = Nil /\ Kind(t, q) \in {Hash, Array}
      \/ q = Front(w) /\ {Kind(b, q), Kind(t, q)} \subseteq Texts
\* When it adds to lists: hashes and lists on the way, the value at their end,
\* and texts that it was added to.
OnTheWayTo(t, q, keys, W) ==
  Kind(t, q) \in {Hash, Array} /\ \E n \in 0..(Len(keys) - 1) : q \in W[n]
AtTheEnd(t, b, q, keys, v, W) ==
  \E p \in W[Len(keys) - 1] : /\ q = Element(p, Size(b, p)) /\ q \in W[Len(keys)]
                              /\ Kind(t, q) = v /\ Below(t, q) = {}
Extends(t, b, keys, v, W) ==
  \A q \in Positions :
    /\ Kind(b, q) # Nil /\ Kind(t, q) # Kind(b, q) =>
         Kind(b, q) \in Texts /\ Kind(t, q) \in Texts /\ q \in W[Len(keys) - 1]
    /\ Kind(b, q) = Nil /\ Kind(t, q) # Nil =>
         OnTheWayTo(t, q, keys, W) \/ AtTheEnd(t, b, q, keys, v, W)
Alters(t, b, keys, v, W) ==
  /\ Agrees(t, b, keys, W)
  /\ keys[Len(keys)] = All => Extends(t, b, keys, v, W)

Asks(b, keys, v, W) ==
  b \in AllTrees /\ keys \in Seq(Keys) /\ v \in Settable /\ Leads(b, keys, W)

\* Before anything is changed.
LEMMA ChangedNothing ==
  ASSUME NEW b, NEW keys, NEW v, NEW W PROVE Alters(b, b, keys, v, W)
BY DEF Alters, Agrees, Extends

\* What is made on the way to where something is missing.
LEMMA CreateChanges ==
  ASSUME NEW b, NEW keys, NEW v, NEW W, Asks(b, keys, v, W),
         NEW t \in AllTrees, Alters(t, b, keys, v, W),
         NEW n \in 1..(Len(keys) - 1), NEW q \in W[n], q \in Positions, q # <<>>,
         Kind(t, q) = Nil, NEW k \in {Hash, Array}
  PROVE  Alters(Put(t, q, k), b, keys, v, W)
<1> DEFINE u == Put(t, q, k)
           N == Len(keys)
<1>1. /\ b \in AllTrees /\ keys \in Seq(Keys) /\ Leads(b, keys, W) /\ N \in Nat
      /\ n \in 0..N /\ N \in n..N /\ n \in 0..(N - 1) /\ N - 1 \in n..N /\ 0 <= N - 1
      /\ N - 1 \in 0..(N - 1) /\ N \in 1..N
  <2>1. keys \in Seq(Keys)
    BY DEF Asks
  <2> QED BY <2>1 DEF Asks
<1>2. Kind(u, q) = k /\ \A r \in Positions : r # q => Kind(u, r) = Kind(t, r)
  BY PutLeaf
<1>3. \A r \in Positions : Front(q) # r => Below(u, r) \subseteq Below(t, r)
  BY PutLeaf
<1> HIDE DEF u
<1>4. Agrees(u, b, keys, W)
  <2> SUFFICES ASSUME NEW r \in Positions, Kind(u, r) # Kind(b, r)
               PROVE  \E w \in W[N] :
                        \/ IsPrefix(w, r)
                        \/ IsPrefix(r, w) /\ Kind(b, r) = Nil /\ Kind(u, r) \in {Hash, Array}
                        \/ r = Front(w) /\ {Kind(b, r), Kind(u, r)} \subseteq Texts
    BY DEF Agrees
  <2>1. Agrees(t, b, keys, W)
    BY DEF Alters
  <2>2. CASE r # q
    BY <1>2, <2>1, <2>2 DEF Agrees
  <2>3. CASE r = q /\ Kind(b, q) = Nil
    <3>1. \E w \in W[N] : IsPrefix(q, w)
      BY <1>1, OnTheWay
    <3> QED BY <1>2, <2>3, <3>1
  <2>4. CASE r = q /\ Kind(b, q) # Nil
    <3>1. Kind(t, q) \notin Texts /\ Kind(t, q) \notin {Hash, Array}
      OBVIOUS
    <3> QED BY <2>1, <2>4, <3>1 DEF Agrees
  <2> QED BY <2>2, <2>3, <2>4
<1>5. CASE keys[N] = All
  <2>1. Extends(t, b, keys, v, W)
    BY <1>5 DEF Alters
  <2>2. ASSUME NEW r \in Positions, Kind(b, r) # Nil, Kind(u, r) # Kind(b, r)
        PROVE  Kind(b, r) \in Texts /\ Kind(u, r) \in Texts /\ r \in W[N - 1]
    <3>1. Kind(t, q) \notin Texts
      OBVIOUS
    <3>2. r # q
      BY <2>1, <2>2, <3>1 DEF Extends
    <3> QED BY <1>2, <2>1, <2>2, <3>2 DEF Extends
  <2>3. ASSUME NEW r \in Positions, Kind(b, r) = Nil, Kind(u, r) # Nil
        PROVE  OnTheWayTo(u, r, keys, W) \/ AtTheEnd(u, b, r, keys, v, W)
    <3>1. CASE r = q
      BY <1>1, <1>2, <3>1 DEF OnTheWayTo
    <3>2. CASE r # q /\ OnTheWayTo(t, r, keys, W)
      BY <1>2, <2>3, <3>2 DEF OnTheWayTo
    <3>3. CASE r # q /\ AtTheEnd(t, b, r, keys, v, W)
      <4>1. PICK p \in W[N - 1] : /\ r = Element(p, Size(b, p)) /\ r \in W[N]
                                  /\ Kind(t, r) = v /\ Below(t, r) = {}
        BY <3>3 DEF AtTheEnd
      <4>2. Front(q) # r
        <5> SUFFICES ASSUME Front(q) = r PROVE FALSE
          OBVIOUS
        <5>1. p \in Seq(Steps) /\ Size(b, p) \in Nat
          <6>1. W[N - 1] \subseteq Seq(Steps)
            BY <1>1, OnTheWay
          <6> QED BY <1>1, <6>1, BelowFinite
        <5>2. Len(r) = Len(p) + 1
          BY <4>1, <5>1, AppendFacts DEF Element, Index, Steps, Parts
        <5>3. Len(q) = Len(r) + 1
          BY FrontFacts DEF Positions
        <5>4. PICK w \in W[N - 1] : IsPrefix(q, w)
          BY <1>1, OnTheWay
        <5>5. Len(w) = Len(p)
          BY <1>1, EquallyDeep
        <5>6. Len(q) <= Len(w)
          <6>1. w \in Seq(Steps) /\ q \in Seq(Steps)
            BY <1>1, OnTheWay
          <6> QED BY <5>4, <6>1, PrefixFacts
        <5>7. Len(p) \in Nat
          BY <5>1, LenProperties
        <5> QED BY <5>2, <5>3, <5>5, <5>6, <5>7
      <4>3. Below(u, r) = {}
        BY <1>3, <2>3, <4>1, <4>2
      <4> QED BY <1>2, <2>3, <3>3, <4>1, <4>3 DEF AtTheEnd
    <3> QED BY <1>2, <2>1, <2>3, <3>1, <3>2, <3>3 DEF Extends
  <2>4. Extends(u, b, keys, v, W)
    BY <2>2, <2>3 DEF Extends
  <2> QED BY <1>4, <1>5, <2>4 DEF Alters, u
<1>6. CASE keys[N] # All
  BY <1>4, <1>6 DEF Alters, u
<1> QED BY <1>5, <1>6

\* What is set where the keys lead.
LEMMA SetChanges ==
  ASSUME NEW b, NEW keys, NEW v, NEW W, Asks(b, keys, v, W),
         NEW t \in AllTrees, Alters(t, b, keys, v, W), keys[Len(keys)] # All,
         NEW q \in W[Len(keys)], q \in Positions, NEW k \in Settable
  PROVE  Alters(Put(t, q, k), b, keys, v, W)
<1> DEFINE u == Put(t, q, k)
<1>1. k # Nil
  BY SettableKinds DEF TreeKinds, Leaves
<1>2. \A r \in Positions : Kind(u, r) = IF r = q THEN k
                                        ELSE IF IsPrefix(q, r) THEN Nil ELSE Kind(t, r)
  BY <1>1, PutKind
<1>3. IsPrefix(q, q)
  BY PrefixFacts DEF Positions
<1> HIDE DEF u
<1>4. Agrees(t, b, keys, W)
  BY DEF Alters
<1>5. Agrees(u, b, keys, W)
  BY <1>2, <1>3, <1>4 DEF Agrees
<1> QED BY <1>5 DEF Alters, u

\* A text right above where the keys lead, which the last key is looked for in.
LEMMA TextChanges ==
  ASSUME NEW b, NEW keys, NEW v, NEW W, Asks(b, keys, v, W),
         NEW t \in AllTrees, Alters(t, b, keys, v, W), keys[Len(keys)] # All,
         NEW p \in Positions, Kind(t, p) \in Texts, NEW s \in Texts,
         NEW w \in W[Len(keys)], p = Front(w)
  PROVE  Alters(Put(t, p, s), b, keys, v, W)
<1> DEFINE u == Put(t, p, s)
<1>1. Kind(t, p) \notin {Hash, Array} /\ s # Nil
  OBVIOUS
<1>2. Kind(u, p) = s /\ \A r \in Positions : r # p => Kind(u, r) = Kind(t, r)
  BY <1>1, PutLeaf
<1> HIDE DEF u
<1>3. Agrees(t, b, keys, W)
  BY DEF Alters
<1>4. Agrees(u, b, keys, W)
  <2> SUFFICES ASSUME NEW r \in Positions, Kind(u, r) # Kind(b, r)
               PROVE  \E x \in W[Len(keys)] :
                        \/ IsPrefix(x, r)
                        \/ IsPrefix(r, x) /\ Kind(b, r) = Nil /\ Kind(u, r) \in {Hash, Array}
                        \/ r = Front(x) /\ {Kind(b, r), Kind(u, r)} \subseteq Texts
    BY DEF Agrees
  <2>1. CASE r # p
    BY <1>2, <1>3, <2>1 DEF Agrees
  <2>2. CASE r = p /\ Kind(t, p) = Kind(b, p)
    BY <1>2, <2>2
  <2>3. CASE r = p /\ Kind(t, p) # Kind(b, p)
    BY <1>1, <1>2, <1>3, <2>3 DEF Agrees
  <2> QED BY <2>1, <2>2, <2>3
<1> QED BY <1>4 DEF Alters, u

\* What is added where the keys lead, to a list or to a text.
LEMMA AppendChanges ==
  ASSUME NEW b, NEW keys, NEW v, NEW W, Asks(b, keys, v, W), keys # <<>>,
         NEW t \in AllTrees, Alters(t, b, keys, v, W), keys[Len(keys)] = All,
         NEW p \in W[Len(keys) - 1]
  PROVE  /\ Alters(AppendTo(t, p, v).tree, b, keys, v, W)
         /\ Kind(t, p) \in Texts => \A s \in Texts : Alters(Put(t, p, s), b, keys, v, W)
<1> DEFINE N == Len(keys)
           e == Element(p, Size(b, p))
<1>1. /\ b \in AllTrees /\ keys \in Seq(Keys) /\ Leads(b, keys, W) /\ N \in Nat /\ N >= 1
      /\ N - 1 \in 0..(N - 1) /\ N \in 1..N /\ v \in Settable
      /\ N - 1 \in 0..N /\ N \in (N - 1)..N
  <2>1. keys \in Seq(Keys)
    BY DEF Asks
  <2>2. Len(keys) # 0
    BY <2>1, EmptySeq
  <2> QED BY <2>1, <2>2 DEF Asks
<1>2. v # Nil /\ v \in TreeKinds
  BY <1>1, SettableKinds DEF TreeKinds, Leaves
<1>3. Agrees(t, b, keys, W) /\ Extends(t, b, keys, v, W)
  BY DEF Alters
<1>4. Size(b, p) \in Nat /\ Size(t, p) \in Nat /\ p \in Seq(Steps) /\ Len(p) \in Nat
  <2>1. p \in Seq(Steps)
    BY <1>1, OnTheWay
  <2> QED BY <1>1, <2>1, BelowFinite, LenProperties
<1>5. ASSUME NEW r \in W[N - 1], NEW i \in Nat
      PROVE  /\ r \in Seq(Steps) /\ Len(r) = Len(p) /\ Element(r, i) \in Seq(Steps)
             /\ Len(Element(r, i)) = Len(p) + 1 /\ Element(r, i) # r
             /\ Front(Element(r, i)) = r
  <2>1. r \in Seq(Steps) /\ Len(r) = Len(p)
    <3>1. W[N - 1] \subseteq Seq(Steps)
      BY <1>1, OnTheWay
    <3>2. \A x, y \in W[N - 1] : Len(x) = Len(y)
      BY <1>1, EquallyDeep
    <3> QED BY <3>1, <3>2
  <2>2. Index(i) \in Steps
    BY DEF Index, Steps, Parts
  <2>3. /\ Element(r, i) \in Seq(Steps) /\ Len(Element(r, i)) = Len(r) + 1
        /\ Front(Element(r, i)) = r
    BY <2>1, <2>2, AppendFacts DEF Element
  <2> QED BY <1>4, <2>1, <2>3
<1>6. ASSUME NEW r \in Positions, Len(r) = Len(p) + 1 PROVE ~OnTheWayTo(t, r, keys, W)
  <2> SUFFICES ASSUME NEW n \in 0..(N - 1), r \in W[n] PROVE FALSE
    BY DEF OnTheWayTo
  <2>1. PICK w \in W[N - 1] : IsPrefix(r, w)
    <3>1. n \in 0..N /\ N - 1 \in n..N
      BY <1>1
    <3>2. \A x \in W[n] : \E w \in W[N - 1] : IsPrefix(x, w)
      BY <1>1, <3>1, OnTheWay
    <3> QED BY <3>2
  <2>2. w \in Seq(Steps) /\ r \in Seq(Steps) /\ Len(w) = Len(p)
    <3>1. w \in Seq(Steps) /\ Len(w) = Len(p)
      BY <1>5
    <3>2. Positions \subseteq Seq(Steps)
      BY SeqMonotonic DEF Positions, Steps
    <3> QED BY <1>6, <3>1, <3>2
  <2>3. Len(r) <= Len(w)
    BY <2>1, <2>2, PrefixFacts
  <2> QED BY <1>4, <1>6, <2>2, <2>3
<1>7. ASSUME NEW r \in Positions, Len(r) = Len(p) PROVE ~AtTheEnd(t, b, r, keys, v, W)
  <2> SUFFICES ASSUME NEW o \in W[N - 1], r = Element(o, Size(b, o)) PROVE FALSE
    BY DEF AtTheEnd
  <2>1. Len(r) = Len(p) + 1
    BY <1>1, <1>5, BelowFinite
  <2> QED BY <1>4, <1>7, <2>1
<1>8. ASSUME Kind(b, p) \in Texts PROVE p \in W[N]
  <2>1. Onward(b, p, keys[N], N = Len(keys)) = {p}
    BY <1>8 DEF Onward
  <2> QED BY <1>1, <2>1, WayStep
<1>9. ASSUME Kind(b, p) \notin Texts PROVE e \in W[N]
  <2>1. Onward(b, p, keys[N], N = Len(keys)) = {e}
    BY <1>9 DEF Onward
  <2> QED BY <1>1, <2>1, WayStep
\* A step that puts k at q, where nothing was below, and where it may have.
<1>10. ASSUME NEW q \in Positions, q # <<>>, Kind(t, q) \notin {Hash, Array},
              NEW k, k # Nil, q \in W[N], Len(q) <= Len(p) + 1,
              \/ Kind(b, q) \in Texts /\ k \in Texts /\ q \in W[N - 1]
              \/ q = e /\ k = v /\ Kind(b, q) = Nil
       PROVE  Alters(Put(t, q, k), b, keys, v, W)
  <2> DEFINE u == Put(t, q, k)
  <2>1. Kind(u, q) = k /\ \A r \in Positions : r # q => Kind(u, r) = Kind(t, r)
    BY <1>10, PutLeaf
  <2>2. \A r \in Positions : /\ Front(q) # r => Below(u, r) \subseteq Below(t, r)
                             /\ r = q => Below(u, r) = {}
    BY <1>10, PutLeaf
  <2> HIDE DEF u
  <2>3. IsPrefix(q, q) /\ Len(q) = Len(Front(q)) + 1 /\ Len(Front(q)) \in Nat
    BY <1>10, PrefixFacts, FrontFacts, LenProperties DEF Positions
  <2>4. Agrees(u, b, keys, W)
    BY <1>3, <1>10, <2>1, <2>3 DEF Agrees
  <2>5. ASSUME NEW r \in Positions, Kind(b, r) # Nil, Kind(u, r) # Kind(b, r)
        PROVE  Kind(b, r) \in Texts /\ Kind(u, r) \in Texts /\ r \in W[N - 1]
    BY <1>3, <1>10, <2>1, <2>5 DEF Extends
  <2>6. ASSUME NEW r \in Positions, Kind(b, r) = Nil, Kind(u, r) # Nil
        PROVE  OnTheWayTo(u, r, keys, W) \/ AtTheEnd(u, b, r, keys, v, W)
    <3>1. CASE r = q
      <4>1. q = e /\ k = v
        BY <1>10, <2>6, <3>1
      <4>2. AtTheEnd(u, b, q, keys, v, W)
        BY <1>10, <2>1, <2>2, <4>1 DEF AtTheEnd
      <4> QED BY <3>1, <4>2
    <3>2. CASE r # q /\ OnTheWayTo(t, r, keys, W)
      BY <2>1, <3>2 DEF OnTheWayTo
    <3>3. CASE r # q /\ AtTheEnd(t, b, r, keys, v, W)
      <4>1. PICK o \in W[N - 1] : /\ r = Element(o, Size(b, o)) /\ r \in W[N]
                                  /\ Kind(t, r) = v /\ Below(t, r) = {}
        BY <3>3 DEF AtTheEnd
      <4>2. Len(r) = Len(p) + 1
        BY <1>1, <1>5, <4>1, BelowFinite
      <4>3. Front(q) # r
        BY <1>4, <1>10, <2>3, <4>2
      <4>4. Below(u, r) = {}
        BY <2>2, <4>1, <4>3
      <4> QED BY <2>1, <3>3, <4>1, <4>4 DEF AtTheEnd
    <3> QED BY <1>3, <2>1, <2>6, <3>1, <3>2, <3>3 DEF Extends
  <2>7. Extends(u, b, keys, v, W)
    BY <2>5, <2>6 DEF Extends
  <2> QED BY <2>4, <2>7 DEF Alters, u
<1> HIDE DEF e
<1>11. CASE Kind(t, p) = Array
  <2>0. Kind(t, p) \notin Texts
    BY <1>11
  <2>1. p \in Positions
    BY <1>11, KindFacts
  <2>2. Kind(b, p) \in {Array, Nil}
    BY <1>3, <1>11, <2>1 DEF Extends
  <2>3. e \in W[N] /\ e \in Positions /\ e # <<>> /\ Front(e) = p /\ Len(e) = Len(p) + 1
    <3>1. Kind(b, p) \notin Texts
      BY <2>2
    <3> QED BY <1>1, <1>4, <1>5, <1>9, <2>1, <3>1, BelowFacts DEF e
  <2>4. Kind(b, e) = Nil
    <3>1. ~There(b, e)
      BY <1>1, <2>1, <2>2, NoneAfterTheLast DEF e
    <3> QED BY <3>1 DEF Kind
  <2>5. \A r \in Below(b, p) : r \in Below(t, p)
    <3> SUFFICES ASSUME NEW r \in Below(b, p) PROVE r \in Below(t, p)
      OBVIOUS
    <3>1. There(b, r) /\ r # <<>> /\ Front(r) = p /\ r \in Positions
      BY <1>1, <2>1, BelowFacts
    <3>2. Kind(b, r) # Nil
      BY <1>1, <3>1, KindFacts
    <3>3. Kind(t, r) # Nil
      BY <1>3, <3>1, <3>2 DEF Extends
    <3>4. There(t, r)
      BY <3>3 DEF Kind
    <3> QED BY <2>1, <3>1, <3>4, BelowFacts
  <2>6. \A r \in Below(t, p) : \/ r \in Below(b, p)
                               \/ r = e /\ AtTheEnd(t, b, e, keys, v, W)
    <3> SUFFICES ASSUME NEW r \in Below(t, p), r \notin Below(b, p)
                 PROVE  r = e /\ AtTheEnd(t, b, e, keys, v, W)
      OBVIOUS
    <3>1. There(t, r) /\ r # <<>> /\ Front(r) = p /\ r \in Positions
      BY <2>1, BelowFacts
    <3>2. Kind(t, r) # Nil /\ Kind(b, r) = Nil
      <4>1. ~There(b, r)
        BY <1>1, <2>1, <3>1, BelowFacts
      <4>2. Kind(t, r) # Nil
        BY <3>1, KindFacts
      <4> QED BY <4>1, <4>2 DEF Kind
    <3>3. Len(r) = Len(p) + 1
      BY <3>1, FrontFacts DEF Positions
    <3>4. AtTheEnd(t, b, r, keys, v, W)
      BY <1>3, <1>6, <3>1, <3>2, <3>3 DEF Extends
    <3>5. PICK o \in W[N - 1] : r = Element(o, Size(b, o))
      BY <3>4 DEF AtTheEnd
    <3>6. Front(r) = o
      BY <1>1, <1>5, <3>5, BelowFinite
    <3> QED BY <3>1, <3>4, <3>5, <3>6 DEF e
  <2>7. CASE e \in Below(t, p)
    <3>1. Kind(t, e) = v /\ Below(t, e) = {}
      <4>1. e \notin Below(b, p)
        <5>1. ~There(b, e)
          BY <1>1, <2>4, KindFacts
        <5> QED BY <1>1, <2>1, <5>1, BelowFacts
      <4>2. AtTheEnd(t, b, e, keys, v, W)
        BY <2>6, <2>7, <4>1
      <4> QED BY <4>2 DEF AtTheEnd
    <3>2. Size(t, e) = 0
      BY <3>1, FS_EmptySet DEF Size
    <3>3. Size(t, p) = Size(b, p) + 1
      <4> DEFINE C == Below(b, p)
      <4>1. e \notin C
        <5>1. ~There(b, e)
          BY <1>1, <2>4, KindFacts
        <5> QED BY <1>1, <2>1, <5>1, BelowFacts
      <4>2. Below(t, p) = C \cup {e}
        BY <2>5, <2>6, <2>7
      <4>3. IsFiniteSet(C)
        BY <1>1, BelowFinite
      <4> HIDE DEF C
      <4>4. Cardinality(C \cup {e}) = Cardinality(C) + 1
        BY <4>1, <4>3, FS_AddElement
      <4> QED BY <4>2, <4>4 DEF C, Size
    <3>4. (Size(b, p) + 1) - 1 = Size(b, p) /\ Size(b, p) + 1 \in 1..Size(t, p)
      BY <1>4, <3>3
    <3>5. \E i \in 1..Size(t, p) : LET x == Element(p, i - 1) IN
            Kind(t, x) = v /\ (v = Hash => Size(t, x) = 0)
      <4>1. Element(p, (Size(b, p) + 1) - 1) = e
        BY <3>4 DEF e
      <4> QED BY <3>1, <3>2, <3>4, <4>1
    <3>6. AppendTo(t, p, v) = Done(t)
      BY <1>11, <3>5 DEF AppendTo
    <3> QED BY <2>0, <3>6 DEF Done
  <2>8. CASE e \notin Below(t, p)
    <3>1. Below(t, p) = Below(b, p)
      BY <2>5, <2>6, <2>8
    <3>2. Element(p, Size(t, p)) = e
      BY <3>1 DEF e, Size
    <3>3. Kind(t, e) = Nil
      <4>1. ~There(t, e)
        BY <2>1, <2>3, <2>8, BelowFacts
      <4> QED BY <4>1 DEF Kind
    <3>4. Alters(Put(t, e, v), b, keys, v, W)
      BY <1>2, <1>4, <1>10, <2>3, <2>4, <3>3
    <3>5. AppendTo(t, p, v) \in {Done(t), Done(Put(t, e, v))}
      BY <1>11, <3>2 DEF AppendTo
    <3> QED BY <2>0, <3>4, <3>5 DEF Done
  <2> QED BY <2>7, <2>8
<1>12. ASSUME Kind(t, p) \in Texts, NEW s \in Texts PROVE Alters(Put(t, p, s), b, keys, v, W)
  <2>1. Kind(t, p) # Nil /\ Kind(t, p) \notin {Hash, Array} /\ s # Nil
    BY <1>12
  <2>2. p \in Positions /\ p # <<>>
    <3>1. There(t, p)
      BY <2>1 DEF Kind
    <3> QED BY <2>1, <3>1, KindFacts
  <2>3. Kind(b, p) \in Texts
    <3>1. Kind(b, p) # Nil
      BY <1>3, <1>7, <2>1, <2>2 DEF Extends, OnTheWayTo
    <3> QED BY <1>3, <1>12, <2>2, <3>1 DEF Extends
  <2>4. p \in W[N]
    BY <1>8, <2>3
  <2>5. Len(p) <= Len(p) + 1
    BY <1>4
  <2> QED BY <1>10, <1>12, <2>1, <2>2, <2>3, <2>4, <2>5
<1>13. CASE Kind(t, p) # Array
  <2>1. AppendTo(t, p, v) \in {Done(t), Raised(t)}
    BY <1>13 DEF AppendTo
  <2>2. AppendTo(t, p, v).tree = t
    BY <2>1 DEF Done, Raised
  <2> QED BY <1>12, <2>2
<1> QED BY <1>11, <1>13

\* The ends of a way are below what each key leads to.
LEMMA EndsDeeper ==
  ASSUME NEW t \in AllTrees, NEW keys \in Seq(Keys), NEW W, Leads(t, keys, W),
         NEW n \in 1..Len(keys), keys[n] # All, NEW p \in W[n - 1], NEW w \in W[Len(keys)]
  PROVE  /\ p \in Seq(Steps) /\ Len(p) \in Nat /\ w \in Seq(Steps) /\ Len(w) \in Nat
         /\ \E c \in W[n] : c \in Seq(Steps) /\ IsPrefix(c, w) /\ Len(c) = Len(p) + 1
         /\ Len(p) < Len(w)
<1> DEFINE N == Len(keys)
<1>1. /\ N \in Nat /\ n - 1 \in 0..(N - 1) /\ n - 1 \in 0..N /\ n \in 0..N /\ N \in n..N
      /\ N \in (n - 1)..N
  OBVIOUS
<1>2. W[n - 1] \subseteq Seq(Steps) /\ W[N] \subseteq Seq(Steps) /\ W[n] \subseteq Seq(Steps)
  BY <1>1, OnTheWay
<1>3. p \in Seq(Steps) /\ Len(p) \in Nat /\ w \in Seq(Steps) /\ Len(w) \in Nat
  BY <1>2, LenProperties
<1>4. PICK c \in W[n] : IsPrefix(c, w)
  BY <1>1, OnTheWay
<1>5. PICK o \in W[n - 1] : Len(c) = Len(o) + 1
  BY <1>1, WayStep
<1>6. Len(o) = Len(p)
  BY <1>1, EquallyDeep
<1>7. c \in Seq(Steps) /\ Len(c) = Len(p) + 1
  BY <1>2, <1>5, <1>6
<1>8. Len(c) <= Len(w)
  BY <1>3, <1>4, <1>7, PrefixFacts
<1> QED BY <1>3, <1>4, <1>7, <1>8

\* Below a position on a way, what has changed is below what the next key chose there.
LEMMA ChangedOnTheWay ==
  ASSUME NEW b, NEW keys, NEW v, NEW W, Asks(b, keys, v, W),
         NEW t \in AllTrees, Alters(t, b, keys, v, W),
         NEW n \in 1..Len(keys), keys[n] # All, NEW p \in W[n - 1],
         p \in Positions, Kind(t, p) \in {Hash, Array}
  PROVE  /\ Kind(b, p) \in {Nil, Kind(t, p)}
         /\ \A q \in Positions : IsPrefix(p, q) /\ q # p /\ Kind(t, q) # Kind(b, q) =>
              \E k \in Chosen(b, p, keys[n]) :
                k \in Parts /\ Append(p, k) \in W[n] /\ IsPrefix(Append(p, k), q)
<1> DEFINE N == Len(keys)
           key == keys[n]
<1>1. /\ b \in AllTrees /\ keys \in Seq(Keys) /\ Leads(b, keys, W) /\ N \in Nat
      /\ key \in Keys /\ n - 1 \in 0..(N - 1) /\ n - 1 \in 0..N
      /\ n \in 0..N /\ N \in n..N /\ (n = N) \in BOOLEAN
  <2>1. keys \in Seq(Keys)
    BY DEF Asks
  <2> QED BY <2>1 DEF Asks
<1>2. Positions \subseteq Seq(Steps) /\ W[N] \subseteq Seq(Steps) /\ W[n] \subseteq Seq(Steps)
  <2>1. Positions \subseteq Seq(Steps)
    BY SeqMonotonic DEF Positions, Steps
  <2> QED BY <1>1, <2>1, OnTheWay
<1>3. p \in Seq(Steps) /\ Len(p) \in Nat
  BY <1>2, LenProperties
<1>4. Agrees(t, b, keys, W)
  BY DEF Alters
\* Every end is below something that the key leads to.
<1>5. ASSUME NEW w \in W[N]
      PROVE  \E c \in W[n] : c \in Seq(Steps) /\ IsPrefix(c, w) /\ Len(c) = Len(p) + 1
  BY <1>1, EndsDeeper
<1>6. ASSUME NEW w \in W[N] PROVE w \in Seq(Steps) /\ Len(w) \in Nat /\ Len(p) < Len(w)
  BY <1>1, EndsDeeper
<1>7. Kind(b, p) \in {Nil, Kind(t, p)}
  <2> SUFFICES ASSUME Kind(t, p) # Kind(b, p), Kind(b, p) # Nil PROVE FALSE
    OBVIOUS
  <2>1. Kind(t, p) \notin Texts
    OBVIOUS
  <2>2. PICK w \in W[N] : IsPrefix(w, p)
    BY <1>4, <2>1 DEF Agrees
  <2>3. w \in Seq(Steps) /\ Len(w) \in Nat /\ Len(p) < Len(w)
    BY <1>6
  <2>4. Len(w) <= Len(p)
    BY <1>3, <2>2, <2>3, PrefixFacts
  <2> QED BY <1>3, <2>3, <2>4
<1>8. ASSUME NEW q \in Positions, IsPrefix(p, q), q # p, Kind(t, q) # Kind(b, q)
      PROVE  \E c \in W[n] : c \in Seq(Steps) /\ IsPrefix(c, q) /\ Len(c) = Len(p) + 1
  <2>1. q \in Seq(Steps) /\ Len(q) \in Nat /\ Len(p) < Len(q)
    <3>1. q \in Seq(Steps) /\ Len(q) \in Nat
      BY <1>2, LenProperties
    <3>2. ~(Len(p) >= Len(q))
      BY <1>3, <1>8, <3>1, PrefixFacts
    <3> QED BY <1>3, <3>1, <3>2
  <2>2. PICK w \in W[N] : \/ IsPrefix(w, q)
                          \/ IsPrefix(q, w)
                          \/ q = Front(w)
    BY <1>4, <1>8 DEF Agrees
  <2>3. PICK c \in W[n] : c \in Seq(Steps) /\ IsPrefix(c, w) /\ Len(c) = Len(p) + 1
    BY <1>5
  <2>4. w \in Seq(Steps)
    BY <1>6
  <2>5. CASE IsPrefix(w, q)
    <3>1. IsPrefix(c, q)
      BY <2>1, <2>3, <2>4, <2>5, PrefixFacts
    <3> QED BY <2>3, <3>1
  <2>6. CASE IsPrefix(q, w) \/ q = Front(w)
    <3>1. IsPrefix(q, w)
      <4> SUFFICES ASSUME q = Front(w) PROVE IsPrefix(q, w)
        BY <2>6
      <4>1. w # <<>>
        <5>1. Len(w) # 0
          BY <1>3, <1>6
        <5> QED BY <5>1, EmptySeq
      <4>2. w = Append(q, Last(w)) /\ Last(w) \in Steps
        BY <2>4, <4>1, FrontFacts
      <4>3. IsPrefix(q, Append(q, Last(w)))
        BY <2>1, <4>2, AppendFacts
      <4> QED BY <4>2, <4>3
    <3>2. Len(c) <= Len(q)
      BY <1>3, <2>1, <2>3
    <3>3. IsPrefix(c, q)
      BY <2>1, <2>3, <2>4, <3>1, <3>2, PrefixFacts
    <3> QED BY <2>3, <3>3
  <2> QED BY <2>2, <2>5, <2>6
<1>9. ASSUME NEW q \in Positions, IsPrefix(p, q), q # p, Kind(t, q) # Kind(b, q)
      PROVE  \E k \in Chosen(b, p, key) :
               k \in Parts /\ Append(p, k) \in W[n] /\ IsPrefix(Append(p, k), q)
  <2>1. PICK c \in W[n] : c \in Seq(Steps) /\ IsPrefix(c, q) /\ Len(c) = Len(p) + 1
    BY <1>8, <1>9
  <2>2. q \in Seq(Steps)
    BY <1>2
  <2>3. PICK o \in W[n - 1] : /\ o \in Seq(Steps) /\ IsPrefix(o, c) /\ Len(c) = Len(o) + 1
                              /\ c \in Onward(b, o, key, n = N)
    BY <1>1, WayStep
  <2>4. o = p
    <3>1. IsPrefix(o, q)
      BY <2>1, <2>2, <2>3, PrefixFacts
    <3>2. Len(o) \in Nat /\ Len(o) = Len(p)
      BY <1>3, <2>1, <2>3, LenProperties
    <3>3. IsPrefix(o, p)
      BY <1>3, <1>9, <2>2, <2>3, <3>1, <3>2, PrefixFacts
    <3> QED BY <1>3, <2>3, <3>2, <3>3, PrefixFacts
  <2>5. PICK k \in IF Chosen(b, p, key) = {} THEN {All} ELSE Chosen(b, p, key) : c = Append(p, k)
    BY <2>3, <2>4 DEF Onward
  <2>6. k \in Steps
    <3>1. Chosen(b, p, key) \subseteq Steps
      BY <1>1, <1>3, OnwardFacts
    <3> QED BY <3>1 DEF Steps
  <2>7. k \in Parts
    <3>1. /\ c[Len(c)] = k /\ Len(c) \in 1..Len(c)
      BY <1>3, <2>1, <2>5, <2>6
    <3>2. c[Len(c)] = q[Len(c)] /\ Len(c) <= Len(q) /\ Len(c) \in Nat /\ Len(q) \in Nat
      BY <2>1, <2>2, <3>1, PrefixMeans, LenProperties
    <3>3. Len(c) \in 1..Len(q)
      BY <3>1, <3>2
    <3>4. q[Len(c)] \in Parts
      BY <3>3, ElementOfSeq DEF Positions
    <3> QED BY <3>1, <3>2, <3>4
  <2>8. k \in Chosen(b, p, key)
    <3>1. k # All
      BY <2>7, KeyFacts, <1>1
    <3> QED BY <2>5, <3>1
  <2> QED BY <2>1, <2>5, <2>7, <2>8
<1> QED BY <1>7, <1>9

\* The elements that a where-key selects now are those that it selected at the
\* beginning of the request.
LEMMA WhereLeads ==
  ASSUME NEW b, NEW keys, NEW v, NEW W, Asks(b, keys, v, W),
         NEW t \in AllTrees, Alters(t, b, keys, v, W),
         NEW n \in 1..Len(keys), NEW p \in W[n - 1], IsA(keys[n], "where"),
         Askable(t, p), NEW j \in 0..(Size(t, p) - 1), Fits(t, p, keys[n], j)
  PROVE  Element(p, j) \in W[n]
<1> DEFINE N == Len(keys)
           key == keys[n]
           f == key[2]
           e == Element(p, j)
           x == Append(e, f)
           Same(q) == Kind(t, q) = Kind(b, q)
<1>1. /\ b \in AllTrees /\ keys \in Seq(Keys) /\ Leads(b, keys, W) /\ N \in Nat
      /\ key \in Keys /\ (n = N) \in BOOLEAN
  <2>1. keys \in Seq(Keys)
    BY DEF Asks
  <2> QED BY <2>1 DEF Asks
<1>2. key # All /\ f \in Parts /\ key[3] \subseteq Texts
  <2>1. key # All
    BY DEF IsA, All
  <2> QED BY <1>1, <2>1, KeyFacts
<1>3. Kind(t, p) = Array /\ p \in Positions /\ There(t, p)
  <2>1. Kind(t, p) = Array
    BY DEF Askable
  <2> QED BY <2>1, KindFacts
<1>4. j \in Nat /\ e \in Positions /\ e # <<>> /\ Front(e) = p /\ Last(e) = Index(j)
  <2>1. j \in Nat
    BY BelowFinite
  <2>2. Index(j) \in Parts
    BY <2>1 DEF Index, Parts
  <2> QED BY <1>3, <2>1, <2>2, AppendFacts DEF Element, Positions
<1>5. /\ x \in Positions /\ IsPrefix(e, x) /\ IsPrefix(p, e) /\ IsPrefix(p, x)
      /\ e # p /\ x # p /\ Len(e) = Len(p) + 1 /\ Len(p) \in Nat /\ Len(x) = Len(e) + 1
  <2>1. Index(j) \in Parts
    BY <1>4 DEF Index, Parts
  <2>2. IsPrefix(p, e) /\ Len(e) = Len(p) + 1 /\ Len(p) \in Nat
    BY <1>3, <2>1, AppendFacts, LenProperties DEF Element, Positions
  <2>3. IsPrefix(e, x) /\ Len(x) = Len(e) + 1 /\ x \in Positions
    BY <1>2, <1>4, AppendFacts DEF Positions
  <2>4. IsPrefix(p, x)
    <3>1. p \in Seq(Parts) /\ e \in Seq(Parts) /\ x \in Seq(Parts)
      BY <1>3, <1>4, <2>3 DEF Positions
    <3> HIDE DEF e, x
    <3> QED BY <2>2, <2>3, <3>1, PrefixFacts
  <2>5. e # p /\ x # p
    BY <2>2, <2>3
  <2> QED BY <2>2, <2>3, <2>4, <2>5
<1> HIDE DEF e, x, Same
<1>6. /\ Kind(b, p) \in {Nil, Array}
      /\ \A q \in Positions : IsPrefix(p, q) /\ q # p /\ ~Same(q) =>
           \E k \in Chosen(b, p, key) :
             k \in Parts /\ Append(p, k) \in W[n] /\ IsPrefix(Append(p, k), q)
  BY <1>2, <1>3, ChangedOnTheWay DEF Same
<1> SUFFICES ASSUME e \notin W[n] PROVE FALSE
  BY DEF e
<1>7. Same(e) /\ Same(x)
  <2> SUFFICES ASSUME NEW q \in {e, x}, ~Same(q) PROVE FALSE
    OBVIOUS
  <2>1. q \in Positions /\ IsPrefix(p, q) /\ q # p
    BY <1>4, <1>5
  <2>2. PICK k \in Parts : Append(p, k) \in W[n] /\ IsPrefix(Append(p, k), q)
    BY <1>6, <2>1
  <2>3. Append(p, k) \in Positions /\ Len(Append(p, k)) = Len(p) + 1
    BY <1>3, AppendFacts DEF Positions
  <2>4. IsPrefix(e, q)
    BY <1>4, <1>5, PrefixFacts DEF Positions
  <2> DEFINE c == Append(p, k)
  <2>5. c \in Seq(Parts) /\ e \in Seq(Parts) /\ q \in Seq(Parts)
    BY <1>4, <2>1, <2>3 DEF Positions
  <2>6. Len(e) = Len(c) /\ Len(e) \in Nat
    BY <1>5, <2>3
  <2>7. IsPrefix(c, q)
    BY <2>2
  <2> HIDE DEF c
  <2>8. IsPrefix(e, c)
    <3>1. Len(e) <= Len(c)
      BY <2>6
    <3> QED BY <2>4, <2>5, <2>7, <3>1, PrefixFacts
  <2>9. e = c
    <3>1. Len(e) >= Len(c)
      BY <2>6
    <3> QED BY <2>5, <2>8, <3>1, PrefixFacts
  <2> QED BY <2>2, <2>9 DEF c
<1>8. There(t, e) /\ There(b, e) /\ Field(b, e, f) = Field(t, e, f)
  <2>1. There(t, e)
    <3>1. j + 1 \in 1..Size(t, p) /\ (j + 1) - 1 = j
      BY <1>4, BelowFinite
    <3>2. There(t, Element(p, (j + 1) - 1))
      BY <1>3, <3>1, KindFacts
    <3> QED BY <3>1, <3>2 DEF e
  <2>2. There(b, e)
    <3>1. Kind(t, e) # Nil
      BY <2>1, KindFacts
    <3>2. Kind(b, e) # Nil
      BY <1>7, <3>1 DEF Same
    <3> QED BY <1>1, <3>2, KindFacts
  <2> QED BY <1>7, <2>1, <2>2 DEF Same, Field, x
<1>9. Kind(b, p) = Array /\ e \in Below(b, p)
  <2>1. Kind(b, p) # Nil
    BY <1>1, <1>4, <1>8, KindFacts
  <2> QED BY <1>1, <1>3, <1>4, <1>6, <1>8, <2>1, BelowFacts
<1>10. Askable(b, p)
  <2> SUFFICES ASSUME ~Askable(b, p) PROVE FALSE
    OBVIOUS
  <2>1. Chosen(b, p, key) = {}
    BY DEF Chosen, IsA
  <2>2. \A q \in Positions : IsPrefix(p, q) /\ q # p => Same(q)
    BY <1>6, <2>1
  <2>3. ASSUME NEW q \in Positions, q # <<>>, Front(q) = p PROVE Same(q)
    <3>1. q = Append(p, Last(q)) /\ Last(q) \in Parts
      BY <2>3, FrontFacts DEF Positions
    <3>2. IsPrefix(p, q) /\ Len(q) = Len(p) + 1
      <4>1. /\ IsPrefix(p, Append(p, Last(q)))
            /\ Len(Append(p, Last(q))) = Len(p) + 1
        BY <1>3, <3>1, AppendFacts DEF Positions
      <4> QED BY <3>1, <4>1
    <3>3. q # p
      BY <1>5, <3>2
    <3> QED BY <2>2, <3>2, <3>3
  <2>4. Below(b, p) = Below(t, p)
    <3>1. ASSUME NEW q PROVE q \in Below(b, p) <=> q \in Below(t, p)
      <4>1. q \in Below(b, p) <=> There(b, q) /\ q # <<>> /\ Front(q) = p
        BY <1>1, <1>3, BelowFacts
      <4>2. q \in Below(t, p) <=> There(t, q) /\ q # <<>> /\ Front(q) = p
        BY <1>3, BelowFacts
      <4>3. There(b, q) \/ There(t, q) => q \in Positions
        BY <1>1, KindFacts
      <4>4. q \in Positions /\ q # <<>> /\ Front(q) = p => (There(b, q) <=> There(t, q))
        <5>1. /\ Kind(b, q) # Nil <=> There(b, q)
              /\ Kind(t, q) # Nil <=> There(t, q)
          BY <1>1, KindFacts
        <5> QED BY <2>3, <5>1 DEF Same
      <4> QED BY <4>1, <4>2, <4>3, <4>4
    <3> QED BY <3>1
  <2>5. Size(b, p) = Size(t, p) /\ Size(t, p) \in Nat
    BY <2>4, BelowFinite DEF Size
  <2>6. \A i \in 1..Size(t, p) : Kind(t, Element(p, i - 1)) \notin {Array, Number}
    BY DEF Askable
  <2>7. \A i \in 1..Size(b, p) : Kind(b, Element(p, i - 1)) = Kind(t, Element(p, i - 1))
    <3> SUFFICES ASSUME NEW i \in 1..Size(b, p) PROVE Same(Element(p, i - 1))
      BY DEF Same
    <3>1. i - 1 \in Nat
      BY <2>5
    <3> QED BY <1>3, <2>3, <3>1, BelowFacts
  <2> QED BY <1>9, <2>5, <2>6, <2>7 DEF Askable
<1>11. Index(j) \in Chosen(b, p, key)
  <2>1. Field(b, e, f) \in key[3]
    BY <1>8 DEF Fits, e
  <2>2. Chosen(b, p, key) = {Last(q) : q \in {q \in Below(b, p) : /\ Askable(b, p)
                                                                 /\ Field(b, q, f) \in key[3]}}
    BY DEF Chosen, IsA
  <2> QED BY <1>4, <1>9, <1>10, <2>1, <2>2
<1>12. Append(p, Index(j)) \in Onward(b, p, key, n = N)
  BY <1>2, <1>11 DEF Onward
<1> QED BY <1>1, <1>12, WayStep DEF e, Element

\* Where a call of the rest of the keys may begin: where the keys before lead, or
\* at what is in no tree.
Outside == {Missing} \cup Pieces
Begins(p, n, W) == p \in W[n] \/ p \in Outside

LEMMA OutsideFacts ==
  ASSUME NEW t \in AllTrees, NEW p \in Outside
  PROVE  p \notin Positions /\ Kind(t, p) = Nil
<1>1. Missing \notin Positions
  <2>1. Missing[1] = All /\ Len(Missing) = 1
    BY DEF Missing
  <2>2. All \notin Parts
    BY DEF All, Parts
  <2> QED BY <2>1, <2>2, ElementOfSeq DEF Positions
<1>2. p \in Pieces => p \notin Positions
  BY PieceFacts
<1>3. p \notin Positions
  BY <1>1, <1>2 DEF Outside
<1>4. Kind(t, p) # Nil => p \in Positions
  BY KindFacts
<1> QED BY <1>3, <1>4

\* The rest of the keys after the n-th.
KeepsTo(f, b, keys, v, n, W) ==
  \A c \in Calls : Alters(c.tree, b, keys, v, W) /\ Begins(c.at, n, W) =>
                     Alters(f[c].tree, b, keys, v, W)

\* k is one of the keys that the n-th key stands for at p, where keys lead.
Continues(k, p, keys, n, W) ==
  \/ k \in Parts /\ keys[n] # All /\ Append(p, k) \in W[n]
  \/ k = All /\ keys[n] = All

\* One key changes what the request may, if the rest of them does.
LEMMA FollowChanges ==
  ASSUME NEW b, NEW keys, NEW v, NEW W, Asks(b, keys, v, W),
         NEW t \in AllTrees, Alters(t, b, keys, v, W),
         NEW n \in 1..Len(keys), NEW p \in Seq(Steps) \cup Pieces, Begins(p, n - 1, W),
         NEW key \in Steps,
         p \in Outside \/ Continues(key, p, keys, n, W),
         NEW below \in [Calls -> Outcomes], KeepsTo(below, b, keys, v, n, W),
         NEW rest, rest = <<>> <=> n = Len(keys)
  PROVE  Alters(Follow(t, p, key, rest, v, below).tree, b, keys, v, W)
<1> DEFINE N == Len(keys)
           q == Append(p, key)
           On(u, r) == below[[tree |-> u, at |-> r]]
<1>1. /\ b \in AllTrees /\ keys \in Seq(Keys) /\ Leads(b, keys, W) /\ N \in Nat
      /\ v \in Settable /\ Hash \in Settable /\ N \in Nat
      /\ v \in TreeKinds /\ Hash \in TreeKinds
      /\ Fresh(rest) \in {Hash, Array} /\ Fresh(rest) \in TreeKinds
  <2>1. keys \in Seq(Keys)
    BY DEF Asks
  <2>2. v \in Settable => v \in TreeKinds
    BY SettableKinds
  <2> QED BY <2>1, <2>2 DEF Asks, Settable, TreeKinds, Fresh
<1>2. Missing \in Seq(Steps) /\ Kind(t, Missing) = Nil
  BY Places
<1>3. \A u, r : u \in AllTrees /\ r \in Seq(Steps) \cup Pieces /\ Alters(u, b, keys, v, W) /\ Begins(r, n, W) =>
        Alters(On(u, r).tree, b, keys, v, W)
  <2> SUFFICES ASSUME NEW u \in AllTrees, NEW r \in Seq(Steps) \cup Pieces,
                      Alters(u, b, keys, v, W), Begins(r, n, W)
               PROVE  Alters(On(u, r).tree, b, keys, v, W)
    OBVIOUS
  <2> DEFINE c == [tree |-> u, at |-> r]
  <2>1. c \in Calls /\ c.tree = u /\ c.at = r
    BY OutcomeFacts
  <2> HIDE DEF c
  <2>2. Alters(below[c].tree, b, keys, v, W)
    BY <2>1 DEF KeepsTo
  <2> QED BY <2>2 DEF c
<1>4. \A r \in Outside : Alters(On(t, r).tree, b, keys, v, W)
  BY <1>2, <1>3 DEF Begins, Outside
<1>5. \A u : Done(u).tree = u /\ Raised(u).tree = u
  BY DEF Done, Raised
\* At a text, a number, true or false.
<1>l. CASE Leaf(t, p) \in Leaves
  <2> DEFINE o == FollowLeaf(t, p, key, rest, v, below)
  <2>1. LeafDoes(o, t, p, key, rest, v, below)
    BY <1>1, <1>l, LeafOutcome
  <2>2. ASSUME key = All, rest # <<>> PROVE Alters(On(t, p).tree, b, keys, v, W)
    <3>1. CASE p \in Outside
      BY <1>4, <3>1
    <3>2. CASE p \notin Outside
      <4>1. keys[n] = All /\ p \in W[n - 1] /\ n # N
        <5>1. key \notin Parts
          BY <2>2, KeyFacts DEF Keys
        <5> QED BY <2>2, <3>2, <5>1 DEF Begins, Continues
      <4>2. Onward(b, p, keys[n], n = Len(keys)) = {p}
        BY <4>1 DEF Onward
      <4>3. p \in W[n]
        BY <1>1, <4>1, <4>2, WayStep
      <4> QED BY <1>3, <4>3 DEF Begins
    <3> QED BY <3>1, <3>2
  <2>3. ASSUME rest = <<>>, p \notin Pieces, Kind(t, p) \in Texts, NEW s \in Texts
        PROVE  Alters(Put(t, p, s), b, keys, v, W)
    <3>1. p \notin Outside /\ p \in Positions /\ n = N
      <4>1. Kind(t, p) # Nil
        BY <2>3
      <4> QED BY <1>2, <2>3, <4>1, KindFacts DEF Outside
    <3>2. p \in W[N - 1] /\ Continues(key, p, keys, N, W)
      BY <3>1 DEF Begins
    <3>3. CASE keys[N] = All
      <4>1. keys # <<>>
        <5>1. Len(keys) # 0
          BY <1>1, <3>1
        <5> QED BY <5>1, EmptySeq
      <4> QED BY <2>3, <3>2, <3>3, <4>1, AppendChanges
    <3>4. CASE keys[N] # All
      <4>1. key \in Parts /\ q \in W[N]
        BY <3>2, <3>4 DEF Continues
      <4>2. Front(q) = p
        BY <3>1, <4>1, AppendFacts DEF Positions
      <4> HIDE DEF q
      <4> QED BY <2>3, <3>1, <3>4, <4>1, <4>2, TextChanges
    <3> QED BY <3>3, <3>4
  <2> HIDE DEF o, On, q
  <2>4. Alters(o.tree, b, keys, v, W)
    <3>1. \/ o \in {Done(t), Raised(t)}
          \/ \E s \in Texts : /\ o = Done(Put(t, p, s))
                             /\ rest = <<>> /\ p \notin Pieces /\ Kind(t, p) \in Texts
          \/ o = On(t, p) /\ key = All /\ rest # <<>>
          \/ \E r \in Outside : o = On(t, r)
      BY <2>1 DEF LeafDoes, On, Outside
    <3> QED BY <1>4, <1>5, <2>2, <2>3, <3>1
  <2> QED BY <1>l, <2>4 DEF Follow, o
<1>n. SUFFICES ASSUME Leaf(t, p) \notin Leaves
               PROVE  Alters(FollowNode(t, p, key, rest, v, below).tree, b, keys, v, W)
  BY <1>l DEF Follow
<1>p. p \in Seq(Steps) /\ q \in Seq(Steps) /\ (p \in Outside => p = Missing)
  <2>1. p \notin Pieces
    BY <1>n, PieceFacts
  <2> QED BY <2>1, AppendProperties DEF Outside
<1>6. CASE p = Missing
  <2>1. Kind(t, p) = Nil
    BY <1>2, <1>6
  <2>2. AppendTo(t, p, v) = Done(t)
    BY <2>1 DEF AppendTo
  <2> HIDE DEF On
  <2>3. FollowNode(t, p, key, rest, v, below) \in {Done(t), Raised(t), On(t, Missing)}
    BY <1>6, <2>1, <2>2 DEF FollowNode, On
  <2> QED BY <1>4, <1>5, <2>3 DEF Outside
<1>7. CASE p # Missing /\ key = All
  <2>1. keys[n] = All /\ p \in W[n - 1]
    <3>1. key \notin Parts
      BY <1>7, KeyFacts DEF Keys
    <3> QED BY <1>7, <1>p, <3>1 DEF Begins, Continues
  <2>2. CASE rest = <<>>
    <3>1. keys # <<>> /\ keys[N] = All /\ p \in W[N - 1]
      <4>1. n = N /\ N # 0
        BY <1>1, <2>2
      <4> QED BY <1>1, <2>1, <4>1
    <3>2. Alters(AppendTo(t, p, v).tree, b, keys, v, W)
      BY <3>1, AppendChanges
    <3> QED BY <1>7, <2>2, <3>2 DEF FollowNode, IsA, All
  <2>3. CASE rest # <<>>
    <3>1. n # N
      BY <2>3
    <3>2. Onward(b, p, keys[n], n = Len(keys)) = {p}
      BY <2>1, <3>1 DEF Onward
    <3>3. p \in W[n]
      BY <1>1, <2>1, <3>2, WayStep
    <3>4. Alters(On(t, p).tree, b, keys, v, W)
      BY <1>3, <1>p, <3>3 DEF Begins
    <3> QED BY <1>7, <2>3, <3>4 DEF FollowNode, IsA, All
  <2> QED BY <2>2, <2>3
<1>8. CASE p # Missing /\ key \in Parts
  <2>1. keys[n] # All /\ q \in W[n] /\ Begins(q, n, W)
    <3>1. key # All
      BY <1>8 DEF Parts, All
    <3> QED BY <1>8, <1>p, <3>1 DEF Begins, Continues
  <2>2. Alters(On(t, q).tree, b, keys, v, W)
    BY <1>p, <1>3, <2>1
  <2>m. Alters(On(t, Missing).tree, b, keys, v, W)
    BY <1>4 DEF Outside
  <2>3. CASE Kind(t, p) # Hash
    <3> HIDE DEF On, q
    <3>1. FollowNode(t, p, key, rest, v, below) \in {Done(t), Raised(t), On(t, Missing), On(t, q)}
      BY <1>8, <2>3 DEF FollowNode, On, q, IsA, Parts
    <3> QED BY <1>5, <2>2, <2>m, <3>1
  <2>4. CASE Kind(t, p) = Hash
    <3>1. Place(t, q)
      BY <1>8, <2>4, Places
    <3>2. q \in Positions /\ q # <<>>
      BY <3>1 DEF Place
    <3>3. ASSUME n = N, NEW k \in Settable PROVE Alters(Put(t, q, k), b, keys, v, W)
      BY <2>1, <3>2, <3>3, SetChanges
    <3>4. ASSUME n # N, Kind(t, q) = Nil, NEW k \in {Hash, Array}
          PROVE  Alters(Put(t, q, k), b, keys, v, W)
      <4>1. n \in 1..(Len(keys) - 1)
        BY <1>1, <3>4
      <4> QED BY <2>1, <3>2, <3>4, <4>1, CreateChanges
    <3>5. ~There(t, q) => Kind(t, q) = Nil
      BY DEF Kind
    <3>6. ASSUME n # N, ~There(t, q)
          PROVE  Alters(On(Put(t, q, Fresh(rest)), q).tree, b, keys, v, W)
      <4>1. Put(t, q, Fresh(rest)) \in AllTrees
        BY <1>1, <3>1, PutKeeps
      <4>2. Alters(Put(t, q, Fresh(rest)), b, keys, v, W)
        BY <1>1, <3>4, <3>5, <3>6
      <4> HIDE DEF q, On
      <4> QED BY <1>p, <1>3, <2>1, <4>1, <4>2
    <3> HIDE DEF On, q
    <3>7. CASE IsA(key, "name")
      <4>1. FollowNode(t, p, key, rest, v, below) =
              IF rest = <<>> THEN Done(Put(t, q, v))
              ELSE On(IF There(t, q) THEN t ELSE Put(t, q, Fresh(rest)), q)
        BY <2>4, <3>7 DEF FollowNode, On, q, IsA
      <4> QED BY <1>1, <1>5, <2>2, <3>3, <3>6, <4>1
    <3>8. CASE IsA(key, "colon")
      <4>1. FollowNode(t, p, key, rest, v, below) =
              IF ~There(t, q) THEN Done(Put(t, q, Hash))
              ELSE IF rest = <<>> THEN Done(Put(t, q, v)) ELSE On(t, q)
        BY <2>4, <3>8 DEF FollowNode, On, q, IsA
      <4> QED BY <1>1, <1>5, <2>2, <3>3, <3>4, <3>5, <4>1
    <3>9. CASE IsA(key, "index")
      <4>1. FollowNode(t, p, key, rest, v, below) =
              IF rest # <<>> THEN On(t, Missing) ELSE Done(Put(t, q, v))
        BY <2>4, <3>9 DEF FollowNode, On, q, IsA
      <4> QED BY <1>1, <1>5, <2>m, <3>3, <4>1
    <3> QED BY <1>8, <3>7, <3>8, <3>9 DEF Parts, IsA
  <2> QED BY <2>3, <2>4
<1> QED BY <1>6, <1>7, <1>8 DEF Steps

\* The keys that a key stands for lead where it does.
LEMMA AlternativesLead ==
  ASSUME NEW b, NEW keys, NEW v, NEW W, Asks(b, keys, v, W),
         NEW t \in AllTrees, Alters(t, b, keys, v, W),
         NEW n \in 1..Len(keys), NEW p \in W[n - 1],
         NEW k \in Range(Alternatives(t, p, keys[n]))
  PROVE  Continues(k, p, keys, n, W)
<1> DEFINE key == keys[n]
<1>1. b \in AllTrees /\ keys \in Seq(Keys) /\ Leads(b, keys, W) /\ key \in Keys
  <2>1. keys \in Seq(Keys)
    BY DEF Asks
  <2> QED BY <2>1 DEF Asks
<1>2. Onward(b, p, key, n = Len(keys)) \subseteq W[n]
  BY <1>1, WayStep
<1>3. ASSUME k \in Parts, k \in Chosen(b, p, key), key # All PROVE Append(p, k) \in W[n]
  <2> HIDE DEF key
  <2>1. Append(p, k) \in Onward(b, p, key, n = Len(keys))
    BY <1>3 DEF Onward
  <2> QED BY <1>2, <2>1
<1>4. CASE IsA(key, "list")
  <2>1. Alternatives(t, p, key) = key[2] /\ key[2] \in Seq(Parts) /\ key # All
    BY <1>1, <1>4, KeyFacts DEF Alternatives, IsA, All
  <2>2. k \in Parts /\ k \in Range(key[2])
    BY <2>1 DEF Range
  <2>3. Chosen(b, p, key) = Range(key[2])
    BY <1>4 DEF Chosen, IsA
  <2> QED BY <1>3, <2>1, <2>2, <2>3 DEF Continues
<1>5. CASE IsA(key, "where")
  <2>1. key # All /\ ~IsA(key, "list")
    BY <1>5 DEF IsA, All
  <2>2. Askable(t, p) /\ Alternatives(t, p, key) = Selected(t, p, key)
    <3>1. Alternatives(t, p, key) = IF Askable(t, p) THEN Selected(t, p, key) ELSE <<>>
      BY <1>5, <2>1 DEF Alternatives
    <3>2. Range(<<>>) = {}
      BY DEF Range
    <3> QED BY <3>1, <3>2
  <2>3. p \in Positions
    BY <2>2, KindFacts DEF Askable
  <2>4. PICK j \in 0..(Size(t, p) - 1) : k = Index(j) /\ Fits(t, p, key, j)
    <3>1. PICK i \in DOMAIN Selected(t, p, key) : k = Selected(t, p, key)[i]
      BY <2>2 DEF Range
    <3> QED BY <2>3, <3>1, SelectedOnes
  <2>5. Element(p, j) \in W[n]
    BY <1>5, <2>2, <2>4, WhereLeads
  <2>6. Index(j) \in Parts
    <3>1. j \in Nat
      BY BelowFinite
    <3> QED BY <3>1 DEF Index, Parts
  <2> QED BY <2>1, <2>4, <2>5, <2>6 DEF Element, Continues
<1>6. CASE ~Selects(key)
  <2>1. Alternatives(t, p, key) = <<key>> /\ Chosen(b, p, key) = {key}
    BY <1>6 DEF Alternatives, Selects, Chosen
  <2>2. k = key
    BY <2>1 DEF Range
  <2>3. key \in Parts \cup {All} /\ (key \in Parts => key # All)
    BY <1>1, <1>6, KeyFacts
  <2> HIDE DEF key
  <2> QED BY <1>3, <2>1, <2>2, <2>3 DEF key, Continues
<1> QED BY <1>4, <1>5, <1>6 DEF Selects

\* So does a key that stands for several.
LEMMA TraverseChanges ==
  ASSUME NEW b, NEW keys, NEW v, NEW W, Asks(b, keys, v, W),
         NEW t \in AllTrees, Alters(t, b, keys, v, W),
         NEW n \in 1..Len(keys), NEW p \in Seq(Steps) \cup Pieces, Begins(p, n - 1, W),
         NEW below \in [Calls -> Outcomes], KeepsTo(below, b, keys, v, n, W),
         NEW rest, rest = <<>> <=> n = Len(keys)
  PROVE  Alters(Traverse(t, p, keys[n], rest, v, below).tree, b, keys, v, W)
<1> DEFINE ks == Alternatives(t, p, keys[n])
           O == {o \in Outcomes : Alters(o.tree, b, keys, v, W)}
<1>1. keys[n] \in Keys /\ v \in Settable
  BY DEF Asks
<1>2. ks \in Seq(Steps) /\ \A i \in 1..Len(ks) : ks[i] \in Steps /\ i \in DOMAIN ks
  BY <1>1, AlternativesTyped
<1>3. \A u : Done(u).tree = u
  BY DEF Done
<1>4. Done(t) \in O
  BY <1>3, OutcomeFacts
<1>5. ASSUME NEW i \in 1..Len(ks)
      PROVE  p \in Outside \/ Continues(ks[i], p, keys, n, W)
  <2>1. CASE p \in Outside
    BY <2>1
  <2>2. CASE p \in W[n - 1]
    <3>1. ks[i] \in Range(Alternatives(t, p, keys[n]))
      BY <1>2 DEF Range
    <3> HIDE DEF ks
    <3> QED BY <2>2, <3>1, AlternativesLead
  <2> QED BY <2>1, <2>2 DEF Begins
<1> HIDE DEF ks
<1>6. ASSUME NEW i \in 1..Len(ks), NEW o \in O
      PROVE  Follow(o.tree, p, ks[i], rest, v, below) \in O
  <2>1. o.tree \in AllTrees /\ Alters(o.tree, b, keys, v, W) /\ ks[i] \in Steps
    BY <1>2, OutcomeFacts
  <2>2. Follow(o.tree, p, ks[i], rest, v, below) \in Outcomes
    BY <1>1, <2>1, FollowKeeps
  <2>3. Alters(Follow(o.tree, p, ks[i], rest, v, below).tree, b, keys, v, W)
    BY <1>5, <2>1, FollowChanges
  <2> QED BY <2>2, <2>3
<1> HIDE DEF O
<1>7. Each(t, p, ks, rest, v, below) \in O
  BY <1>2, <1>4, <1>6, OneByOne
<1> QED BY <1>3, <1>7 DEF Traverse, ks, O

\* And so does a path.
LEMMA UpdatedChanges ==
  ASSUME NEW b, NEW keys, NEW v, NEW W, Asks(b, keys, v, W)
  PROVE  Alters(Updated(b, keys, v).tree, b, keys, v, W)
<1> DEFINE N == Len(keys)
           T == [m \in 0..N |-> {f \in [Calls -> Outcomes] : KeepsTo(f, b, keys, v, N - m, W)}]
<1>1. /\ b \in AllTrees /\ keys \in Seq(Keys) /\ Leads(b, keys, W) /\ N \in Nat /\ v \in Settable
  <2>1. keys \in Seq(Keys)
    BY DEF Asks
  <2> QED BY <2>1 DEF Asks
<1>2. [c \in Calls |-> Done(c.tree)] \in T[0]
  <2> DEFINE f == [c \in Calls |-> Done(c.tree)]
  <2>1. f \in [Calls -> Outcomes]
    BY OutcomeFacts
  <2>2. KeepsTo(f, b, keys, v, N - 0, W)
    BY DEF KeepsTo, Done
  <2> QED BY <1>1, <2>1, <2>2
<1>3. ASSUME NEW m \in 1..N, NEW f \in T[m - 1] PROVE Call(keys, v, m, f) \in T[m]
  <2> DEFINE n == N - m + 1
             rest == SubSeq(keys, N - m + 2, N)
             g == Call(keys, v, m, f)
  <2>1. /\ n \in 1..N /\ n - 1 = N - m /\ N - (m - 1) = n /\ m - 1 \in 0..N /\ m \in 0..N
        /\ keys[n] \in Keys
    BY <1>1
  <2>2. f \in [Calls -> Outcomes] /\ KeepsTo(f, b, keys, v, n, W)
    BY <1>3, <2>1
  <2>3. rest = <<>> <=> n = N
    <3>1. rest \in Seq(Keys) /\ Len(rest) = IF N - m + 2 <= N THEN m - 1 ELSE 0
      BY <1>1, <1>3
    <3>2. rest = <<>> <=> Len(rest) = 0
      BY <3>1, EmptySeq
    <3> QED BY <1>1, <1>3, <3>1, <3>2
  <2>4. g = [c \in Calls |-> Traverse(c.tree, c.at, keys[n], rest, v, f)]
    BY DEF Call
  <2> HIDE DEF n, rest, g, T
  <2>5. g \in [Calls -> Outcomes]
    <3>1. \A c \in Calls : Traverse(c.tree, c.at, keys[n], rest, v, f) \in Outcomes
      BY <1>1, <2>1, <2>2, OutcomeFacts, TraverseKeeps
    <3> QED BY <2>4, <3>1
  <2>6. KeepsTo(g, b, keys, v, n - 1, W)
    <3> SUFFICES ASSUME NEW c \in Calls, Alters(c.tree, b, keys, v, W), Begins(c.at, n - 1, W)
                 PROVE  Alters(g[c].tree, b, keys, v, W)
      BY DEF KeepsTo
    <3>1. c.tree \in AllTrees /\ c.at \in Seq(Steps) \cup Pieces
      BY OutcomeFacts
    <3>2. Alters(Traverse(c.tree, c.at, keys[n], rest, v, f).tree, b, keys, v, W)
      BY <2>1, <2>2, <2>3, <3>1, TraverseChanges
    <3> QED BY <2>4, <3>2
  <2> QED BY <2>1, <2>5, <2>6 DEF g, T
<1>4. PICK f \in T[N] : Updated(b, keys, v) = f[[tree |-> b, at |-> <<>>]]
  <2> HIDE DEF T
  <2> QED BY <1>1, <1>2, <1>3, KeyByKey
<1>5. KeepsTo(f, b, keys, v, 0, W)
  <2>1. N \in 0..N /\ N - N = 0
    BY <1>1
  <2> QED BY <2>1
<1> DEFINE c == [tree |-> b, at |-> <<>>]
<1>6. c \in Calls /\ c.tree = b /\ c.at = <<>>
  <2>1. <<>> \in Seq(Steps)
    BY EmptySeq
  <2> QED BY <1>1, <2>1, OutcomeFacts
<1>7. Begins(<<>>, 0, W)
  BY <1>1 DEF Begins, Leads
<1>8. Updated(b, keys, v) = f[c]
  BY <1>4
<1> HIDE DEF c
<1> QED BY <1>5, <1>6, <1>7, <1>8, ChangedNothing DEF KeepsTo

\* A request changes nothing but where its keys lead, what is missing on the way,
\* and a text that the last key is looked for in, whatever else its keys select
\* (traverse_and_update_metadata).
THEOREM RequestsStayOnTheirWay == PathSpec => NothingElseChanges
<1> DEFINE OnItsWay ==
             \A q \in Taken(stored) \cup Taken(stored') :
               Kind(stored, q) # Kind(stored', q) =>
                 \E w \in Ways(stored, asked'.keys) :
                   \/ IsPrefix(w, q)
                   \/ IsPrefix(q, w) /\ Kind(stored, q) = Nil
                   \/ q = Front(w) /\ {Kind(stored, q), Kind(stored', q)} \subseteq Texts
<1>1. PathTypeOK /\ [PathNext]_pathVars => [OnItsWay]_pathVars
  <2> SUFFICES ASSUME PathTypeOK, UpdateMetadata PROVE OnItsWay
    BY DEF PathNext
  <2>1. PICK keys \in Paths, v \in Values :
          /\ stored' = IF Updated(stored, keys, v).raised THEN stored
                       ELSE Updated(stored, keys, v).tree
          /\ asked' = [n |-> asked.n + 1, keys |-> keys, value |-> v,
                       raised |-> Updated(stored, keys, v).raised]
    BY DEF UpdateMetadata
  <2>2. keys \in Seq(Keys) /\ v \in Settable /\ stored \in AllTrees /\ asked'.keys = keys
    BY <2>1, MetadataPathsAssumption DEF PathTypeOK, Settable
  <2>3. PICK W : Leads(stored, keys, W)
    BY <2>2, WaysLead
  <2>4. Alters(Updated(stored, keys, v).tree, stored, keys, v, W)
    BY <2>2, <2>3, UpdatedChanges DEF Asks
  <2>5. Agrees(stored', stored, keys, W)
    BY <2>1, <2>4, ChangedNothing DEF Alters
  <2>6. \A q \in Taken(stored) \cup Taken(stored') : q \in Positions
    <3>1. stored' \in AllTrees
      BY <2>1, <2>2, UpdatedKeeps, OutcomeFacts
    <3>2. \A t \in AllTrees : \A q : q \in Taken(t) => q \in Positions
      BY KindFacts
    <3> QED BY <2>2, <3>1, <3>2
  <2>7. W[Len(keys)] = Ways(stored, asked'.keys)
    BY <2>2, <2>3 DEF Leads
  <2> QED BY <2>5, <2>6, <2>7 DEF Agrees
<1> QED BY <1>1, MetadataTyped, PTL DEF PathSpec, NothingElseChanges

-----------------------------------------------------------------------------
(* MetadataPaths: what a path of keys names.                               *)

\* A list has nothing below it but its elements.
LEMMA OnlyElements ==
  ASSUME NEW t \in AllTrees, NEW p, Kind(t, p) = Array, NEW q \in Below(t, p)
  PROVE  \E i \in 0..(Size(t, p) - 1) : q = Element(p, i)
<1> DEFINE n == Size(t, p)
           E == {Element(p, i - 1) : i \in 1..n}
           f == [i \in 1..n |-> Element(p, i - 1)]
<1>1. n \in Nat /\ IsFiniteSet(Below(t, p)) /\ p \in Positions /\ There(t, p)
  BY BelowFinite, KindFacts
<1>2. \A i \in 1..n : There(t, Element(p, i - 1))
  BY <1>1, KindFacts
<1>3. \A i \in 1..n : i - 1 \in Nat /\ Element(p, i - 1) \in Below(t, p)
  <2> SUFFICES ASSUME NEW i \in 1..n PROVE i - 1 \in Nat /\ Element(p, i - 1) \in Below(t, p)
    OBVIOUS
  <2>1. i - 1 \in Nat /\ There(t, Element(p, i - 1))
    BY <1>1, <1>2
  <2> QED BY <1>1, <2>1, BelowFacts
<1>4. E \in SUBSET Below(t, p)
  BY <1>3
<1>5. f \in Bijection(1..n, E)
  <2>1. f \in Surjection(1..n, E)
    BY DEF Surjection
  <2>2. \A i, j \in 1..n : f[i] = f[j] => i = j
    <3> SUFFICES ASSUME NEW i \in 1..n, NEW j \in 1..n, Element(p, i - 1) = Element(p, j - 1)
                 PROVE  i = j
      OBVIOUS
    <3>1. i - 1 = j - 1
      BY <1>1, <1>3, BelowFacts
    <3> QED BY <1>1, <3>1
  <2>3. f \in [1..n -> E]
    OBVIOUS
  <2> HIDE DEF f, E
  <2> QED BY <2>1, <2>2, <2>3 DEF Bijection, Injection, IsInjective
<1>6. Cardinality(E) = n
  <2> HIDE DEF f, E, n
  <2> QED BY <1>1, <1>5, FS_CountingElements DEF ExistsBijection
<1>7. Below(t, p) = E
  BY <1>1, <1>4, <1>6, FS_Subset DEF Size
<1>8. PICK i \in 1..n : q = Element(p, i - 1)
  BY <1>7
<1>9. i - 1 \in 0..(n - 1)
  BY <1>1
<1> QED BY <1>8, <1>9

\* A loop over one key.
LEMMA OneKey ==
  ASSUME NEW t, NEW p, NEW k, NEW rest, NEW v, NEW below
  PROVE  Each(t, p, <<k>>, rest, v, below) = Follow(t, p, k, rest, v, below)
<1> DEFINE o == Follow(t, p, k, rest, v, below)
           T == [i \in 0..1 |-> IF i = 0 THEN {Done(t)} ELSE {o}]
<1>1. T[0] = {Done(t)} /\ T[1] = {o}
  OBVIOUS
<1>2. Done(t).tree = t /\ Done(t).raised = FALSE
  BY DEF Done
<1>3. <<k>> \in Seq({k}) /\ Len(<<k>>) = 1 /\ <<k>>[1] = k
  OBVIOUS
<1> HIDE DEF T
<1>4. \A i \in 1..1 : \A d \in T[i - 1] :
        IF d.raised THEN d \in T[i] ELSE Follow(d.tree, p, <<k>>[i], rest, v, below) \in T[i]
  BY <1>1, <1>2, <1>3
<1>5. Each(t, p, <<k>>, rest, v, below) \in T[1]
  BY <1>1, <1>3, <1>4, InTurn
<1> QED BY <1>1, <1>5

\* What one key names is a position, and one level down unless it is "[]".
LEMMA NamedFacts ==
  ASSUME NEW t, NEW p \in Seq(Steps), NEW k \in Steps, NEW final
  PROVE  /\ k \in Parts => NamedOne(t, p, k, final) \subseteq {Append(p, k)}
         /\ t \in AllTrees => NamedOne(t, p, k, final) \subseteq Seq(Steps)
<1>1. Append(p, k) \in Seq(Steps)
  BY AppendProperties
<1>2. CASE k \in Parts
  <2>1. k # All
    BY <1>2 DEF All, Parts
  <2>2. NamedOne(t, p, k, final) \subseteq {Append(p, k)}
    BY <2>1 DEF NamedOne
  <2> QED BY <1>1, <2>2
<1>3. CASE k \notin Parts /\ t \in AllTrees
  <2>1. k = All /\ ~IsA(k, "index")
    BY <1>3 DEF Steps, IsA, All
  <2>2. Element(p, Size(t, p)) \in Seq(Steps)
    <3>1. Index(Size(t, p)) \in Steps
      BY <1>3, BelowFinite DEF Index, Steps, Parts
    <3> QED BY <3>1, AppendProperties DEF Element
  <2>3. NamedOne(t, p, k, final) \subseteq {p, Element(p, Size(t, p))}
    BY <2>1 DEF NamedOne
  <2> QED BY <1>3, <2>2, <2>3
<1> QED BY <1>2, <1>3

\* M[n] is what the first n keys name.
NamedFrom(t, p, keys, n) ==
  UNION {NamedOne(t, p, k, n = Len(keys)) : k \in Chosen(t, p, keys[n])}
Reaches(t, keys, M) ==
  /\ \A n \in 0..Len(keys) : M[n] \subseteq Seq(Steps)
  /\ M[0] = {<<>>} /\ M[Len(keys)] = Named(t, keys)
  /\ \A n \in 1..Len(keys) : M[n] = UNION {NamedFrom(t, p, keys, n) : p \in M[n - 1]}

\* What a path of keys names is found key by key.
LEMMA NamedReached ==
  ASSUME NEW t \in AllTrees, NEW keys \in Seq(Keys)
  PROVE  \E M : Reaches(t, keys, M)
<1> DEFINE N == Len(keys)
           Further(X, n) == UNION {NamedFrom(t, p, keys, n) : p \in X}
           O == SUBSET Seq(Steps)
           T == [n \in 0..N |-> O]
           S == [n \in 1..N |-> [X \in O |-> Further(X, n)]]
           named(f) == [n \in 0..N |->
                          IF n = 0 THEN {<<>>}
                          ELSE UNION {UNION {NamedOne(t, p, k, n = Len(keys)) :
                                               k \in Chosen(t, p, keys[n])} : p \in f[n - 1]}]
           g == CHOOSE h : h = named(h)
           D == {n \in Nat : n <= N => g[n] \in O}
<1>1. N \in Nat /\ \A n \in 1..N : keys[n] \in Keys /\ (n = N) \in BOOLEAN
  OBVIOUS
<1>2. \A f : named(f) = [n \in 0..N |-> IF n = 0 THEN {<<>>} ELSE Further(f[n - 1], n)]
  BY DEF NamedFrom
<1>3. Named(t, keys) = g[N]
  BY DEF Named
<1>4. \A n \in 1..N : \A X \in O : Further(X, n) \in O
  <2> SUFFICES ASSUME NEW n \in 1..N, NEW p \in Seq(Steps)
               PROVE  NamedFrom(t, p, keys, n) \subseteq Seq(Steps)
    OBVIOUS
  <2>1. Chosen(t, p, keys[n]) \subseteq Steps
    BY <1>1, OnwardFacts
  <2>2. \A k \in Steps : NamedOne(t, p, k, n = Len(keys)) \subseteq Seq(Steps)
    BY NamedFacts
  <2> QED BY <2>1, <2>2 DEF NamedFrom
<1>5. {<<>>} \in O
  BY EmptySeq
<1> HIDE DEF Further, named
<1>6. \A n \in 0..N : T[n] = O
  OBVIOUS
<1>7. \A n \in 1..N : \A X \in T[n - 1] : S[n][X] = Further(X, n) /\ S[n][X] \in T[n]
  <2> SUFFICES ASSUME NEW n \in 1..N, NEW X \in T[n - 1]
               PROVE  S[n][X] = Further(X, n) /\ S[n][X] \in T[n]
    OBVIOUS
  <2>1. n - 1 \in 0..N /\ n \in 0..N
    BY <1>1
  <2>2. X \in O /\ T[n] = O
    BY <1>6, <2>1
  <2> QED BY <1>4, <2>2
<1>8. {<<>>} \in T[0]
  BY <1>1, <1>5, <1>6
<1> HIDE DEF N, S, T, O
<1>9. PICK f : Goes(f, {<<>>}, S, T, N)
  BY <1>1, <1>7, <1>8, Stepwise, Zenon
<1>10. f = named(f)
  <2>1. f = [n \in 0..N |-> f[n]]
    BY <1>9 DEF Goes
  <2>2. \A n \in 0..N : f[n] = IF n = 0 THEN {<<>>} ELSE Further(f[n - 1], n)
    <3>1. \A n \in 0..N : n # 0 => n \in 1..N /\ n - 1 \in 0..N
      BY <1>1
    <3> QED BY <1>7, <1>9, <3>1 DEF Goes
  <2> QED BY <1>2, <2>1, <2>2
<1>11. g = named(g)
  BY <1>10
<1> HIDE DEF g
<1>12. g[0] = {<<>>} /\ \A n \in 1..N : g[n] = Further(g[n - 1], n)
  <2>1. 0 \in 0..N /\ \A n \in 1..N : n \in 0..N /\ n # 0
    BY <1>1
  <2> QED BY <1>2, <1>11, <2>1
<1>13. 0 \in D
  BY <1>5, <1>12
<1>14. ASSUME NEW n \in Nat, n \in D PROVE n + 1 \in D
  <2> SUFFICES ASSUME n + 1 <= N PROVE g[n + 1] \in O
    OBVIOUS
  <2>1. n + 1 \in 1..N /\ (n + 1) - 1 = n /\ g[n] \in O
    BY <1>1, <1>14
  <2> QED BY <1>4, <1>12, <2>1
<1> HIDE DEF D
<1>15. Nat \subseteq D
  BY <1>13, <1>14, Induction
<1>16. \A n \in 0..N : g[n] \subseteq Seq(Steps)
  <2>1. \A n \in 0..N : n \in Nat /\ n <= N
    BY <1>1
  <2> QED BY <1>15, <2>1 DEF D, O
<1>17. \A n \in 1..N : g[n] = UNION {NamedFrom(t, p, keys, n) : p \in g[n - 1]}
  BY <1>12 DEF Further
<1> QED BY <1>3, <1>12, <1>16, <1>17 DEF Reaches, N

\* A key that leads one level down names parts of one level.
LEMMA OneLevel ==
  ASSUME NEW t \in AllTrees, NEW keys \in Seq(Keys), NEW M, Reaches(t, keys, M),
         NEW n \in 1..Len(keys), OneDown(keys[n])
  PROVE  \A q : q \in M[n] <=> \E p \in M[n - 1] : \E k \in Chosen(t, p, keys[n]) :
                   k \in Parts /\ q = Append(p, k) /\ q \in NamedOne(t, p, k, n = Len(keys))
<1>1. n - 1 \in 0..Len(keys) /\ M[n - 1] \subseteq Seq(Steps) /\ keys[n] \in Keys
  BY DEF Reaches
<1>2. ASSUME NEW p \in Seq(Steps) PROVE Chosen(t, p, keys[n]) \subseteq Parts
  <2>1. CASE IsA(keys[n], "list")
    BY <1>1, <2>1, KeyFacts DEF Chosen, IsA, Range
  <2>2. CASE IsA(keys[n], "name")
    BY <1>1, <2>2, KeyFacts DEF Chosen, IsA
  <2>3. CASE IsA(keys[n], "where")
    <3>1. \A q \in Below(t, p) : Kind(t, p) = Array => Last(q) \in Parts
      <4>1. Kind(t, p) = Array => p \in Positions
        BY KindFacts
      <4> QED BY <4>1, BelowFacts
    <3>2. Chosen(t, p, keys[n]) =
            {Last(q) : q \in {q \in Below(t, p) : Askable(t, p) /\ Field(t, q, keys[n][2]) \in keys[n][3]}}
      BY <2>3 DEF Chosen, IsA
    <3> QED BY <3>1, <3>2 DEF Askable
  <2> QED BY <2>1, <2>2, <2>3 DEF OneDown, Selects
<1>3. ASSUME NEW p \in M[n - 1], NEW k \in Chosen(t, p, keys[n])
      PROVE  k \in Parts /\ NamedOne(t, p, k, n = Len(keys)) \subseteq {Append(p, k)}
  <2>1. p \in Seq(Steps) /\ k \in Parts
    BY <1>1, <1>2
  <2>2. k \in Steps
    BY <2>1 DEF Steps
  <2> QED BY <2>1, <2>2, NamedFacts
<1>4. \A q : q \in M[n] <=> \E p \in M[n - 1] : \E k \in Chosen(t, p, keys[n]) :
                              q \in NamedOne(t, p, k, n = Len(keys))
  <2>1. M[n] = UNION {NamedFrom(t, p, keys, n) : p \in M[n - 1]}
    BY DEF Reaches
  <2>2. \A p, q : q \in NamedFrom(t, p, keys, n) <=>
                  \E k \in Chosen(t, p, keys[n]) : q \in NamedOne(t, p, k, n = Len(keys))
    BY DEF NamedFrom
  <2> QED BY <2>1, <2>2
<1> QED BY <1>3, <1>4

\* As many keys name positions as deep, each of them below one that fewer keys name.
LEMMA AsDeep ==
  ASSUME NEW t \in AllTrees, NEW keys \in Seq(Keys), NEW M, Reaches(t, keys, M),
         NEW m \in 0..Len(keys), \A i \in 1..m : OneDown(keys[i]), NEW n \in 0..m
  PROVE  /\ \A p \in M[n] : p \in Positions /\ Len(p) = n
         /\ \A q \in M[m] : \E p \in M[n] : IsPrefix(p, q)
<1> DEFINE D == {k \in Nat : k <= m => \A p \in M[k] : p \in Positions /\ Len(p) = k}
           E == {k \in Nat : k <= m => \A q \in M[m] : \E p \in M[m - k] : IsPrefix(p, q)}
<1>1. m \in Nat /\ Len(keys) \in Nat
  OBVIOUS
<1>2. 0 \in D
  <2>1. M[0] = {<<>>} /\ <<>> \in Positions /\ Len(<<>>) = 0
    BY EmptySeq DEF Reaches, Positions
  <2> QED BY <2>1
<1>3. ASSUME NEW k \in Nat, k \in D PROVE k + 1 \in D
  <2> SUFFICES ASSUME k + 1 <= m, NEW q \in M[k + 1]
               PROVE  q \in Positions /\ Len(q) = k + 1
    OBVIOUS
  <2> DEFINE j == k + 1
  <2>1. j \in 1..Len(keys) /\ j \in 1..m /\ j - 1 = k /\ k <= m
    BY <1>1
  <2> HIDE DEF j
  <2>2. \A x \in M[j] : \E p \in M[j - 1] : \E i \in Parts : x = Append(p, i)
    <3>1. OneDown(keys[j])
      BY <2>1
    <3>2. \A x : x \in M[j] <=> \E p \in M[j - 1] : \E i \in Chosen(t, p, keys[j]) :
                    i \in Parts /\ x = Append(p, i) /\ x \in NamedOne(t, p, i, j = Len(keys))
      BY <2>1, <3>1, OneLevel
    <3> QED BY <3>2
  <2>3. PICK p \in M[k], i \in Parts : q = Append(p, i)
    BY <2>1, <2>2 DEF j
  <2>4. p \in Seq(Parts) /\ Len(p) = k
    BY <1>3, <2>1 DEF Positions
  <2> QED BY <2>3, <2>4, AppendFacts DEF Positions
<1> HIDE DEF D
<1>4. Nat \subseteq D
  BY <1>2, <1>3, Induction
<1>5. \A k \in 0..m : \A p \in M[k] : p \in Positions /\ p \in Seq(Parts) /\ Len(p) = k
  <2>1. \A k \in 0..m : k \in D /\ k <= m
    BY <1>1, <1>4
  <2> QED BY <2>1 DEF D, Positions
<1>6. 0 \in E
  <2>1. \A q \in M[m] : IsPrefix(q, q)
    BY <1>1, <1>5, PrefixFacts
  <2> QED BY <1>1, <2>1
<1>7. ASSUME NEW k \in Nat, k \in E PROVE k + 1 \in E
  <2> SUFFICES ASSUME k + 1 <= m, NEW q \in M[m]
               PROVE  \E p \in M[m - (k + 1)] : IsPrefix(p, q)
    OBVIOUS
  <2> DEFINE j == m - k
  <2>1. /\ j \in 1..Len(keys) /\ j \in 1..m /\ j - 1 = m - (k + 1) /\ k <= m
        /\ j \in 0..m /\ j - 1 \in 0..m
    BY <1>1
  <2>2. PICK x \in M[j] : IsPrefix(x, q)
    BY <1>7, <2>1
  <2> HIDE DEF j, E
  <2>3. \A y \in M[j] : \E p \in M[j - 1] : \E i \in Parts : y = Append(p, i)
    <3>1. OneDown(keys[j])
      BY <2>1
    <3>2. \A y : y \in M[j] <=> \E p \in M[j - 1] : \E i \in Chosen(t, p, keys[j]) :
                    i \in Parts /\ y = Append(p, i) /\ y \in NamedOne(t, p, i, j = Len(keys))
      BY <2>1, <3>1, OneLevel
    <3> QED BY <3>2
  <2>4. PICK p \in M[j - 1], i \in Parts : x = Append(p, i)
    BY <2>3
  <2>5. p \in Seq(Parts) /\ x \in Seq(Parts) /\ q \in Seq(Parts)
    BY <1>1, <1>5, <2>1, SMTT(30)
  <2>6. IsPrefix(p, x)
    BY <2>4, <2>5, AppendFacts
  <2>7. IsPrefix(p, q)
    BY <2>2, <2>5, <2>6, PrefixFacts
  <2> QED BY <2>1, <2>7
<1> HIDE DEF E
<1>8. Nat \subseteq E
  BY <1>6, <1>7, Induction
<1>9. m - n \in E /\ m - n <= m /\ m - (m - n) = n
  BY <1>1, <1>8
<1> QED BY <1>5, <1>9 DEF E

-----------------------------------------------------------------------------
(* MetadataPaths: what plain keys set.                                     *)

\* Nothing but what is below p is another in u than in t, and perhaps a text at p;
\* what was v at the depth d is v.
TextsAt(u, t, r) == {Kind(u, r), Kind(t, r)} \subseteq Texts
OnlyBelow(u, t, p) ==
  \A r \in Positions : Kind(u, r) # Kind(t, r) =>
    p \in Positions /\ IsPrefix(p, r) /\ (p # r \/ TextsAt(u, t, r))
Keeps(u, t, d, v) ==
  \A q \in Positions : Len(q) = d /\ Kind(t, q) = v => Kind(u, q) = v
\* t has at and below p what b has.
SameFrom(t, b, p) == \A r \in Positions : IsPrefix(p, r) => Kind(t, r) = Kind(b, r)
\* It has below p what b has, and at p as well or else k, which was missing.
Arrived(t, b, p, k) == Kind(t, p) = IF Kind(b, p) = Nil THEN k ELSE Kind(b, p)
AsItWas(t, b, p, k) ==
  /\ Arrived(t, b, p, k)
  /\ \A r \in Positions : IsPrefix(p, r) /\ p # r => Kind(t, r) = Kind(b, r)
\* The positions of Q below p are set.
AllSet(t, p, Q, v) == \A q \in Q : IsPrefix(p, q) => Kind(t, q) = v

\* What the rest of the keys after the n-th does, called at p or at what is in no
\* tree; if the value is no text, p is where the keys lead and is no text.
CallAt(p, n) == p \in Outside \/ (p \in Positions /\ Len(p) = n)
Calm(t, p, b, keys, v, n, W) ==
  v \in Texts \/ (Alters(t, b, keys, v, W) /\ Begins(p, n, W) /\ OfNoText(p))
SetsBelow(o, t, b, p, keys, v, n, M) ==
  /\ ~o.raised /\ OnlyBelow(o.tree, t, p) /\ Keeps(o.tree, t, Len(keys), v)
  /\ n < Len(keys) /\ p \in M[n] /\ AsItWas(t, b, p, Hash) =>
       AllSet(o.tree, p, M[Len(keys)], v)
Sets(f, b, keys, v, n, M, W) ==
  \A c \in Calls : CallAt(c.at, n) /\ Calm(c.tree, c.at, b, keys, v, n, W) =>
                     SetsBelow(f[c], c.tree, b, c.at, keys, v, n, M)
\* What following the key k from p does.
SetsFrom(o, t, b, p, k, keys, v, n, M) ==
  /\ ~o.raised /\ Keeps(o.tree, t, Len(keys), v)
  /\ \A r \in Positions : Kind(o.tree, r) # Kind(t, r) =>
       p \in Positions /\ (IsPrefix(Append(p, k), r) \/ (r = p /\ TextsAt(o.tree, t, r)))
  /\ /\ Append(p, k) \in M[n] /\ Append(p, k) \in NamedOne(b, p, k, n = Len(keys))
     /\ Arrived(t, b, p, Hash) /\ SameFrom(t, b, Append(p, k))
     => AllSet(o.tree, Append(p, k), M[Len(keys)], v)

\* A request to which plain keys lead, with no text before where they do if the
\* value is none.
AsksPlain(b, keys, v, M, W) ==
  /\ Asks(b, keys, v, W) /\ Plain(keys) /\ Reaches(b, keys, M)
  /\ v \in Texts \/ NoTextBefore(b, keys)

\* What such a request consists of.
LEMMA PlainFacts ==
  ASSUME NEW b, NEW keys, NEW v, NEW M, NEW W, AsksPlain(b, keys, v, M, W)
  PROVE  /\ b \in AllTrees /\ keys \in Seq(Keys) /\ v \in Settable /\ Reaches(b, keys, M)
         /\ Leads(b, keys, W)
         /\ Len(keys) \in Nat \ {0} /\ v # Nil /\ v \in TreeKinds
         /\ \A i \in 1..Len(keys) : OneDown(keys[i]) /\ keys[i] \in Keys /\ keys[i] # All
         /\ Names(keys[Len(keys)])
         /\ \A n \in 0..Len(keys) : \A p \in M[n] : p \in Positions /\ Len(p) = n
         /\ \A n \in 0..Len(keys) : \A q \in M[Len(keys)] : \E p \in M[n] : IsPrefix(p, q)
<1>1. /\ b \in AllTrees /\ keys \in Seq(Keys) /\ v \in Settable /\ Reaches(b, keys, M)
      /\ Leads(b, keys, W) /\ keys # <<>> /\ Names(keys[Len(keys)])
  BY DEF AsksPlain, Asks, Plain, Last
<1>2. Len(keys) \in Nat \ {0} /\ \A i \in 1..Len(keys) : keys[i] \in Keys /\ i \in DOMAIN keys
  BY <1>1, EmptySeq
<1>3. \A i \in 1..Len(keys) : OneDown(keys[i]) /\ keys[i] # All
  <2>1. ~OneDown(All)
    BY DEF OneDown, Selects, IsA, All
  <2> QED BY <1>2, <2>1 DEF AsksPlain, Plain
<1>4. v # Nil /\ v \in TreeKinds
  BY <1>1, SettableKinds DEF TreeKinds, Leaves
<1>5. Len(keys) \in 0..Len(keys)
  BY <1>2
<1>6. ASSUME NEW n \in 0..Len(keys)
      PROVE  /\ \A p \in M[n] : p \in Positions /\ Len(p) = n
             /\ \A q \in M[Len(keys)] : \E p \in M[n] : IsPrefix(p, q)
  BY <1>1, <1>3, <1>5, AsDeep
<1> QED BY <1>1, <1>2, <1>3, <1>4, <1>6

\* No call meets a text if the value is none.
LEMMA NoTextThere ==
  ASSUME NEW b, NEW keys, NEW v, NEW M, NEW W, AsksPlain(b, keys, v, M, W),
         NEW n \in 1..Len(keys), NEW t \in AllTrees, NEW p, CallAt(p, n - 1),
         Calm(t, p, b, keys, v, n - 1, W), Leaf(t, p) \in Texts
  PROVE  v \in Texts
<1> SUFFICES ASSUME v \notin Texts PROVE FALSE
  OBVIOUS
<1>1. /\ b \in AllTrees /\ keys \in Seq(Keys) /\ Leads(b, keys, W) /\ keys[n] # All
      /\ n - 1 \in 0..Len(keys) /\ Len(keys) \in (n - 1)..Len(keys)
  BY PlainFacts
<1>2. Alters(t, b, keys, v, W) /\ Begins(p, n - 1, W) /\ OfNoText(p)
  BY DEF Calm
<1>3. p \notin Pieces /\ Kind(t, p) \in Texts
  BY <1>2, PieceFacts DEF OfNoText, Leaf
<1>4. p \in Positions /\ p \in W[n - 1]
  <2>1. Kind(t, p) # Nil
    BY <1>3
  <2>2. p \notin Outside
    BY <2>1, OutsideFacts
  <2> QED BY <1>2, <2>2 DEF CallAt, Begins
<1>5. \A w \in W[Len(keys)] : p \in Seq(Steps) /\ w \in Seq(Steps) /\ Len(p) < Len(w)
  BY <1>1, <1>4, EndsDeeper
<1>6. Kind(b, p) \in Texts
  <2> SUFFICES ASSUME Kind(t, p) # Kind(b, p) PROVE Kind(b, p) \in Texts
    BY <1>3
  <2>1. PICK w \in W[Len(keys)] :
          \/ IsPrefix(w, p)
          \/ IsPrefix(p, w) /\ Kind(b, p) = Nil /\ Kind(t, p) \in {Hash, Array}
          \/ p = Front(w) /\ {Kind(b, p), Kind(t, p)} \subseteq Texts
    BY <1>2, <1>4 DEF Alters, Agrees
  <2>2. ~IsPrefix(w, p)
    <3>1. p \in Seq(Steps) /\ w \in Seq(Steps) /\ Len(p) < Len(w) /\ Len(p) \in Nat /\ Len(w) \in Nat
      BY <1>5, LenProperties
    <3>2. IsPrefix(w, p) => Len(w) <= Len(p)
      BY <3>1, PrefixFacts
    <3> QED BY <3>1, <3>2
  <2>3. Kind(t, p) \notin {Hash, Array}
    BY <1>3
  <2> QED BY <2>1, <2>2, <2>3
<1>7. PICK w \in W[Len(keys)] : IsPrefix(p, w)
  BY <1>1, <1>4, OnTheWay
<1>8. p \in Taken(b) /\ w \in Ways(b, keys)
  <2>1. Kind(b, p) # Nil
    BY <1>6
  <2> QED BY <1>1, <2>1, KindFacts, ZenonT(30) DEF Leads
<1>9. p = w
  BY <1>6, <1>7, <1>8 DEF AsksPlain, NoTextBefore
<1>10. Len(p) < Len(p) /\ Len(p) \in Nat
  BY <1>5, <1>9, LenProperties
<1> QED BY <1>10

\* Where something else than a hash or a list is, or nothing, no part names anything.
LEMMA NoneNamed ==
  ASSUME NEW b, NEW p, NEW k \in Parts, NEW final, NEW t,
         Kind(t, p) \notin {Hash, Array}, Arrived(t, b, p, Hash)
  PROVE  Append(p, k) \notin NamedOne(b, p, k, final)
<1>1. Kind(b, p) \notin {Hash, Array, Nil}
  BY DEF Arrived
<1>2. k # All
  BY DEF All, Parts
<1> QED BY <1>1, <1>2 DEF NamedOne

\* A change at q, of as many parts as the keys or where nothing is yet, keeps
\* what is set.
LEMMA PutLeaves ==
  ASSUME NEW t \in AllTrees, NEW q \in Positions, NEW k, k # Nil, NEW v, v # Nil,
         NEW d \in Nat, (Len(q) = d /\ k = v) \/ (Kind(t, q) = Nil /\ Len(q) <= d)
  PROVE  /\ Keeps(Put(t, q, k), t, d, v) /\ Kind(Put(t, q, k), q) = k
         /\ \A r \in Positions : Kind(Put(t, q, k), r) # Kind(t, r) => IsPrefix(q, r)
         /\ Kind(t, q) = Nil =>
              \A r \in Positions : r # q => Kind(Put(t, q, k), r) = Kind(t, r)
<1> DEFINE u == Put(t, q, k)
<1>1. \A r \in Positions : Kind(u, r) = IF r = q THEN k
                                        ELSE IF IsPrefix(q, r) THEN Nil ELSE Kind(t, r)
  BY PutKind
<1>2. Kind(t, q) = Nil => \A r \in Positions : r # q => Kind(u, r) = Kind(t, r)
  BY PutLeaf
<1>3. IsPrefix(q, q)
  BY PrefixFacts DEF Positions
<1> HIDE DEF u
<1>4. ASSUME NEW r \in Positions, Len(r) = d, Kind(t, r) = v PROVE Kind(u, r) = v
  <2>1. CASE Kind(t, q) = Nil
    BY <1>2, <1>4, <2>1
  <2>2. CASE Len(q) = d /\ k = v
    <3>1. IsPrefix(q, r) => q = r
      BY <1>4, <2>2, PrefixFacts DEF Positions
    <3> QED BY <1>1, <1>4, <2>2, <3>1
  <2> QED BY <2>1, <2>2
<1> QED BY <1>1, <1>2, <1>3, <1>4 DEF Keeps, u

\* Following one plain key.
LEMMA FollowSets ==
  ASSUME NEW b, NEW keys, NEW v, NEW M, NEW W, AsksPlain(b, keys, v, M, W),
         NEW n \in 1..Len(keys), NEW t \in AllTrees, NEW p, CallAt(p, n - 1),
         Calm(t, p, b, keys, v, n - 1, W),
         NEW k \in Parts, ~IsA(k, "colon"), n = Len(keys) => IsA(k, "name"),
         v \in Texts \/ p \in Outside \/ Append(p, k) \in W[n],
         NEW below \in [Calls -> Outcomes], Sets(below, b, keys, v, n, M, W),
         NEW rest, rest = <<>> <=> n = Len(keys), Fresh(rest) = Hash
  PROVE  SetsFrom(Follow(t, p, k, rest, v, below), t, b, p, k, keys, v, n, M)
<1> DEFINE N == Len(keys)
           q == Append(p, k)
           On(u, r) == below[[tree |-> u, at |-> r]]
<1>1. /\ b \in AllTrees /\ N \in Nat /\ N # 0 /\ v # Nil /\ v \in TreeKinds /\ Hash \in TreeKinds
      /\ \A r \in M[N] : r \in Positions /\ Len(r) = N
      /\ Asks(b, keys, v, W) /\ v \in Settable
  <2>1. N \in 0..N
    BY PlainFacts
  <2> QED BY <2>1, PlainFacts DEF TreeKinds, AsksPlain
<1>2. Missing \in Seq(Steps) /\ Positions \subseteq Seq(Steps) /\ k # All /\ k \in Steps
  BY Places DEF Steps, All, Parts
<1>4. /\ \A u : ~Done(u).raised /\ Done(u).tree = u
      /\ Keeps(t, t, N, v)
  BY DEF Done, Keeps
<1>5. ASSUME NEW u \in AllTrees, NEW r, CallAt(r, n), Calm(u, r, b, keys, v, n, W)
      PROVE  /\ ~On(u, r).raised
             /\ OnlyBelow(On(u, r).tree, u, r) /\ Keeps(On(u, r).tree, u, N, v)
             /\ n < N /\ r \in M[n] /\ AsItWas(u, b, r, Hash) =>
                  AllSet(On(u, r).tree, r, M[N], v)
  <2> DEFINE c == [tree |-> u, at |-> r]
  <2>1. r \in Seq(Steps) \cup Pieces
    BY <1>2, <1>5 DEF CallAt, Outside
  <2>2. c \in Calls /\ c.tree = u /\ c.at = r
    BY <2>1, OutcomeFacts
  <2> HIDE DEF c
  <2> QED BY <1>5, <2>2 DEF Sets, SetsBelow, c
\* What is called at what is in no tree changes nothing.
<1>6. ASSUME NEW r \in Outside, v \in Texts \/ OfNoText(r)
      PROVE  /\ ~On(t, r).raised /\ Keeps(On(t, r).tree, t, N, v)
             /\ \A x \in Positions : Kind(On(t, r).tree, x) = Kind(t, x)
  <2>1. CallAt(r, n) /\ Calm(t, r, b, keys, v, n, W)
    BY <1>6 DEF CallAt, Calm, Begins
  <2>2. r \notin Positions
    BY OutsideFacts
  <2> QED BY <1>5, <2>1, <2>2 DEF OnlyBelow
<1>m. Missing \in Outside /\ OfNoText(Missing)
  BY PieceFacts DEF Outside, OfNoText
<1> HIDE DEF On
\* Nothing happens where there is nothing that is named.
<1>8. ASSUME NEW o, ~o.raised, Keeps(o.tree, t, N, v),
             \A r \in Positions : Kind(o.tree, r) = Kind(t, r),
             Arrived(t, b, p, Hash) /\ SameFrom(t, b, q) /\ q \in M[n] =>
               q \notin NamedOne(b, p, k, n = N)
      PROVE  SetsFrom(o, t, b, p, k, keys, v, n, M)
  BY <1>8 DEF SetsFrom
<1>l. CASE Leaf(t, p) \in Leaves
  <2> DEFINE o == FollowLeaf(t, p, k, rest, v, below)
  <2>1. LeafDoes(o, t, p, k, rest, v, below)
    BY <1>1, <1>2, <1>l, LeafOutcome
  <2>2. v \in Texts \/ Leaf(t, p) \notin Texts
    BY NoTextThere
  <2>3. Arrived(t, b, p, Hash) => q \notin NamedOne(b, p, k, n = N)
    <3>1. Kind(t, p) \notin {Hash, Array}
      BY <1>l, PieceFacts
    <3> QED BY <3>1, NoneNamed
  <2> HIDE DEF o, q
  <2>4. ASSUME o = Done(t) PROVE SetsFrom(o, t, b, p, k, keys, v, n, M)
    BY <1>4, <1>8, <2>3, <2>4
  <2>5. ASSUME rest = <<>>, p \notin Pieces, Kind(t, p) \in Texts, \E s \in Texts : o = Done(Put(t, p, s))
        PROVE  SetsFrom(o, t, b, p, k, keys, v, n, M)
    <3>1. PICK s \in Texts : o = Done(Put(t, p, s))
      BY <2>5
    <3>2. p \in Positions /\ Len(p) # N /\ Kind(t, p) \notin {Hash, Array} /\ s # Nil
      <4>1. Kind(t, p) # Nil
        BY <2>5
      <4>2. p \in Positions /\ p \notin Outside
        BY <4>1, KindFacts, OutsideFacts
      <4>3. n = N /\ Len(p) = n - 1
        BY <2>5, <4>2 DEF CallAt
      <4> QED BY <1>1, <2>5, <4>2, <4>3
    <3> DEFINE u == Put(t, p, s)
    <3>3. Kind(u, p) = s /\ \A r \in Positions : r # p => Kind(u, r) = Kind(t, r)
      BY <3>2, PutLeaf
    <3> HIDE DEF u
    <3>4. Keeps(u, t, N, v)
      BY <3>2, <3>3 DEF Keeps
    <3>5. \A r \in Positions : Kind(u, r) # Kind(t, r) => r = p /\ TextsAt(u, t, r)
      BY <2>5, <3>3 DEF TextsAt
    <3>6. o.tree = u /\ ~o.raised
      BY <1>4, <3>1 DEF u
    <3>7. ~(q \in M[n] /\ q \in NamedOne(b, p, k, n = N) /\ Arrived(t, b, p, Hash))
      BY <2>3
    <3> QED BY <3>2, <3>4, <3>5, <3>6, <3>7 DEF SetsFrom, q
  <2>6. ASSUME \E r \in Outside : o = On(t, r) /\ (Leaf(t, p) \in Texts \/ OfNoText(r))
        PROVE  SetsFrom(o, t, b, p, k, keys, v, n, M)
    BY <1>6, <1>8, <2>2, <2>3, <2>6
  <2>7. \/ o = Done(t)
        \/ rest = <<>> /\ p \notin Pieces /\ Kind(t, p) \in Texts /\ \E s \in Texts : o = Done(Put(t, p, s))
        \/ \E r \in Outside : o = On(t, r) /\ (Leaf(t, p) \in Texts \/ OfNoText(r))
    BY <1>2, <2>1, <2>2 DEF LeafDoes, On, Outside
  <2>8. SetsFrom(o, t, b, p, k, keys, v, n, M)
    BY <2>4, <2>5, <2>6, <2>7
  <2> QED BY <1>l, <2>8 DEF Follow, o
<1>n. SUFFICES ASSUME Leaf(t, p) \notin Leaves
               PROVE  SetsFrom(FollowNode(t, p, k, rest, v, below), t, b, p, k, keys, v, n, M)
  BY <1>l DEF Follow
<1>9. CASE p \in Outside
  <2>1. Kind(t, p) = Nil
    BY <1>9, OutsideFacts
  <2>2. Arrived(t, b, p, Hash) => q \notin NamedOne(b, p, k, n = N)
    BY <2>1, NoneNamed
  <2>3. FollowNode(t, p, k, rest, v, below) \in {Done(t), On(t, Missing)}
    BY <2>1 DEF FollowNode, On, IsA, Parts
  <2> HIDE DEF q
  <2> QED BY <1>4, <1>6, <1>m, <1>8, <2>2, <2>3
<1>10. CASE p \notin Outside
  <2>1. p \in Positions /\ Len(p) = n - 1
    BY <1>10 DEF CallAt
  <2>2. q \in Positions /\ Len(q) = n /\ IsPrefix(q, q) /\ CallAt(q, n) /\ Len(q) <= N
    <3>1. q \in Positions /\ Len(q) = n
      BY <2>1, AppendFacts DEF Positions
    <3> HIDE DEF q
    <3>2. IsPrefix(q, q)
      BY <3>1, PrefixFacts DEF Positions
    <3>3. n <= N
      BY <1>1
    <3> QED BY <3>1, <3>2, <3>3 DEF CallAt
  <2>c. v \in Texts \/ (Alters(t, b, keys, v, W) /\ q \in W[n] /\ OfNoText(q))
    <3>1. q \notin Pieces
      BY <2>2, PieceFacts
    <3> QED BY <1>10, <3>1 DEF Calm, OfNoText
  <2> HIDE DEF q
  <2>3. CASE IsA(k, "name") /\ Kind(t, p) # Hash
    <3>1. FollowNode(t, p, k, rest, v, below) = Done(t)
      BY <2>3 DEF FollowNode, IsA
    <3>2. Arrived(t, b, p, Hash) => q \notin NamedOne(b, p, k, n = N)
      <4>1. q \in NamedOne(b, p, k, n = N) => Kind(b, p) \in {Hash, Nil}
        BY <1>2, <2>3 DEF NamedOne, IsA
      <4> QED BY <2>3, <4>1 DEF Arrived
    <3> QED BY <1>4, <1>8, <3>1, <3>2
  <2>4. CASE IsA(k, "name") /\ Kind(t, p) = Hash /\ n = N
    <3> DEFINE u == Put(t, q, v)
    <3>1. FollowNode(t, p, k, rest, v, below) = Done(u)
      BY <2>4 DEF FollowNode, q
    <3>2. /\ Keeps(u, t, N, v) /\ Kind(u, q) = v
          /\ \A r \in Positions : Kind(u, r) # Kind(t, r) => IsPrefix(q, r)
      BY <1>1, <2>2, <2>4, PutLeaves
    <3>3. AllSet(u, q, M[N], v)
      <4>1. \A r \in M[N] : IsPrefix(q, r) => q = r
        BY <1>1, <2>2, <2>4, PrefixFacts DEF Positions
      <4> QED BY <3>2, <4>1 DEF AllSet
    <3> HIDE DEF u
    <3> QED BY <1>4, <2>1, <3>1, <3>2, <3>3 DEF SetsFrom, q
  <2>5. CASE IsA(k, "name") /\ Kind(t, p) = Hash /\ n # N
    <3> DEFINE u == IF There(t, q) THEN t ELSE Put(t, q, Hash)
               o == On(u, q)
    <3>1. FollowNode(t, p, k, rest, v, below) = o
      BY <2>5 DEF FollowNode, On, q, IsA
    <3>2. /\ u \in AllTrees /\ Kind(u, q) = IF Kind(t, q) = Nil THEN Hash ELSE Kind(t, q)
          /\ \A r \in Positions : r # q => Kind(u, r) = Kind(t, r)
          /\ Keeps(u, t, N, v)
          /\ Calm(u, q, b, keys, v, n, W)
      <4>1. CASE There(t, q)
        BY <1>4, <2>c, <4>1, KindFacts DEF Calm, Begins
      <4>2. CASE ~There(t, q)
        <5>1. Kind(t, q) = Nil
          BY <4>2, KindFacts
        <5>2. Put(t, q, Hash) \in AllTrees
          <6>1. Place(t, q)
            BY <2>5, Places DEF q, Steps
          <6> QED BY <1>1, <6>1, PutKeeps
        <5>3. v \in Texts \/ Alters(Put(t, q, Hash), b, keys, v, W)
          <6>1. n \in 1..(Len(keys) - 1)
            BY <1>1, <2>5
          <6>2. q # <<>>
            BY <2>1, AppendFacts DEF q, Positions
          <6> QED BY <1>1, <2>2, <2>c, <5>1, <6>1, <6>2, CreateChanges
        <5>4. Calm(Put(t, q, Hash), q, b, keys, v, n, W)
          BY <2>c, <5>3 DEF Calm, Begins
        <5> QED BY <1>1, <2>2, <4>2, <5>1, <5>2, <5>4, PutLeaves
      <4> QED BY <4>1, <4>2
    <3> HIDE DEF u
    <3>3. /\ ~o.raised /\ OnlyBelow(o.tree, u, q) /\ Keeps(o.tree, u, N, v)
          /\ q \in M[n] /\ AsItWas(u, b, q, Hash) => AllSet(o.tree, q, M[N], v)
      <4>1. n < N
        BY <1>1, <2>5
      <4> QED BY <1>5, <2>2, <3>2, <4>1
    <3> HIDE DEF o
    <3>4. \A r \in Positions : Kind(o.tree, r) # Kind(t, r) => IsPrefix(q, r)
      BY <2>2, <3>2, <3>3 DEF OnlyBelow
    <3>5. Keeps(o.tree, t, N, v)
      BY <3>2, <3>3 DEF Keeps
    <3>6. SameFrom(t, b, q) => AsItWas(u, b, q, Hash)
      BY <2>2, <3>2 DEF SameFrom, AsItWas, Arrived
    <3> QED BY <2>1, <3>1, <3>3, <3>4, <3>5, <3>6 DEF SetsFrom, q
  <2>6. CASE ~IsA(k, "name") /\ Kind(t, p) = Array /\ There(t, q)
    <3> DEFINE o == On(t, q)
    <3>1. IsA(k, "index") /\ n < N
      BY <1>1, <2>6 DEF IsA, Parts
    <3>2. FollowNode(t, p, k, rest, v, below) = o
      BY <2>6, <3>1 DEF FollowNode, On, q, IsA
    <3>3. /\ ~o.raised /\ OnlyBelow(o.tree, t, q) /\ Keeps(o.tree, t, N, v)
          /\ q \in M[n] /\ AsItWas(t, b, q, Hash) => AllSet(o.tree, q, M[N], v)
      <4>1. Calm(t, q, b, keys, v, n, W)
        BY <2>c DEF Calm, Begins
      <4> QED BY <1>5, <2>2, <3>1, <4>1
    <3> HIDE DEF o
    <3>4. \A r \in Positions : Kind(o.tree, r) # Kind(t, r) => IsPrefix(q, r)
      BY <3>3 DEF OnlyBelow
    <3>5. SameFrom(t, b, q) => AsItWas(t, b, q, Hash)
      <4>1. Kind(t, q) # Nil
        BY <2>6, KindFacts
      <4> QED BY <2>2, <4>1 DEF SameFrom, AsItWas, Arrived
    <3> QED BY <2>1, <3>2, <3>3, <3>4, <3>5 DEF SetsFrom, q
  <2>7. CASE ~IsA(k, "name") /\ ~(Kind(t, p) = Array /\ There(t, q))
    <3>1. IsA(k, "index") /\ n < N
      BY <1>1, <2>7 DEF IsA, Parts
    <3>2. FollowNode(t, p, k, rest, v, below) = On(t, Missing)
      BY <2>7, <3>1 DEF FollowNode, On, q, IsA
    <3>3. Arrived(t, b, p, Hash) /\ SameFrom(t, b, q) => q \notin NamedOne(b, p, k, n = N)
      <4>1. q \in NamedOne(b, p, k, n = N) => Kind(b, p) = Array /\ There(b, q)
        <5>1. ~(n = N)
          BY <1>1, <3>1
        <5> QED BY <1>2, <3>1, <5>1 DEF NamedOne
      <4>2. There(b, q) => Kind(b, q) # Nil
        BY <1>1, KindFacts
      <4>3. Kind(t, q) # Nil => There(t, q)
        BY KindFacts
      <4> QED BY <2>2, <2>7, <4>1, <4>2, <4>3 DEF Arrived, SameFrom
    <3> QED BY <1>6, <1>m, <1>8, <3>2, <3>3
  <2> QED BY <2>3, <2>4, <2>5, <2>6, <2>7
<1> QED BY <1>9, <1>10

\* The keys that a plain key stands for.
LEMMA PlainAlternatives ==
  ASSUME NEW t \in AllTrees, NEW p, NEW key \in Keys, OneDown(key)
  PROVE  /\ Alternatives(t, p, key) \in Seq(Parts)
         /\ \A i \in 1..Len(Alternatives(t, p, key)) :
              /\ ~IsA(Alternatives(t, p, key)[i], "colon")
              /\ Names(key) => IsA(Alternatives(t, p, key)[i], "name")
<1>1. CASE IsA(key, "list")
  <2>1. Alternatives(t, p, key) = key[2] /\ key[2] \in Seq(Parts)
    BY <1>1, KeyFacts DEF Alternatives
  <2>2. \A i \in 1..Len(key[2]) : i \in DOMAIN key[2] /\ ~IsA(key[2][i], "colon")
    <3> DEFINE K == {k \in Parts : ~IsA(k, "colon")}
    <3>1. key[2] \in Seq(K)
      BY <1>1 DEF Keys, Parts, IsA, All
    <3>2. \A i \in 1..Len(key[2]) : i \in DOMAIN key[2] /\ key[2][i] \in K
      BY <3>1, ElementOfSeq
    <3> QED BY <3>2
  <2>3. Names(key) => \A i \in DOMAIN key[2] : IsA(key[2][i], "name")
    BY <1>1 DEF Names, IsA
  <2> QED BY <2>1, <2>2, <2>3
<1>2. CASE IsA(key, "name")
  <2>1. key \in Parts /\ Alternatives(t, p, key) = <<key>>
    BY <1>2, KeyFacts DEF Alternatives, IsA
  <2> QED BY <1>2, <2>1 DEF IsA
<1>3. CASE IsA(key, "where") /\ Askable(t, p)
  <2> DEFINE ks == Selected(t, p, key)
  <2>1. Alternatives(t, p, key) = ks /\ ~Names(key)
    BY <1>3 DEF Alternatives, Names, IsA
  <2>2. p \in Positions
    BY <1>3, KindFacts DEF Askable
  <2>3. ks \in Seq(Parts) /\ \A i \in DOMAIN ks : \E j \in 0..(Size(t, p) - 1) : ks[i] = Index(j)
    BY <2>2, SelectedOnes
  <2>4. \A i \in 1..Len(ks) : ~IsA(ks[i], "colon")
    BY <2>3 DEF IsA, Index
  <2> HIDE DEF ks
  <2> QED BY <2>1, <2>3, <2>4
<1>4. CASE IsA(key, "where") /\ ~Askable(t, p)
  <2>1. Alternatives(t, p, key) = <<>>
    BY <1>4 DEF Alternatives, IsA
  <2> QED BY <2>1, EmptySeq
<1> QED BY <1>1, <1>2, <1>3, <1>4 DEF OneDown, Selects

\* They are the ones chosen at the beginning where nothing was changed since.
LEMMA ChosenAsItWas ==
  ASSUME NEW t \in AllTrees, NEW b \in AllTrees, NEW p \in Positions, NEW key \in Keys,
         OneDown(key), AsItWas(t, b, p, Hash), NEW k \in Chosen(b, p, key)
  PROVE  k \in Range(Alternatives(t, p, key))
<1>1. CASE IsA(key, "list")
  BY <1>1 DEF Chosen, Alternatives, IsA
<1>2. CASE IsA(key, "name")
  <2>1. Alternatives(t, p, key) = <<key>> /\ k = key
    BY <1>2 DEF Alternatives, Chosen, IsA
  <2> QED BY <2>1 DEF Range
<1>3. CASE IsA(key, "where")
  <2>1. PICK q \in Below(b, p) : /\ k = Last(q) /\ Askable(b, p) /\ Kind(b, p) = Array
                                 /\ Field(b, q, key[2]) \in key[3]
    BY <1>3 DEF Chosen, IsA, Askable
  <2>2. PICK j \in 0..(Size(b, p) - 1) : q = Element(p, j)
    BY <2>1, OnlyElements
  <2>3. j \in Nat /\ Index(j) \in Parts /\ p \in Seq(Parts)
    <3>1. j \in Nat
      BY BelowFinite
    <3> QED BY <3>1 DEF Index, Parts, Positions
  <2>4. k = Index(j)
    BY <2>1, <2>2, <2>3, AppendFacts DEF Element
  <2>5. Kind(t, p) = Array /\ \A r \in Positions : IsPrefix(p, r) /\ p # r => Kind(t, r) = Kind(b, r)
    BY <2>1 DEF AsItWas, Arrived
  <2>e. \A i \in Nat : Kind(t, Element(p, i)) = Kind(b, Element(p, i))
    <3> SUFFICES ASSUME NEW i \in Nat PROVE Kind(t, Element(p, i)) = Kind(b, Element(p, i))
      OBVIOUS
    <3>1. Index(i) \in Parts
      BY DEF Index, Parts
    <3>2. /\ Element(p, i) \in Positions /\ IsPrefix(p, Element(p, i))
          /\ Len(Element(p, i)) = Len(p) + 1 /\ Len(p) \in Nat
      BY <2>3, <3>1, AppendFacts, LenProperties DEF Element, Positions
    <3>3. p # Element(p, i)
      BY <3>2
    <3> QED BY <2>5, <3>2, <3>3
  <2>6. Below(t, p) = Below(b, p)
    <3>1. ASSUME NEW r \in Positions, r # <<>>, Front(r) = p PROVE There(t, r) <=> There(b, r)
      <4>1. r \in Seq(Parts) /\ Last(r) \in Parts /\ r = Append(p, Last(r)) /\ Len(r) = Len(p) + 1
        BY <3>1, FrontFacts DEF Positions
      <4>2. IsPrefix(p, r) /\ p # r
        <5>1. PICK l \in Parts : r = Append(p, l)
          BY <4>1
        <5>2. IsPrefix(p, r)
          BY <2>3, <5>1, AppendFacts
        <5>3. Len(p) \in Nat
          BY <2>3, LenProperties
        <5> QED BY <4>1, <5>2, <5>3
      <4>3. Kind(t, r) = Kind(b, r)
        BY <2>5, <4>2
      <4>4. Kind(t, r) # Nil <=> There(t, r)
        BY KindFacts
      <4>5. Kind(b, r) # Nil <=> There(b, r)
        BY KindFacts
      <4> QED BY <4>3, <4>4, <4>5
    <3>2. \A r : There(t, r) \/ There(b, r) => r \in Positions
      BY KindFacts
    <3>3. \A r : r \in Below(t, p) <=> There(t, r) /\ r # <<>> /\ Front(r) = p
      BY BelowFacts
    <3>4. \A r : r \in Below(b, p) <=> There(b, r) /\ r # <<>> /\ Front(r) = p
      BY BelowFacts
    <3> QED BY <3>1, <3>2, <3>3, <3>4
  <2>7. Fits(t, p, key, j)
    <3> DEFINE e == Element(p, j)
               x == Append(e, key[2])
    <3>1. key[2] \in Parts
      BY <1>3, KeyFacts
    <3>2. e \in Seq(Parts) /\ IsPrefix(p, e)
      BY <2>3, AppendFacts DEF Element
    <3> HIDE DEF e
    <3>3. x \in Seq(Parts) /\ IsPrefix(e, x) /\ Len(x) = Len(e) + 1
      BY <3>1, <3>2, AppendFacts
    <3> HIDE DEF x
    <3>4. IsPrefix(p, x) /\ p # x
      <4>1. IsPrefix(p, x)
        BY <2>3, <3>2, <3>3, PrefixFacts
      <4>2. Len(p) <= Len(e) /\ Len(p) \in Nat /\ Len(e) \in Nat
        BY <2>3, <3>2, PrefixFacts, LenProperties
      <4> QED BY <3>3, <4>1, <4>2
    <3>5. Kind(t, x) = Kind(b, x)
      BY <2>5, <3>3, <3>4 DEF Positions
    <3>6. Kind(t, e) = Kind(b, e)
      BY <2>3, <2>e DEF e
    <3>7. Field(t, e, key[2]) = Field(b, e, key[2])
      BY <3>5, <3>6 DEF Field, x
    <3> QED BY <2>1, <2>2, <3>7 DEF Fits, e
  <2>8. Size(t, p) = Size(b, p)
    BY <2>6 DEF Size
  <2>9. PICK i \in DOMAIN Selected(t, p, key) : Selected(t, p, key)[i] = Index(j)
    <3>1. j \in 0..(Size(t, p) - 1)
      BY <2>8
    <3>2. TakesAll(Selected(t, p, key), t, p, key)
      BY SelectedOnes
    <3> QED BY <2>7, <3>1, <3>2 DEF TakesAll
  <2>10. Alternatives(t, p, key) = Selected(t, p, key)
    <3>1. Askable(t, p)
      <4>1. \A l \in 1..Size(t, p) : l - 1 \in Nat
        BY BelowFinite
      <4>2. \A l \in 1..Size(t, p) : Kind(t, Element(p, l - 1)) \notin {Array, Number}
        BY <2>1, <2>e, <2>8, <4>1 DEF Askable
      <4> QED BY <2>5, <4>2 DEF Askable
    <3> QED BY <1>3, <3>1 DEF Alternatives, IsA
  <2> QED BY <2>4, <2>9, <2>10 DEF Range
<1> QED BY <1>1, <1>2, <1>3 DEF OneDown, Selects

\* What the first i of the keys ks, tried from p, leave: a position below p that
\* is named is set, or nothing was done there yet.
Halfway(u, b, p, ks, i, Q, R, v) ==
  \A c \in Parts : Append(p, c) \in Q =>
    \/ AllSet(u, Append(p, c), R, v)
    \/ SameFrom(u, b, Append(p, c)) /\ \A j \in 1..i : ks[j] # c

\* One key more.
LEMMA HalfwayOn ==
  ASSUME NEW b, NEW keys, NEW v, NEW M, NEW W, AsksPlain(b, keys, v, M, W),
         NEW n \in 1..Len(keys), NEW p \in M[n - 1], NEW ks \in Seq(Parts),
         NEW i \in 1..Len(ks), NEW u, NEW o,
         Arrived(u, b, p, Hash), SetsFrom(o, u, b, p, ks[i], keys, v, n, M),
         Halfway(u, b, p, ks, i - 1, M[n], M[Len(keys)], v)
  PROVE  Halfway(o.tree, b, p, ks, i, M[n], M[Len(keys)], v)
<1> DEFINE N == Len(keys)
           k == ks[i]
<1>1. /\ b \in AllTrees /\ keys \in Seq(Keys) /\ Reaches(b, keys, M) /\ OneDown(keys[n])
      /\ N \in Nat /\ N \in 0..N /\ n - 1 \in 0..N /\ n \in 0..N /\ k \in Parts
      /\ \A j \in 1..i : j \in 1..(i - 1) \/ j = i
  BY PlainFacts
<1>2. p \in Seq(Parts) /\ \A q \in M[N] : q \in Positions /\ Len(q) = N
  BY <1>1, PlainFacts DEF Positions
<1> SUFFICES ASSUME NEW c \in Parts, Append(p, c) \in M[n]
             PROVE  \/ AllSet(o.tree, Append(p, c), M[N], v)
                    \/ SameFrom(o.tree, b, Append(p, c)) /\ \A j \in 1..i : ks[j] # c
  BY DEF Halfway
<1> DEFINE x == Append(p, c)
<1>3. CASE AllSet(u, x, M[N], v)
  BY <1>2, <1>3 DEF AllSet, SetsFrom, Keeps
<1>4. CASE SameFrom(u, b, x) /\ (\A j \in 1..(i - 1) : ks[j] # c) /\ c = k
  <2>1. \A y : y \in M[n] <=> \E r \in M[n - 1] : \E l \in Chosen(b, r, keys[n]) :
                  l \in Parts /\ y = Append(r, l) /\ y \in NamedOne(b, r, l, n = N)
    BY <1>1, OneLevel, SMTT(30)
  <2>2. PICK r \in M[n - 1], l \in Parts : x = Append(r, l) /\ x \in NamedOne(b, r, l, n = N)
    BY <2>1
  <2>3. r \in Seq(Parts)
    BY <1>1, PlainFacts DEF Positions
  <2>4. r = p /\ l = c
    <3>1. Front(x) = p /\ Last(x) = c
      BY <1>2, AppendFacts
    <3> HIDE DEF x
    <3>2. Front(x) = r /\ Last(x) = l
      BY <2>2, <2>3, AppendFacts
    <3> QED BY <3>1, <3>2
  <2> QED BY <1>4, <2>2, <2>4 DEF SetsFrom
<1>5. CASE SameFrom(u, b, x) /\ (\A j \in 1..(i - 1) : ks[j] # c) /\ c # k
  <2> DEFINE y == Append(p, k)
  <2>1. /\ x \in Seq(Parts) /\ y \in Seq(Parts) /\ Len(x) = Len(y) /\ Len(x) \in Nat
        /\ Last(x) = c /\ Last(y) = k
    BY <1>1, <1>2, AppendFacts
  <2> HIDE DEF x, y
  <2>2. \A r \in Positions : IsPrefix(x, r) => ~IsPrefix(y, r)
    <3> SUFFICES ASSUME NEW r \in Seq(Parts), IsPrefix(x, r), IsPrefix(y, r) PROVE FALSE
      BY DEF Positions
    <3>1. IsPrefix(x, y)
      BY <2>1, PrefixFacts
    <3>2. x = y
      BY <2>1, <3>1, PrefixFacts
    <3> QED BY <1>5, <2>1, <3>2
  <2>t. \A r \in Positions : IsPrefix(x, r) => r # p
    <3>1. Len(x) = Len(p) + 1 /\ Len(p) \in Nat
      BY <1>2, AppendFacts, LenProperties DEF x
    <3>2. \A r \in Positions : IsPrefix(x, r) => Len(x) <= Len(r)
      BY <2>1, PrefixFacts DEF Positions
    <3> QED BY <3>1, <3>2
  <2>3. SameFrom(o.tree, b, x)
    BY <1>5, <2>2, <2>t DEF SetsFrom, SameFrom, y
  <2>4. ASSUME NEW j \in 1..i PROVE ks[j] # c
    <3>1. j \in 1..(i - 1) => ks[j] # c
      BY <1>5
    <3>2. j \in 1..(i - 1) \/ j = i
      BY <1>1
    <3> QED BY <1>5, <3>1, <3>2
  <2> QED BY <2>3, <2>4 DEF x
<1>6. AllSet(u, x, M[N], v) \/ (SameFrom(u, b, x) /\ \A j \in 1..(i - 1) : ks[j] # c)
  BY DEF Halfway
<1> QED BY <1>3, <1>4, <1>5, <1>6

\* What the keys that a plain key stands for set.
LEMMA TraverseSets ==
  ASSUME NEW b, NEW keys, NEW v, NEW M, NEW W, AsksPlain(b, keys, v, M, W),
         NEW n \in 1..Len(keys), NEW t \in AllTrees, NEW p, CallAt(p, n - 1),
         Calm(t, p, b, keys, v, n - 1, W),
         NEW below \in [Calls -> Outcomes], Sets(below, b, keys, v, n, M, W),
         KeepsTo(below, b, keys, v, n, W),
         NEW rest, rest = <<>> <=> n = Len(keys), Fresh(rest) = Hash
  PROVE  SetsBelow(Traverse(t, p, keys[n], rest, v, below), t, b, p, keys, v, n - 1, M)
<1> DEFINE N == Len(keys)
           ks == Alternatives(t, p, keys[n])
           Going == p \in M[n - 1] /\ AsItWas(t, b, p, Hash)
           Fine(o, i) == /\ ~o.raised /\ OnlyBelow(o.tree, t, p) /\ Keeps(o.tree, t, N, v)
                         /\ v \in Texts \/ Alters(o.tree, b, keys, v, W)
                         /\ Going => Halfway(o.tree, b, p, ks, i, M[n], M[N], v)
           T == [i \in Nat |-> {o \in Outcomes : Fine(o, i)}]
<1>1. /\ b \in AllTrees /\ keys \in Seq(Keys) /\ Reaches(b, keys, M) /\ v \in Settable
      /\ keys[n] \in Keys /\ OneDown(keys[n])
      /\ N \in Nat /\ N \in 0..N /\ n - 1 \in 0..N /\ n \in 0..N /\ n - 1 < N
      /\ n = N => Names(keys[n])
      /\ Asks(b, keys, v, W)
  BY PlainFacts DEF AsksPlain
<1>p. p \in Seq(Steps) \cup Pieces
  BY Places DEF CallAt, Outside, Steps
<1>k. ASSUME v \notin Texts, NEW k \in Range(ks)
      PROVE  p \in Outside \/ Continues(k, p, keys, n, W)
  <2>1. Alters(t, b, keys, v, W) /\ Begins(p, n - 1, W)
    BY <1>k DEF Calm
  <2>2. CASE p \in W[n - 1]
    <3> HIDE DEF N
    <3> QED BY <1>1, <1>k, <2>1, <2>2, AlternativesLead DEF N
  <2> QED BY <2>1, <2>2 DEF Begins
<1>2. /\ ks \in Seq(Parts) /\ Len(ks) \in Nat
      /\ \A i \in 1..Len(ks) : /\ ks[i] \in Parts /\ ~IsA(ks[i], "colon")
                               /\ n = N => IsA(ks[i], "name")
  BY <1>1, PlainAlternatives
<1>3. \A i \in Nat : \A o : o \in T[i] <=> o \in Outcomes /\ Fine(o, i)
  OBVIOUS
<1> HIDE DEF ks, T
<1>4. Done(t) \in T[0]
  <2>1. Done(t) \in Outcomes /\ Done(t).tree = t /\ ~Done(t).raised
    BY OutcomeFacts DEF Done
  <2>2. ASSUME Going PROVE Halfway(t, b, p, ks, 0, M[n], M[N], v)
    <3> SUFFICES ASSUME NEW c \in Parts PROVE SameFrom(t, b, Append(p, c))
      BY DEF Halfway
    <3> DEFINE x == Append(p, c)
    <3>1. p \in Seq(Parts)
      BY <1>1, <2>2, PlainFacts DEF Positions
    <3>2. x \in Seq(Parts) /\ IsPrefix(p, x) /\ Len(x) = Len(p) + 1 /\ Len(p) \in Nat
      BY <3>1, AppendFacts
    <3> HIDE DEF x
    <3>3. \A r \in Positions : IsPrefix(x, r) => IsPrefix(p, r) /\ p # r
      <4> SUFFICES ASSUME NEW r \in Seq(Parts), IsPrefix(x, r) PROVE IsPrefix(p, r) /\ p # r
        BY DEF Positions
      <4>1. IsPrefix(p, r) /\ Len(x) <= Len(r)
        BY <3>1, <3>2, PrefixFacts
      <4> QED BY <3>2, <4>1
    <3>4. SameFrom(t, b, x)
      BY <2>2, <3>3 DEF AsItWas, SameFrom
    <3> QED BY <3>4 DEF x
  <2>3. v \in Texts \/ Alters(t, b, keys, v, W)
    BY DEF Calm
  <2>4. OnlyBelow(t, t, p) /\ Keeps(t, t, N, v)
    BY DEF OnlyBelow, Keeps
  <2>5. Fine(Done(t), 0)
    BY <2>1, <2>2, <2>3, <2>4
  <2> QED BY <1>3, <2>1, <2>5
<1>5. ASSUME NEW i \in 1..Len(ks), NEW o \in T[i - 1]
      PROVE  /\ ~o.raised
             /\ Follow(o.tree, p, ks[i], rest, v, below) \in T[i]
  <2> DEFINE u == o.tree
             d == Follow(u, p, ks[i], rest, v, below)
  <2>1. i - 1 \in Nat /\ i \in Nat
    BY <1>2
  <2>2. u \in AllTrees /\ Fine(o, i - 1)
    BY <1>3, <2>1, OutcomeFacts
  <2>k. /\ ks[i] \in Parts /\ ks[i] \in Steps /\ ks[i] \in Range(ks) /\ ~IsA(ks[i], "colon")
        /\ n = N => IsA(ks[i], "name")
    BY <1>2 DEF Steps, Range
  <2>c. Calm(u, p, b, keys, v, n - 1, W)
    BY <2>2 DEF Calm
  <2>w. v \in Texts \/ p \in Outside \/ Continues(ks[i], p, keys, n, W)
    BY <1>k, <2>k
  <2>a. v \in Texts \/ p \in Outside \/ Append(p, ks[i]) \in W[n]
    <3>1. ks[i] # All
      BY <2>k DEF Parts, All
    <3> QED BY <2>w, <3>1 DEF Continues
  <2>3. SetsFrom(d, u, b, p, ks[i], keys, v, n, M)
    <3> HIDE DEF u, Fine
    <3> QED BY <2>2, <2>k, <2>c, <2>a, FollowSets
  <2>4. d \in Outcomes
    BY <1>1, <1>p, <2>2, <2>k, FollowKeeps
  <2> HIDE DEF u, d
  <2>v. v \in Texts \/ Alters(d.tree, b, keys, v, W)
    <3> SUFFICES ASSUME v \notin Texts PROVE Alters(d.tree, b, keys, v, W)
      OBVIOUS
    <3>1. Alters(u, b, keys, v, W) /\ Begins(p, n - 1, W)
      BY <2>2, <2>c DEF Calm, u
    <3>2. p \in Outside \/ Continues(ks[i], p, keys, n, W)
      BY <2>w
    <3> HIDE DEF Fine
    <3> QED BY <1>1, <1>p, <2>2, <2>k, <3>1, <3>2, FollowChanges DEF d
  <2>5. OnlyBelow(d.tree, t, p)
    <3> SUFFICES ASSUME NEW r \in Positions, Kind(d.tree, r) # Kind(t, r)
                 PROVE  /\ p \in Positions /\ IsPrefix(p, r)
                        /\ p # r \/ TextsAt(d.tree, t, r)
      BY DEF OnlyBelow
    <3>t. CASE p = r
      <4>1. IsPrefix(p, r)
        BY <3>t, PrefixFacts DEF Positions
      <4>2. Kind(u, r) = Kind(t, r) \/ TextsAt(u, t, r)
        BY <2>2, <3>t DEF OnlyBelow, u
      <4>3. Kind(d.tree, r) = Kind(u, r) \/ TextsAt(d.tree, u, r)
        <5>1. ~IsPrefix(Append(p, ks[i]), r)
          <6>1. p \in Seq(Parts) /\ Len(p) \in Nat
            BY <3>t, LenProperties DEF Positions
          <6>2. Append(p, ks[i]) \in Seq(Parts) /\ Len(Append(p, ks[i])) = Len(p) + 1
            BY <2>k, <6>1, AppendFacts
          <6>3. IsPrefix(Append(p, ks[i]), r) => Len(Append(p, ks[i])) <= Len(p)
            BY <3>t, <6>1, <6>2, PrefixFacts
          <6> QED BY <6>1, <6>2, <6>3
        <5> QED BY <2>3, <5>1 DEF SetsFrom
      <4>4. TextsAt(d.tree, t, r)
        BY <4>2, <4>3 DEF TextsAt
      <4> QED BY <3>t, <4>1, <4>4
    <3>1. CASE p # r /\ Kind(u, r) # Kind(t, r)
      BY <2>2, <3>1 DEF OnlyBelow, u
    <3>2. CASE p # r /\ Kind(d.tree, r) # Kind(u, r)
      <4>1. p \in Positions /\ IsPrefix(Append(p, ks[i]), r)
        BY <2>3, <3>2 DEF SetsFrom
      <4> DEFINE x == Append(p, ks[i])
      <4>2. p \in Seq(Parts)
        BY <4>1 DEF Positions
      <4>3. x \in Seq(Parts) /\ IsPrefix(p, x) /\ Len(x) = Len(p) + 1 /\ Len(p) \in Nat
        BY <1>2, <4>2, AppendFacts
      <4>4. r \in Seq(Parts) /\ IsPrefix(x, r)
        BY <4>1 DEF Positions
      <4> HIDE DEF x
      <4>5. IsPrefix(p, r) /\ Len(x) <= Len(r)
        BY <4>2, <4>3, <4>4, PrefixFacts
      <4> QED BY <3>2, <4>1, <4>5
    <3> QED BY <3>t, <3>1, <3>2
  <2>6. Keeps(d.tree, t, N, v)
    BY <2>2, <2>3 DEF Keeps, SetsFrom, u
  <2>7. ASSUME Going PROVE Halfway(d.tree, b, p, ks, i, M[n], M[N], v)
    <3>1. p \in Positions
      BY <1>1, <2>7, PlainFacts
    <3>c. CASE Kind(u, p) # Kind(t, p)
      <4>1. Kind(t, p) \notin {Hash, Array} /\ Arrived(t, b, p, Hash)
        <5>1. TextsAt(u, t, p)
          BY <2>2, <3>1, <3>c DEF OnlyBelow, u
        <5> QED BY <2>7, <5>1 DEF TextsAt, AsItWas
      <4>2. ASSUME NEW c \in Parts, Append(p, c) \in M[n] PROVE FALSE
        <5> DEFINE y == Append(p, c)
        <5>1. \A x : x \in M[n] <=> \E r \in M[n - 1] : \E l \in Chosen(b, r, keys[n]) :
                  l \in Parts /\ x = Append(r, l) /\ x \in NamedOne(b, r, l, n = N)
          BY <1>1, OneLevel
        <5>2. PICK r \in M[n - 1], l \in Parts : y = Append(r, l) /\ y \in NamedOne(b, r, l, n = N)
          BY <4>2, <5>1
        <5>3. r \in Seq(Parts) /\ p \in Seq(Parts)
          BY <1>1, <3>1, PlainFacts DEF Positions
        <5>4. r = p /\ l = c
          <6>1. Front(y) = p /\ Last(y) = c
            BY <4>2, <5>3, AppendFacts
          <6> HIDE DEF y
          <6>2. Front(y) = r /\ Last(y) = l
            BY <5>2, <5>3, AppendFacts
          <6> QED BY <6>1, <6>2
        <5>5. y \in NamedOne(b, p, c, n = N)
          BY <5>2, <5>4
        <5> QED BY <4>1, <5>5, NoneNamed
      <4> QED BY <4>2 DEF Halfway
    <3>2. SUFFICES ASSUME Kind(u, p) = Kind(t, p)
                   PROVE  Halfway(d.tree, b, p, ks, i, M[n], M[N], v)
      BY <3>c
    <3>3. Arrived(u, b, p, Hash)
      BY <2>7, <3>2 DEF AsItWas, Arrived
    <3>4. Halfway(u, b, p, ks, i - 1, M[n], M[N], v)
      BY <2>2, <2>7 DEF u
    <3>5. p \in M[n - 1]
      BY <2>7
    <3>6. SetsFrom(d, u, b, p, ks[i], keys, v, n, M) /\ i \in 1..Len(ks) /\ ks \in Seq(Parts)
      BY <1>2, <2>3
    <3> HIDE DEF Going, Fine
    <3> QED BY <3>3, <3>4, <3>5, <3>6, HalfwayOn
  <2>8. ~d.raised
    BY <2>3 DEF SetsFrom
  <2>9. Fine(d, i)
    BY <2>5, <2>6, <2>7, <2>8, <2>v
  <2>10. ~o.raised
    BY <2>2
  <2> HIDE DEF Fine
  <2> QED BY <1>3, <2>1, <2>4, <2>9, <2>10 DEF d, u
<1> DEFINE o == Each(t, p, ks, rest, v, below)
<1>6. o \in T[Len(ks)]
  <2> HIDE DEF Going, Fine
  <2>1. \A i \in 1..Len(ks) : \A w \in T[i - 1] :
          IF w.raised THEN w \in T[i] ELSE Follow(w.tree, p, ks[i], rest, v, below) \in T[i]
    BY <1>5
  <2> QED BY <1>2, <1>4, <2>1, InTurn
<1> HIDE DEF o
<1>7. Fine(o, Len(ks))
  BY <1>2, <1>3, <1>6
<1>8. ASSUME Going PROVE AllSet(o.tree, p, M[N], v)
  <2> SUFFICES ASSUME NEW q \in M[N], IsPrefix(p, q) PROVE Kind(o.tree, q) = v
    BY DEF AllSet
  <2>1. PICK x \in M[n] : IsPrefix(x, q)
    BY <1>1, PlainFacts
  <2>2. \E r \in M[n - 1] : \E l \in Chosen(b, r, keys[n]) : l \in Parts /\ x = Append(r, l)
    BY <1>1, OneLevel
  <2>3. PICK r \in M[n - 1], c \in Parts : c \in Chosen(b, r, keys[n]) /\ x = Append(r, c)
    BY <2>2
  <2>4. /\ p \in Positions /\ p \in Seq(Parts) /\ r \in Seq(Parts) /\ x \in Seq(Parts)
        /\ q \in Seq(Parts) /\ Len(p) = n - 1 /\ Len(r) = n - 1 /\ n - 1 \in Nat
    BY <1>1, <1>8, PlainFacts DEF Positions
  <2>5. r = p
    <3>1. IsPrefix(r, x)
      BY <2>3, <2>4, AppendFacts
    <3>2. IsPrefix(r, q)
      BY <2>1, <2>4, <3>1, PrefixFacts
    <3>3. IsPrefix(r, p)
      BY <2>4, <3>2, PrefixFacts
    <3> QED BY <2>4, <3>3, PrefixFacts
  <2>6. c \in Range(ks)
    BY <1>1, <1>8, <2>3, <2>4, <2>5, ChosenAsItWas DEF ks
  <2>7. PICK j \in 1..Len(ks) : ks[j] = c
    BY <1>2, <2>6 DEF Range
  <2>8. AllSet(o.tree, x, M[N], v)
    BY <1>7, <1>8, <2>3, <2>5, <2>7 DEF Halfway
  <2> QED BY <2>1, <2>8 DEF AllSet
<1> DEFINE d == Traverse(t, p, keys[n], rest, v, below)
<1>9. d.tree = o.tree /\ ~d.raised
  BY <1>7 DEF Traverse, Done, o, ks
<1> HIDE DEF d
<1>10. SetsBelow(d, t, b, p, keys, v, n - 1, M)
  BY <1>7, <1>8, <1>9 DEF SetsBelow
<1> QED BY <1>10 DEF d

\* The keys after the n-th.
LEMMA RestFacts ==
  ASSUME NEW K, NEW keys \in Seq(K), NEW m \in 1..Len(keys)
  PROVE  LET N == Len(keys)  n == N - m + 1  rest == SubSeq(keys, N - m + 2, N) IN
         /\ n \in 1..N /\ n - 1 = N - m /\ N - (m - 1) = n /\ m - 1 \in 0..N /\ m \in 0..N
         /\ keys[n] \in K
         /\ rest = <<>> <=> n = N
         /\ rest = <<All>> => n = N - 1 /\ keys[N] = All
         /\ n = N - 1 /\ keys[N] = All => rest = <<All>>
<1> DEFINE N == Len(keys)
           n == N - m + 1
           rest == SubSeq(keys, N - m + 2, N)
<1>1. N \in Nat /\ n \in 1..N /\ n + 1 = N - m + 2 /\ keys[n] \in K
  OBVIOUS
<1>2. /\ rest \in Seq(K) /\ Len(rest) = IF n + 1 <= N THEN N - n ELSE 0
      /\ \A i \in 1..Len(rest) : rest[i] = keys[n + i]
  <2>1. /\ n + 1 \in 1..(N + 1) /\ N \in 0..N
        /\ \A i \in 1..(N - n) : (n + 1) + i - 1 = n + i
    BY <1>1
  <2> QED BY <1>1, <2>1, SubSeqProperties
<1>3. rest = <<>> <=> n = N
  <2>1. rest = <<>> <=> Len(rest) = 0
    BY <1>2, EmptySeq
  <2> HIDE DEF rest, n
  <2> QED BY <1>1, <1>2, <2>1
<1>4. rest = <<All>> => n = N - 1 /\ keys[N] = All
  <2> HIDE DEF n
  <2> SUFFICES ASSUME rest = <<All>> PROVE n = N - 1 /\ keys[N] = All
    OBVIOUS
  <2> HIDE DEF rest
  <2>1. Len(rest) = 1 /\ rest[1] = All
    OBVIOUS
  <2>2. n = N - 1
    BY <1>1, <1>2, <2>1
  <2>3. rest[1] = keys[n + 1] /\ n + 1 = N
    BY <1>1, <1>2, <2>1, <2>2
  <2> QED BY <2>1, <2>2, <2>3
<1>5. n = N - 1 /\ keys[N] = All => rest = <<All>>
  <2> HIDE DEF n
  <2> SUFFICES ASSUME n = N - 1, keys[N] = All PROVE rest = <<All>>
    OBVIOUS
  <2> HIDE DEF rest
  <2>1. Len(rest) = 1 /\ rest[1] = All
    <3>1. Len(rest) = 1 /\ n + 1 = N
      BY <1>1, <1>2
    <3>2. 1 \in 1..Len(rest)
      BY <3>1
    <3> QED BY <1>2, <3>1, <3>2
  <2> QED BY <1>2, <2>1
<1>6. n - 1 = N - m /\ N - (m - 1) = n /\ m - 1 \in 0..N /\ m \in 0..N
  BY <1>1
<1> QED BY <1>1, <1>3, <1>4, <1>5, <1>6

\* What plain keys set, by a path of them.
LEMMA UpdatedSets ==
  ASSUME NEW b, NEW keys, NEW v, NEW M, NEW W, AsksPlain(b, keys, v, M, W)
  PROVE  /\ ~Updated(b, keys, v).raised
         /\ \A q \in Named(b, keys) : Kind(Updated(b, keys, v).tree, q) = v
<1> DEFINE N == Len(keys)
           T == [m \in 0..N |-> {f \in [Calls -> Outcomes] :
                                    /\ KeepsTo(f, b, keys, v, N - m, W)
                                    /\ Sets(f, b, keys, v, N - m, M, W)}]
<1>1. /\ b \in AllTrees /\ keys \in Seq(Keys) /\ v \in Settable /\ Reaches(b, keys, M)
      /\ N \in Nat \ {0} /\ Names(keys[N]) /\ Leads(b, keys, W) /\ Asks(b, keys, v, W)
  BY PlainFacts DEF AsksPlain
<1>2. [c \in Calls |-> Done(c.tree)] \in T[0]
  <2> DEFINE f == [c \in Calls |-> Done(c.tree)]
  <2>1. f \in [Calls -> Outcomes]
    BY OutcomeFacts
  <2>2. Sets(f, b, keys, v, N - 0, M, W)
    BY <1>1 DEF Sets, SetsBelow, OnlyBelow, Keeps, Done
  <2>3. KeepsTo(f, b, keys, v, N - 0, W)
    BY DEF KeepsTo, Done
  <2> QED BY <1>1, <2>1, <2>2, <2>3
<1>3. ASSUME NEW m \in 1..N, NEW f \in T[m - 1] PROVE Call(keys, v, m, f) \in T[m]
  <2> DEFINE n == N - m + 1
             rest == SubSeq(keys, N - m + 2, N)
             g == Call(keys, v, m, f)
  <2>1. /\ n \in 1..N /\ n - 1 = N - m /\ N - (m - 1) = n /\ m - 1 \in 0..N /\ m \in 0..N
        /\ keys[n] \in Keys
        /\ rest = <<>> <=> n = N
        /\ rest = <<All>> => n = N - 1 /\ keys[N] = All
    BY <1>1, RestFacts
  <2>2. /\ f \in [Calls -> Outcomes] /\ Sets(f, b, keys, v, n, M, W)
        /\ KeepsTo(f, b, keys, v, n, W)
    BY <1>3, <2>1
  <2>3. Fresh(rest) = Hash
    <3>1. keys[N] # All
      BY <1>1 DEF Names, IsA, All
    <3>2. rest # <<All>>
      BY <2>1, <3>1
    <3> HIDE DEF rest
    <3> QED BY <3>2 DEF Fresh
  <2>4. g = [c \in Calls |-> Traverse(c.tree, c.at, keys[n], rest, v, f)]
    BY DEF Call
  <2> HIDE DEF n, rest, g, T
  <2>5. g \in [Calls -> Outcomes]
    <3>1. \A c \in Calls : Traverse(c.tree, c.at, keys[n], rest, v, f) \in Outcomes
      BY <1>1, <2>1, <2>2, OutcomeFacts, TraverseKeeps
    <3> QED BY <2>4, <3>1
  <2>6. Sets(g, b, keys, v, n - 1, M, W)
    <3> SUFFICES ASSUME NEW c \in Calls, CallAt(c.at, n - 1),
                        Calm(c.tree, c.at, b, keys, v, n - 1, W)
                 PROVE  SetsBelow(g[c], c.tree, b, c.at, keys, v, n - 1, M)
      BY DEF Sets
    <3>1. c.tree \in AllTrees
      BY OutcomeFacts
    <3>2. SetsBelow(Traverse(c.tree, c.at, keys[n], rest, v, f), c.tree, b, c.at, keys, v, n - 1, M)
      BY <2>1, <2>2, <2>3, <3>1, TraverseSets
    <3> QED BY <2>4, <3>2
  <2>7. KeepsTo(g, b, keys, v, n - 1, W)
    <3> SUFFICES ASSUME NEW c \in Calls, Alters(c.tree, b, keys, v, W), Begins(c.at, n - 1, W)
                 PROVE  Alters(g[c].tree, b, keys, v, W)
      BY DEF KeepsTo
    <3>1. c.tree \in AllTrees /\ c.at \in Seq(Steps) \cup Pieces
      BY OutcomeFacts
    <3>2. Alters(Traverse(c.tree, c.at, keys[n], rest, v, f).tree, b, keys, v, W)
      BY <1>1, <2>1, <2>2, <3>1, TraverseChanges
    <3> QED BY <2>4, <3>2
  <2> QED BY <2>1, <2>5, <2>6, <2>7 DEF g, T
<1>4. PICK f \in T[N] : Updated(b, keys, v) = f[[tree |-> b, at |-> <<>>]]
  <2> HIDE DEF T
  <2> QED BY <1>1, <1>2, <1>3, KeyByKey
<1>5. Sets(f, b, keys, v, 0, M, W)
  <2>1. N \in 0..N /\ N - N = 0
    BY <1>1
  <2> QED BY <2>1
<1> DEFINE c == [tree |-> b, at |-> <<>>]
<1>6. c \in Calls /\ c.tree = b /\ c.at = <<>>
  <2>1. <<>> \in Seq(Steps)
    BY EmptySeq
  <2> QED BY <1>1, <2>1, OutcomeFacts
<1>7. Updated(b, keys, v) = f[c]
  BY <1>4
<1> HIDE DEF c
<1>8. SetsBelow(f[c], b, b, <<>>, keys, v, 0, M)
  <2>1. <<>> \in Positions /\ CallAt(<<>>, 0)
    BY EmptySeq DEF CallAt, Positions
  <2>2. <<>> \notin Pieces
    BY <1>1, <2>1, PieceFacts
  <2>3. Calm(b, <<>>, b, keys, v, 0, W)
    BY <1>1, <2>2, ChangedNothing DEF Calm, Begins, OfNoText, Leads
  <2> QED BY <1>5, <1>6, <2>1, <2>3 DEF Sets
<1>9. AllSet(f[c].tree, <<>>, M[N], v)
  <2>1. 0 < N /\ <<>> \in M[0]
    BY <1>1 DEF Reaches
  <2>2. Kind(b, <<>>) = Hash
    BY <1>1, KindFacts
  <2>3. AsItWas(b, b, <<>>, Hash)
    BY <2>2 DEF AsItWas, Arrived
  <2> QED BY <1>8, <2>1, <2>3 DEF SetsBelow
<1>10. M[N] = Named(b, keys) /\ M[N] \subseteq Seq(Steps)
  <2>1. N \in 0..N
    BY <1>1
  <2> QED BY <1>1, <2>1 DEF Reaches
<1>11. \A q \in M[N] : IsPrefix(<<>>, q)
  <2>1. <<>> \in Seq(Steps) /\ Len(<<>>) = 0
    BY EmptySeq
  <2>2. \A q \in Seq(Steps) : Len(q) \in Nat
    OBVIOUS
  <2>3. \A q \in Seq(Steps) : IsPrefix(<<>>, q)
    BY <2>1, <2>2, PrefixMeans
  <2> QED BY <1>10, <2>3
<1> QED BY <1>7, <1>8, <1>9, <1>10, <1>11 DEF SetsBelow, AllSet

-----------------------------------------------------------------------------
(* MetadataPaths: what is set is read back.                                *)

\* F[n] is what the first n keys read.
Yields(t, keys, F) ==
  /\ F[0] = {<<>>} /\ F[Len(keys)] = Read(t, keys)
  /\ \A n \in 1..Len(keys) : F[n] = UNION {ReadKey(t, p, keys[n]) : p \in F[n - 1]}

\* What a path of keys reads is found key by key.
LEMMA ReadYields ==
  ASSUME NEW t \in AllTrees, NEW keys \in Seq(Keys)
  PROVE  \E F : Yields(t, keys, F)
<1> DEFINE N == Len(keys)
           Further(X, n) == UNION {ReadKey(t, p, keys[n]) : p \in X}
           O == SUBSET (Positions \cup Outside)
           T == [n \in 0..N |-> O]
           S == [n \in 1..N |-> [X \in O |-> Further(X, n)]]
           found(f) == [n \in 0..N |->
                          IF n = 0 THEN {<<>>}
                          ELSE UNION {ReadKey(t, p, keys[n]) : p \in f[n - 1]}]
           g == CHOOSE h : h = found(h)
<1>1. N \in Nat
  OBVIOUS
<1>2. \A f : found(f) = [n \in 0..N |-> IF n = 0 THEN {<<>>} ELSE Further(f[n - 1], n)]
  OBVIOUS
<1>3. Read(t, keys) = g[N]
  BY DEF Read
<1>4. \A n \in 1..N : \A X \in O : Further(X, n) \in O
  <2>1. ASSUME NEW p, NEW k \in Parts PROVE ReadOne(t, p, k) \in Positions \cup Outside
    <3>1. CASE Leaf(t, p) \in Leaves
      <4>1. Bracket(Leaf(t, p), k) \in Leaves \cup {Nil}
        BY <3>1, BracketTyped
      <4> QED BY <3>1, <4>1, PieceFacts DEF ReadOne, Outside
    <3>2. CASE Leaf(t, p) \notin Leaves
      <4>1. Child(t, p, k) \in Positions \cup Outside
        BY KindFacts DEF Child, Outside
      <4> QED BY <3>2, <4>1 DEF ReadOne, Outside
    <3> QED BY <3>1, <3>2
  <2>2. ASSUME NEW p, NEW k \in Keys PROVE ReadKey(t, p, k) \subseteq Positions \cup Outside
    <3>1. CASE IsA(k, "list")
      <4>1. Range(k[2]) \subseteq Parts
        BY <3>1, KeyFacts DEF Range
      <4> QED BY <2>1, <3>1, <4>1 DEF ReadKey, IsA, All
    <3>2. CASE IsA(k, "where")
      BY <3>2 DEF ReadKey, IsA, All, Outside
    <3>3. CASE k = All
      <4>1. \A i \in Nat : Index(i) \in Parts
        BY DEF Index, Parts
      <4>2. \A i \in 1..Size(t, p) : i - 1 \in Nat
        BY BelowFinite
      <4>3. Leaf(t, p) \in Texts => \A i \in DOMAIN Letters(Leaf(t, p)) : i - 1 \in Nat
        BY TextFacts
      <4>4. \/ /\ Leaf(t, p) \in Texts
               /\ ReadKey(t, p, k) = {ReadOne(t, p, Index(i - 1)) : i \in DOMAIN Letters(Leaf(t, p))}
            \/ ReadKey(t, p, k) = {ReadOne(t, p, Index(i - 1)) : i \in 1..Size(t, p)}
            \/ ReadKey(t, p, k) = {Missing}
        <5>1. Leaf(t, p) \in Texts => Kind(t, p) \notin {Hash, Array}
          BY PieceFacts
        <5> QED BY <3>3, <5>1 DEF ReadKey, IsA, All
      <4> QED BY <2>1, <4>1, <4>2, <4>3, <4>4 DEF Outside
    <3>4. CASE k # All /\ ~Selects(k)
      <4>1. k \in Parts /\ ReadKey(t, p, k) = {ReadOne(t, p, k)}
        BY <3>4, KeyFacts DEF ReadKey, Selects
      <4> QED BY <2>1, <4>1
    <3> QED BY <3>1, <3>2, <3>3, <3>4 DEF Selects
  <2> QED BY <2>2
<1>5. {<<>>} \in O
  BY EmptySeq DEF Positions
<1> HIDE DEF Further, found
<1>6. \A n \in 0..N : T[n] = O
  OBVIOUS
<1>7. \A n \in 1..N : \A X \in T[n - 1] : S[n][X] = Further(X, n) /\ S[n][X] \in T[n]
  <2> SUFFICES ASSUME NEW n \in 1..N, NEW X \in T[n - 1]
               PROVE  S[n][X] = Further(X, n) /\ S[n][X] \in T[n]
    OBVIOUS
  <2>1. n - 1 \in 0..N /\ n \in 0..N
    BY <1>1
  <2>2. X \in O /\ T[n] = O
    BY <1>6, <2>1
  <2> QED BY <1>4, <2>2
<1>8. {<<>>} \in T[0]
  BY <1>1, <1>5, <1>6
<1> HIDE DEF N, S, T, O
<1>9. PICK f : Goes(f, {<<>>}, S, T, N)
  BY <1>1, <1>7, <1>8, Stepwise, Zenon
<1>10. f = found(f)
  <2>1. f = [n \in 0..N |-> f[n]]
    BY <1>9 DEF Goes
  <2>2. \A n \in 0..N : f[n] = IF n = 0 THEN {<<>>} ELSE Further(f[n - 1], n)
    <3>1. \A n \in 0..N : n # 0 => n \in 1..N /\ n - 1 \in 0..N
      BY <1>1
    <3> QED BY <1>7, <1>9, <3>1 DEF Goes
  <2> QED BY <1>2, <2>1, <2>2
<1>11. g = found(g)
  BY <1>10
<1> HIDE DEF g
<1>12. g[0] = {<<>>} /\ \A n \in 1..N : g[n] = Further(g[n - 1], n)
  <2>1. 0 \in 0..N /\ \A n \in 1..N : n \in 0..N /\ n # 0
    BY <1>1
  <2> QED BY <1>2, <1>11, <2>1
<1>13. \A n \in 1..N : g[n] = UNION {ReadKey(t, p, keys[n]) : p \in g[n - 1]}
  BY <1>12 DEF Further
<1> QED BY <1>3, <1>12, <1>13 DEF Yields, N

\* A name reads what it leads to, which is in a hash.
LEMMA NameReads ==
  ASSUME NEW u \in AllTrees, NEW p \in Positions, NEW k \in Parts, IsA(k, "name"),
         There(u, Append(p, k))
  PROVE  ReadOne(u, p, k) = Append(p, k)
<1> DEFINE x == Append(p, k)
<1>1. p \in Seq(Parts) /\ Front(x) = p /\ Last(x) = k /\ x # <<>>
  BY AppendFacts DEF Positions
<1>2. There(u, x)
  OBVIOUS
<1> HIDE DEF x
<1>3. Kind(u, p) \in {Hash, Array}
  BY <1>1, <1>2, KindFacts
<1>4. ASSUME Kind(u, p) = Array PROVE FALSE
  <2>1. x \in Below(u, p)
    BY <1>1, <1>2, BelowFacts
  <2>2. PICK i \in 0..(Size(u, p) - 1) : x = Element(p, i)
    BY <1>4, <2>1, OnlyElements
  <2>3. i \in Nat /\ Index(i) \in Parts
    BY BelowFinite DEF Index, Parts
  <2>4. Last(x) = Index(i)
    BY <1>1, <2>2, <2>3, AppendFacts DEF Element
  <2> QED BY <1>1, <2>4 DEF IsA, Index
<1>5. Leaf(u, p) \notin Leaves
  BY <1>3, PieceFacts
<1> QED BY <1>2, <1>3, <1>4, <1>5 DEF ReadOne, Child, IsA, x

\* What names name is read if it is there.
LEMMA NamedIsRead ==
  ASSUME NEW b \in AllTrees, NEW keys \in Seq(Keys), NEW M, Reaches(b, keys, M),
         NEW u \in AllTrees, NEW F, Yields(u, keys, F), NEW m \in 0..Len(keys),
         \A i \in 1..m : Names(keys[i]), NEW q \in M[m], There(u, q)
  PROVE  q \in F[m]
<1> DEFINE D == {n \in Nat : n <= m => \A p \in M[n] : IsPrefix(p, q) => p \in F[n]}
<1>1. m \in Nat /\ Len(keys) \in Nat /\ m \in 0..m /\ m <= m
  OBVIOUS
<1>2. \A i \in 1..m : OneDown(keys[i])
  BY DEF OneDown, Names, Selects, IsA
<1>3. \A n \in 0..m : \A p \in M[n] : p \in Positions /\ Len(p) = n
  BY <1>1, <1>2, AsDeep
<1>4. q \in Positions /\ q \in Seq(Parts)
  BY <1>1, <1>3 DEF Positions
<1>5. 0 \in D
  BY DEF Yields, Reaches
<1>6. ASSUME NEW n \in Nat, n \in D PROVE n + 1 \in D
  <2> SUFFICES ASSUME n + 1 <= m, NEW x \in M[n + 1], IsPrefix(x, q) PROVE x \in F[n + 1]
    OBVIOUS
  <2> DEFINE j == n + 1
  <2>1. j \in 1..Len(keys) /\ j \in 1..m /\ j \in 0..m /\ n \in 0..m /\ j - 1 = n /\ n <= m
    BY <1>1
  <2> HIDE DEF j, D
  <2>2. Names(keys[j]) /\ OneDown(keys[j]) /\ keys[j] \in Keys
    BY <1>2, <2>1
  <2>3. \A y : y \in M[j] <=> \E p \in M[j - 1] : \E k \in Chosen(b, p, keys[j]) :
                  k \in Parts /\ y = Append(p, k) /\ y \in NamedOne(b, p, k, j = Len(keys))
    BY <2>1, <2>2, OneLevel
  <2>4. PICK p \in M[n], k \in Parts : k \in Chosen(b, p, keys[j]) /\ x = Append(p, k)
    BY <2>1, <2>3 DEF j
  <2>5. p \in Positions /\ p \in Seq(Parts) /\ x \in Positions /\ x \in Seq(Parts)
    BY <1>3, <2>1 DEF j, Positions
  <2>6. IsPrefix(p, q)
    <3>1. IsPrefix(p, x)
      BY <2>4, <2>5, AppendFacts
    <3> QED BY <1>4, <2>5, <3>1, PrefixFacts
  <2>7. p \in F[n]
    BY <1>6, <2>1, <2>6 DEF D
  <2>8. There(u, x)
    <3>1. Kind(u, q) # Nil
      BY KindFacts
    <3>2. x # q => Kind(u, x) \in {Hash, Array}
      BY <1>4, <2>5, <3>1, Beneath
    <3> QED BY <3>2, KindFacts
  <2>9. IsA(k, "name") /\ (IsA(keys[j], "list") => k \in Range(keys[j][2]))
        /\ (~IsA(keys[j], "list") => k = keys[j])
    <3>1. CASE IsA(keys[j], "list")
      <4>1. k \in Range(keys[j][2])
        BY <2>4, <3>1 DEF Chosen, IsA
      <4>2. \A i \in DOMAIN keys[j][2] : IsA(keys[j][2][i], "name")
        BY <2>2, <3>1 DEF Names, IsA
      <4> QED BY <3>1, <4>1, <4>2 DEF Range
    <3>2. CASE IsA(keys[j], "name")
      BY <2>4, <3>2 DEF Chosen, IsA
    <3> QED BY <2>2, <3>1, <3>2 DEF Names
  <2>10. ReadOne(u, p, k) = x
    BY <2>4, <2>5, <2>8, <2>9, NameReads
  <2>11. x \in ReadKey(u, p, keys[j])
    <3>1. CASE IsA(keys[j], "list")
      <4>1. ReadKey(u, p, keys[j]) = {ReadOne(u, p, l) : l \in Range(keys[j][2])}
        BY <3>1 DEF ReadKey, IsA, All
      <4> QED BY <2>9, <2>10, <3>1, <4>1
    <3>2. CASE IsA(keys[j], "name")
      BY <2>9, <2>10, <3>2 DEF ReadKey, IsA, All
    <3> QED BY <2>2, <3>1, <3>2 DEF Names
  <2>12. x \in F[j]
    BY <2>1, <2>7, <2>11 DEF Yields
  <2> QED BY <2>12 DEF j
<1> HIDE DEF D
<1>7. Nat \subseteq D
  BY <1>5, <1>6, Induction
<1>8. IsPrefix(q, q)
  BY <1>4, PrefixFacts
<1> QED BY <1>1, <1>7, <1>8 DEF D

\* r is a list with the element v.
Holds(t, r, v) ==
  Kind(t, r) = Array /\ \E i \in 0..(Size(t, r) - 1) : Kind(t, Element(r, i)) = v
\* What is made of a key that was missing on the way to a list.
Become(keys, n) == IF n = Len(keys) - 1 THEN Array ELSE Hash
\* What the rest of the keys after the n-th does, called at p, for the lists
\* that lie that way.
AddsBelow(o, t, b, p, keys, v, n, M) ==
  n < Len(keys) /\ p \in M[n] /\ AsItWas(t, b, p, Become(keys, n)) =>
    \A r \in M[Len(keys) - 1] :
      Kind(b, r) \in {Array, Nil} /\ IsPrefix(p, r) => ~o.raised /\ Holds(o.tree, r, v)
AddsWithCalls(f, b, keys, v, n, M) == \A c \in Calls : AddsBelow(f[c], c.tree, b, c.at, keys, v, n, M)

\* A request that adds a value to a list.
AsksToAdd(b, keys, v, M) ==
  b \in AllTrees /\ keys \in Seq(Keys) /\ v \in Settable /\ Added(b, keys) /\ Reaches(b, keys, M)

\* What such a request consists of.
LEMMA AddFacts ==
  ASSUME NEW b, NEW keys, NEW v, NEW M, AsksToAdd(b, keys, v, M)
  PROVE  /\ b \in AllTrees /\ keys \in Seq(Keys) /\ v \in Settable /\ Reaches(b, keys, M)
         /\ Len(keys) \in Nat \ {0} /\ v # Nil /\ v \in TreeKinds
         /\ keys[Len(keys)] = All
         /\ \A i \in 1..(Len(keys) - 1) : /\ IsA(keys[i], "name") /\ keys[i] \in Parts
                                         /\ OneDown(keys[i]) /\ Names(keys[i])
         /\ \A n \in 0..(Len(keys) - 1) : \A p \in M[n] : p \in Positions /\ Len(p) = n
         /\ \A n \in 0..(Len(keys) - 1) : \A q \in M[Len(keys) - 1] : \E p \in M[n] : IsPrefix(p, q)
<1>1. /\ b \in AllTrees /\ keys \in Seq(Keys) /\ v \in Settable /\ Reaches(b, keys, M)
      /\ keys # <<>> /\ keys[Len(keys)] = All
  BY DEF AsksToAdd, Added, Last
<1>2. Len(keys) \in Nat \ {0} /\ \A i \in 1..(Len(keys) - 1) : keys[i] \in Keys
  BY <1>1, EmptySeq
<1>3. ASSUME NEW i \in 1..(Len(keys) - 1)
      PROVE  IsA(keys[i], "name") /\ keys[i] \in Parts /\ OneDown(keys[i]) /\ Names(keys[i])
  <2>1. i \in DOMAIN Front(keys)
    <3>1. keys \in Seq(Keys) /\ Len(keys) \in Nat /\ Len(keys) # 0
      BY <1>1, <1>2
    <3>2. Front(keys) = SubSeq(keys, 1, Len(keys) - 1)
      BY DEF Front
    <3>3. Len(SubSeq(keys, 1, Len(keys) - 1)) = Len(keys) - 1 /\ SubSeq(keys, 1, Len(keys) - 1) \in Seq(Keys)
      BY <3>1
    <3> QED BY <3>2, <3>3
  <2>2. IsA(keys[i], "name")
    BY <2>1 DEF AsksToAdd, Added
  <2> QED BY <1>2, <2>2, KeyFacts DEF OneDown, Names
<1>4. v # Nil /\ v \in TreeKinds
  BY <1>1, SettableKinds DEF TreeKinds, Leaves
<1>5. Len(keys) - 1 \in 0..Len(keys) /\ Len(keys) - 1 \in 0..(Len(keys) - 1)
  BY <1>2
<1>6. ASSUME NEW n \in 0..(Len(keys) - 1)
      PROVE  /\ \A p \in M[n] : p \in Positions /\ Len(p) = n
             /\ \A q \in M[Len(keys) - 1] : \E p \in M[n] : IsPrefix(p, q)
  BY <1>1, <1>3, <1>5, AsDeep
<1> QED BY <1>1, <1>2, <1>3, <1>4, <1>6

\* "[]" adds the value, unless the list has it.
LEMMA TraverseAddsLast ==
  ASSUME NEW b, NEW keys, NEW v, NEW M, AsksToAdd(b, keys, v, M),
         NEW t \in AllTrees, NEW p, NEW below, NEW n, n = Len(keys) - 1
  PROVE  AddsBelow(Traverse(t, p, All, <<>>, v, below), t, b, p, keys, v, n, M)
<1> DEFINE N == Len(keys)
           o == Traverse(t, p, All, <<>>, v, below)
           e == Element(p, Size(t, p))
<1>1. /\ N \in Nat \ {0} /\ v # Nil /\ v \in TreeKinds /\ n \in 0..(N - 1)
      /\ \A q \in M[n] : q \in Positions /\ Len(q) = n
  <2>1. N \in Nat \ {0} /\ n \in 0..(N - 1)
    BY AddFacts
  <2> QED BY <2>1, AddFacts
<1>2. Kind(t, p) = Array => o = AppendTo(t, p, v)
  <2>1. ~Selects(All) /\ Alternatives(t, p, All) = <<All>>
    BY DEF Alternatives, Selects, IsA, All
  <2>2. o = Each(t, p, <<All>>, <<>>, v, below)
    BY <2>1 DEF Traverse
  <2>3. o = Follow(t, p, All, <<>>, v, below)
    BY <2>2, OneKey
  <2>4. Kind(t, p) = Array => Leaf(t, p) \notin Leaves
    BY PieceFacts
  <2>5. FollowNode(t, p, All, <<>>, v, below) = AppendTo(t, p, v)
    BY DEF FollowNode, IsA, All
  <2> QED BY <2>3, <2>4, <2>5 DEF Follow
<1> HIDE DEF o
<1> SUFFICES ASSUME p \in M[n], AsItWas(t, b, p, Array), NEW r \in M[n],
                    Kind(b, r) \in {Array, Nil}, IsPrefix(p, r)
             PROVE  ~o.raised /\ Holds(o.tree, r, v)
  BY DEF AddsBelow, Become, o
<1>3. r = p /\ p \in Positions
  BY <1>1, PrefixFacts DEF Positions
<1>4. Kind(t, p) = Array
  BY <1>3 DEF AsItWas, Arrived
<1>5. Size(t, p) \in Nat
  BY BelowFinite
<1>6. CASE \E i \in 1..Size(t, p) :
             Kind(t, Element(p, i - 1)) = v /\ (v = Hash => Size(t, Element(p, i - 1)) = 0)
  <2>1. o = Done(t)
    BY <1>2, <1>4, <1>6 DEF AppendTo
  <2>2. PICK i \in 1..Size(t, p) : Kind(t, Element(p, i - 1)) = v
    BY <1>6
  <2>3. i - 1 \in 0..(Size(t, p) - 1)
    BY <1>5
  <2> QED BY <1>3, <1>4, <2>1, <2>2, <2>3 DEF Holds, Done
<1>7. CASE ~\E i \in 1..Size(t, p) :
             Kind(t, Element(p, i - 1)) = v /\ (v = Hash => Size(t, Element(p, i - 1)) = 0)
  <2> DEFINE u == Put(t, e, v)
  <2>1. o = Done(u)
    BY <1>2, <1>4, <1>7 DEF AppendTo
  <2>2. u \in AllTrees
    <3>1. Place(t, e)
      BY <1>4, Places DEF Steps
    <3> QED BY <1>1, <3>1, PutKeeps
  <2>3. e \in Positions /\ e # p /\ e # <<>> /\ Front(e) = p /\ Kind(t, e) = Nil
    <3>1. e \in Positions /\ e # <<>> /\ Front(e) = p
      BY <1>3, <1>5, BelowFacts
    <3>2. ~There(t, e)
      BY <1>3, <1>4, NoneAfterTheLast
    <3>3. Kind(t, e) = Nil
      BY <3>2, KindFacts
    <3> QED BY <1>4, <3>1, <3>3
  <2> HIDE DEF e
  <2>4. Kind(u, e) = v /\ Kind(u, p) = Array
    BY <1>1, <1>3, <1>4, <2>3, PutLeaf
  <2> HIDE DEF u
  <2>5. e \in Below(u, p)
    <3>1. There(u, e)
      BY <1>1, <2>2, <2>4, KindFacts
    <3> QED BY <1>3, <2>2, <2>3, <3>1, BelowFacts
  <2>6. PICK i \in 0..(Size(u, p) - 1) : e = Element(p, i)
    BY <2>2, <2>4, <2>5, OnlyElements
  <2> QED BY <1>3, <2>1, <2>4, <2>6 DEF Holds, Done
<1> QED BY <1>6, <1>7

\* A name leads on to the list, and makes what is missing.
LEMMA TraverseAddsOn ==
  ASSUME NEW b, NEW keys, NEW v, NEW M, AsksToAdd(b, keys, v, M),
         NEW n \in 1..(Len(keys) - 1), NEW t \in AllTrees, NEW p,
         NEW below \in [Calls -> Outcomes], AddsWithCalls(below, b, keys, v, n, M),
         NEW rest, rest # <<>>, Fresh(rest) = Become(keys, n)
  PROVE  AddsBelow(Traverse(t, p, keys[n], rest, v, below), t, b, p, keys, v, n - 1, M)
<1> DEFINE N == Len(keys)
           k == keys[n]
           q == Append(p, k)
           fresh == Become(keys, n)
           u == IF There(t, q) THEN t ELSE Put(t, q, fresh)
           o == Traverse(t, p, k, rest, v, below)
           c == [tree |-> u, at |-> q]
<1>1. /\ b \in AllTrees /\ keys \in Seq(Keys) /\ Reaches(b, keys, M) /\ N \in Nat \ {0}
      /\ IsA(k, "name") /\ k \in Parts /\ OneDown(k)
      /\ n \in 1..N /\ n < N /\ n - 1 \in 0..(N - 1) /\ n \in 0..(N - 1) /\ N - 1 \in 0..(N - 1)
      /\ n - 1 # N - 1
  BY AddFacts
<1>2. fresh \in {Hash, Array} /\ fresh \in TreeKinds /\ fresh # Nil /\ Fresh(rest) = fresh
  BY DEF Become, TreeKinds
<1>3. o = Follow(t, p, k, rest, v, below)
  <2>1. ~Selects(k) /\ Alternatives(t, p, k) = <<k>>
    BY <1>1 DEF Alternatives, Selects, IsA
  <2>2. o = Each(t, p, <<k>>, rest, v, below)
    BY <2>1 DEF Traverse
  <2> QED BY <2>2, OneKey
<1> SUFFICES ASSUME p \in M[n - 1], AsItWas(t, b, p, Hash), NEW r \in M[N - 1],
                    Kind(b, r) \in {Array, Nil}, IsPrefix(p, r)
             PROVE  ~o.raised /\ Holds(o.tree, r, v)
  BY <1>1 DEF AddsBelow, Become
<1> HIDE DEF o, fresh, u
<1>4. /\ p \in Positions /\ p \in Seq(Parts) /\ Len(p) = n - 1 /\ r \in Positions /\ r \in Seq(Parts)
  BY <1>1, AddFacts DEF Positions
<1>5. q \in M[n] /\ q \in NamedOne(b, p, k, FALSE) /\ IsPrefix(q, r)
  <2>1. PICK x \in M[n] : IsPrefix(x, r)
    BY <1>1, AddFacts
  <2>2. \A y : y \in M[n] <=> \E x1 \in M[n - 1] : \E l \in Chosen(b, x1, k) :
                  l \in Parts /\ y = Append(x1, l) /\ y \in NamedOne(b, x1, l, n = N)
    BY <1>1, OneLevel
  <2>3. PICK x1 \in M[n - 1], l \in Parts : /\ l \in Chosen(b, x1, k) /\ x = Append(x1, l)
                                           /\ x \in NamedOne(b, x1, l, n = N)
    BY <2>2
  <2>4. l = k
    BY <1>1, <2>3 DEF Chosen, IsA
  <2>5. x1 \in Seq(Parts) /\ Len(x1) = n - 1 /\ x \in Seq(Parts)
    BY <1>1, AddFacts DEF Positions
  <2>6. x1 = p
    <3>1. IsPrefix(x1, x)
      BY <2>3, <2>5, AppendFacts
    <3>2. IsPrefix(x1, r)
      BY <1>4, <2>1, <2>5, <3>1, PrefixFacts
    <3>3. IsPrefix(x1, p)
      BY <1>4, <2>5, <3>2, PrefixFacts
    <3> QED BY <1>4, <2>5, <3>3, PrefixFacts
  <2>7. (n = N) = FALSE
    BY <1>1
  <2> QED BY <2>1, <2>3, <2>4, <2>6, <2>7
<1>6. /\ q \in Positions /\ IsPrefix(q, q) /\ IsPrefix(p, q) /\ p # q
      /\ \A x \in Positions : IsPrefix(q, x) => IsPrefix(p, x) /\ p # x
  <2>1. q \in Seq(Parts) /\ IsPrefix(p, q) /\ Len(q) = Len(p) + 1 /\ Len(p) \in Nat
    BY <1>1, <1>4, AppendFacts
  <2> HIDE DEF q
  <2>2. \A x \in Seq(Parts) : IsPrefix(q, x) => IsPrefix(p, x) /\ Len(q) <= Len(x)
    BY <1>4, <2>1, PrefixFacts
  <2>3. IsPrefix(q, q)
    BY <2>1, PrefixFacts
  <2>4. \A x \in Seq(Parts) : IsPrefix(q, x) => IsPrefix(p, x) /\ p # x
    BY <2>1, <2>2
  <2> QED BY <2>1, <2>3, <2>4 DEF Positions
<1>7. Kind(t, p) = Hash
  <2>1. Kind(b, p) \in {Hash, Nil}
    <3>1. k # All
      BY <1>1 DEF IsA, All
    <3> QED BY <1>1, <1>5, <3>1 DEF NamedOne, IsA
  <2> QED BY <2>1 DEF AsItWas, Arrived
<1>8. o = below[c]
  <2>1. Leaf(t, p) \notin Leaves
    BY <1>7, PieceFacts
  <2>2. o = FollowNode(t, p, k, rest, v, below)
    BY <1>3, <2>1 DEF Follow
  <2> QED BY <1>1, <1>2, <1>7, <2>2 DEF FollowNode, IsA, u
<1> HIDE DEF q
<1>9. u \in AllTrees /\ AsItWas(u, b, q, fresh)
  <2>1. Kind(t, q) = Kind(b, q) /\ \A x \in Positions : IsPrefix(q, x) => Kind(t, x) = Kind(b, x)
    BY <1>6 DEF AsItWas
  <2>2. CASE There(t, q)
    <3>1. Kind(t, q) # Nil
      BY <2>2, KindFacts
    <3> QED BY <2>1, <2>2, <3>1 DEF u, AsItWas, Arrived
  <2>3. CASE ~There(t, q)
    <3>1. Kind(t, q) = Nil
      BY <2>3, KindFacts
    <3>2. Kind(u, q) = fresh /\ \A x \in Positions : x # q => Kind(u, x) = Kind(t, x)
      BY <1>2, <1>6, <2>3, <3>1, PutLeaf DEF u
    <3>3. Place(t, q)
      BY <1>1, <1>7, Places DEF q, Steps
    <3>4. u \in AllTrees
      BY <1>2, <2>3, <3>3, PutKeeps DEF u
    <3> QED BY <2>1, <3>1, <3>2, <3>4 DEF AsItWas, Arrived
  <2> QED BY <2>2, <2>3
<1>10. c \in Calls /\ c.tree = u /\ c.at = q
  <2>1. q \in Seq(Steps)
    BY <1>6, Places DEF Steps
  <2> QED BY <1>9, <2>1, OutcomeFacts
<1> HIDE DEF c
<1>11. AddsBelow(o, u, b, q, keys, v, n, M)
  BY <1>8, <1>10 DEF AddsWithCalls
<1> QED BY <1>1, <1>5, <1>9, <1>11 DEF AddsBelow, fresh

\* What is there has a kind, and the root has.
LEMMA IsThere ==
  ASSUME NEW t \in AllTrees, NEW p
  PROVE  (Kind(t, p) # Nil <=> There(t, p)) /\ (p = <<>> => There(t, p))
<1>1. Kind(t, p) # Nil <=> There(t, p)
  BY KindFacts
<1>2. p = <<>> => Kind(t, p) = Hash
  BY KindFacts
<1> QED BY <1>1, <1>2

\* What a path that ends with "[]" adds.
LEMMA UpdatedAdds ==
  ASSUME NEW b, NEW keys, NEW v, NEW M, AsksToAdd(b, keys, v, M),
         NEW r \in M[Len(keys) - 1], Kind(b, r) \in {Array, Nil}
  PROVE  ~Updated(b, keys, v).raised /\ Holds(Updated(b, keys, v).tree, r, v)
<1> DEFINE N == Len(keys)
           T == [m \in 0..N |-> {f \in [Calls -> Outcomes] : AddsWithCalls(f, b, keys, v, N - m, M)}]
<1>1. /\ b \in AllTrees /\ keys \in Seq(Keys) /\ v \in Settable /\ Reaches(b, keys, M)
      /\ N \in Nat \ {0} /\ keys[N] = All /\ r \in Positions
  <2>1. N \in Nat \ {0}
    BY AddFacts
  <2>2. N - 1 \in 0..(N - 1)
    BY <2>1
  <2> QED BY <2>1, <2>2, AddFacts
<1>2. [c \in Calls |-> Done(c.tree)] \in T[0]
  <2> DEFINE f == [c \in Calls |-> Done(c.tree)]
  <2>1. f \in [Calls -> Outcomes]
    BY OutcomeFacts
  <2>2. AddsWithCalls(f, b, keys, v, N - 0, M)
    BY <1>1 DEF AddsWithCalls, AddsBelow
  <2> QED BY <1>1, <2>1, <2>2
<1>3. ASSUME NEW m \in 1..N, NEW f \in T[m - 1] PROVE Call(keys, v, m, f) \in T[m]
  <2> DEFINE n == N - m + 1
             rest == SubSeq(keys, N - m + 2, N)
             g == Call(keys, v, m, f)
  <2>1. /\ n \in 1..N /\ n - 1 = N - m /\ N - (m - 1) = n /\ m - 1 \in 0..N /\ m \in 0..N
        /\ keys[n] \in Keys
        /\ rest = <<>> <=> n = N
        /\ rest = <<All>> <=> n = N - 1
    BY <1>1, RestFacts, SMTT(30)
  <2>2. f \in [Calls -> Outcomes] /\ AddsWithCalls(f, b, keys, v, n, M)
    BY <1>3, <2>1
  <2>3. Fresh(rest) = Become(keys, n)
    BY <2>1 DEF Fresh, Become
  <2>4. g = [c \in Calls |-> Traverse(c.tree, c.at, keys[n], rest, v, f)]
    BY DEF Call
  <2> HIDE DEF n, rest, g, T
  <2>5. g \in [Calls -> Outcomes]
    <3>1. \A c \in Calls : Traverse(c.tree, c.at, keys[n], rest, v, f) \in Outcomes
      BY <1>1, <2>1, <2>2, OutcomeFacts, TraverseKeeps
    <3> QED BY <2>4, <3>1
  <2>6. AddsWithCalls(g, b, keys, v, n - 1, M)
    <3> SUFFICES ASSUME NEW c \in Calls
                 PROVE  AddsBelow(g[c], c.tree, b, c.at, keys, v, n - 1, M)
      BY DEF AddsWithCalls
    <3>1. c.tree \in AllTrees
      BY OutcomeFacts
    <3>2. CASE n = N
      <4>1. rest = <<>> /\ keys[n] = All
        BY <1>1, <2>1, <3>2
      <4>2. AddsBelow(Traverse(c.tree, c.at, All, <<>>, v, f), c.tree, b, c.at, keys, v, n - 1, M)
        BY <3>1, <3>2, TraverseAddsLast
      <4> QED BY <2>4, <4>1, <4>2
    <3>3. CASE n # N
      <4>1. n \in 1..(N - 1) /\ rest # <<>>
        BY <1>1, <2>1, <3>3
      <4>2. AddsBelow(Traverse(c.tree, c.at, keys[n], rest, v, f), c.tree, b, c.at, keys, v, n - 1, M)
        BY <2>2, <2>3, <3>1, <4>1, TraverseAddsOn
      <4> QED BY <2>4, <4>2
    <3> QED BY <3>2, <3>3
  <2> QED BY <2>1, <2>5, <2>6 DEF g, T
<1>4. PICK f \in T[N] : Updated(b, keys, v) = f[[tree |-> b, at |-> <<>>]]
  <2> HIDE DEF T
  <2> QED BY <1>1, <1>2, <1>3, KeyByKey
<1>5. AddsWithCalls(f, b, keys, v, 0, M)
  <2>1. N \in 0..N /\ N - N = 0
    BY <1>1
  <2> QED BY <2>1
<1> DEFINE c == [tree |-> b, at |-> <<>>]
<1>6. c \in Calls /\ c.tree = b /\ c.at = <<>>
  <2>1. <<>> \in Seq(Steps)
    BY EmptySeq
  <2> QED BY <1>1, <2>1, OutcomeFacts
<1>7. Updated(b, keys, v) = f[c]
  BY <1>4
<1> HIDE DEF c
<1>8. AddsBelow(f[c], b, b, <<>>, keys, v, 0, M)
  BY <1>5, <1>6 DEF AddsWithCalls
<1>9. 0 < N /\ <<>> \in M[0] /\ AsItWas(b, b, <<>>, Become(keys, 0))
  <2>1. 0 < N /\ <<>> \in M[0]
    BY <1>1 DEF Reaches
  <2>2. Kind(b, <<>>) = Hash
    BY <1>1, KindFacts
  <2> QED BY <2>1, <2>2 DEF AsItWas, Arrived
<1>10. IsPrefix(<<>>, r)
  <2>1. <<>> \in Seq(Parts) /\ Len(<<>>) = 0 /\ r \in Seq(Parts) /\ Len(r) \in Nat
    BY <1>1, EmptySeq DEF Positions
  <2> QED BY <2>1, PrefixMeans
<1> QED BY <1>7, <1>8, <1>9, <1>10 DEF AddsBelow

\* An element of a list that names lead to is read with "[]".
LEMMA AddedIsRead ==
  ASSUME NEW b, NEW keys, NEW v, NEW M, AsksToAdd(b, keys, v, M),
         NEW u \in AllTrees, NEW r \in M[Len(keys) - 1], Holds(u, r, v)
  PROVE  \E q \in Read(u, keys) : Kind(u, q) = v
<1> DEFINE N == Len(keys)
<1>1. /\ b \in AllTrees /\ keys \in Seq(Keys) /\ Reaches(b, keys, M)
      /\ N \in Nat \ {0} /\ keys[N] = All /\ v # Nil /\ N - 1 \in 0..N /\ N \in 1..N
      /\ \A i \in 1..(N - 1) : Names(keys[i])
  BY AddFacts
<1>2. PICK F : Yields(u, keys, F)
  BY <1>1, ReadYields
<1>3. Kind(u, r) = Array /\ There(u, r)
  BY KindFacts DEF Holds
<1>4. r \in F[N - 1]
  BY <1>1, <1>2, <1>3, NamedIsRead
<1>5. PICK j \in 0..(Size(u, r) - 1) : Kind(u, Element(r, j)) = v
  BY DEF Holds
<1>6. There(u, Element(r, j))
  <2>1. Kind(u, Element(r, j)) # Nil
    BY <1>1, <1>5
  <2> QED BY <2>1, IsThere
<1>7. j + 1 \in 1..Size(u, r) /\ (j + 1) - 1 = j
  BY BelowFinite
<1>l. Leaf(u, r) \notin Leaves
  BY <1>3, PieceFacts
<1>8. ReadOne(u, r, Index(j)) = Element(r, j)
  BY <1>3, <1>6, <1>l DEF ReadOne, Child, Element, IsA, Index
<1>9. ReadKey(u, r, All) = {ReadOne(u, r, Index(i - 1)) : i \in 1..Size(u, r)}
  BY <1>3, <1>l DEF ReadKey, IsA, All
<1>10. Element(r, j) \in ReadKey(u, r, All)
  BY <1>7, <1>8, <1>9
<1>11. Element(r, j) \in F[N]
  BY <1>1, <1>2, <1>4, <1>10 DEF Yields
<1> QED BY <1>2, <1>5, <1>11 DEF Yields

\* Where a value is added a list is, or will be.
LEMMA AddedToLists ==
  ASSUME NEW b, NEW keys, NEW v, NEW M, AsksToAdd(b, keys, v, M), Named(b, keys) # {}
  PROVE  \E r \in M[Len(keys) - 1] : Kind(b, r) \in {Array, Nil}
<1> DEFINE N == Len(keys)
<1>1. /\ b \in AllTrees /\ keys \in Seq(Keys) /\ Reaches(b, keys, M)
      /\ N \in Nat \ {0} /\ keys[N] = All /\ N - 1 \in 0..(N - 1) /\ N \in 1..N
      /\ \A i \in 1..(N - 1) : IsA(keys[i], "name") /\ OneDown(keys[i])
  BY AddFacts
<1>2. PICK q : q \in Named(b, keys)
  OBVIOUS
<1>3. PICK r \in M[N - 1] : q \in NamedFrom(b, r, keys, N)
  BY <1>1, <1>2 DEF Reaches
<1>4. q \in NamedOne(b, r, All, TRUE)
  <2>1. Chosen(b, r, All) = {All}
    BY DEF Chosen, IsA, All
  <2> QED BY <1>1, <1>3, <2>1 DEF NamedFrom
<1>5. r \in Positions /\ r \in Seq(Parts) /\ Len(r) = N - 1
  BY <1>1, AddFacts DEF Positions
<1>6. Kind(b, r) \in {Array, Nil} \/ (q = r /\ Kind(b, r) # Hash)
  BY <1>4 DEF NamedOne, IsA, All
<1>7. ASSUME Kind(b, r) \notin {Array, Nil} PROVE FALSE
  <2>1. q = r /\ Kind(b, r) # Hash /\ There(b, r)
    BY <1>1, <1>6, <1>7, IsThere
  <2>2. r # <<>> /\ N - 1 \in 1..N /\ N - 1 \in 1..(N - 1)
    <3>1. r # <<>>
      <4>1. Kind(b, <<>>) = Hash
        BY <1>1, KindFacts
      <4> QED BY <2>1, <4>1
    <3>2. Len(r) # 0
      BY <1>5, <3>1, EmptySeq
    <3> QED BY <1>1, <1>5, <3>1, <3>2
  <2>3. \A y : y \in M[N - 1] <=>
               \E x \in M[(N - 1) - 1] : \E k \in Chosen(b, x, keys[N - 1]) :
                 k \in Parts /\ y = Append(x, k) /\ y \in NamedOne(b, x, k, N - 1 = N)
    BY <1>1, <2>2, OneLevel
  <2>4. PICK x \in M[(N - 1) - 1] : \E k \in Chosen(b, x, keys[N - 1]) :
                 k \in Parts /\ r = Append(x, k) /\ r \in NamedOne(b, x, k, N - 1 = N)
    BY <2>3
  <2>5. PICK k \in Parts : /\ k \in Chosen(b, x, keys[N - 1]) /\ r = Append(x, k)
                          /\ r \in NamedOne(b, x, k, N - 1 = N)
    BY <2>4
  <2>6. k = keys[N - 1] /\ IsA(k, "name") /\ k # All
    <3>1. IsA(keys[N - 1], "name")
      BY <1>1, <2>2
    <3>2. k = keys[N - 1]
      BY <2>5, <3>1 DEF Chosen, IsA
    <3> QED BY <3>1, <3>2 DEF IsA, All
  <2>7. Kind(b, x) \in {Hash, Nil}
    BY <2>5, <2>6 DEF NamedOne, IsA
  <2>8. x \in Seq(Parts)
    <3>1. (N - 1) - 1 \in 0..(N - 1)
      BY <1>1, <2>2
    <3> QED BY <3>1, AddFacts DEF Positions
  <2>9. Front(r) = x
    BY <2>5, <2>8, AppendFacts
  <2>10. Kind(b, x) \in {Hash, Array}
    BY <1>1, <2>1, <2>2, <2>9, KindFacts
  <2>11. Kind(b, Front(q)) \in {Array, Nil}
    BY <1>2 DEF AsksToAdd, Added
  <2> QED BY <2>1, <2>7, <2>9, <2>10, <2>11
<1> QED BY <1>3, <1>7

\* What a request sets is what its keys read afterwards, and a value added to a
\* list, which may have been missing, is among it (traverse_and_update_metadata,
\* traverse_metadata).
THEOREM WhatIsSetIsRead == PathSpec => ReadBack
<1> DEFINE IsRead ==
             LET keys  == asked'.keys
                 named == Named(stored, keys)
                 found == Read(stored', keys)
                 sets  == asked'.value \in Texts \/ NoTextBefore(stored, keys)
             IN /\ Plain(keys) /\ sets => \A q \in named : Kind(stored', q) = asked'.value
                /\ ByNames(keys) /\ sets => named \subseteq found
                /\ Added(stored, keys) /\ named # {} =>
                     \E r \in found : Kind(stored', r) = asked'.value
<1>1. PathTypeOK /\ [PathNext]_pathVars => [IsRead]_pathVars
  <2> SUFFICES ASSUME PathTypeOK, UpdateMetadata PROVE IsRead
    BY DEF PathNext
  <2>1. PICK keys \in Paths, v \in Values :
          /\ stored' = IF Updated(stored, keys, v).raised THEN stored
                       ELSE Updated(stored, keys, v).tree
          /\ asked' = [n |-> asked.n + 1, keys |-> keys, value |-> v,
                       raised |-> Updated(stored, keys, v).raised]
    BY DEF UpdateMetadata
  <2>2. /\ keys \in Seq(Keys) /\ v \in Settable /\ stored \in AllTrees
        /\ asked'.keys = keys /\ asked'.value = v
    BY <2>1, MetadataPathsAssumption DEF PathTypeOK, Settable
  <2>3. stored' \in AllTrees
    BY <2>1, <2>2, UpdatedKeeps, OutcomeFacts
  <2>4. PICK M : Reaches(stored, keys, M)
    BY <2>2, NamedReached
  <2>w. PICK W : Leads(stored, keys, W)
    BY <2>2, WaysLead
  <2> DEFINE sets == v \in Texts \/ NoTextBefore(stored, keys)
  <2>5. v # Nil
    BY <2>2, SettableKinds DEF TreeKinds
  <2>6. ASSUME Plain(keys), sets PROVE \A q \in Named(stored, keys) : Kind(stored', q) = v
    <3>1. AsksPlain(stored, keys, v, M, W)
      BY <2>2, <2>4, <2>6, <2>w DEF AsksPlain, Asks
    <3> QED BY <2>1, <3>1, UpdatedSets
  <2>7. ASSUME ByNames(keys), sets PROVE Named(stored, keys) \subseteq Read(stored', keys)
    <3>1. PICK F : Yields(stored', keys, F)
      BY <2>2, <2>3, ReadYields
    <3>2. Len(keys) \in Nat /\ DOMAIN keys = 1..Len(keys)
      BY <2>2
    <3>3. ASSUME NEW q \in Named(stored, keys) PROVE There(stored', q)
      <4>1. CASE keys = <<>>
        <5>1. Len(keys) = 0
          BY <4>1
        <5>2. q = <<>>
          BY <2>4, <3>3, <5>1 DEF Reaches
        <5> QED BY <2>3, <5>2, IsThere
      <4>2. CASE keys # <<>>
        <5>1. Len(keys) \in DOMAIN keys
          BY <2>2, <3>2, <4>2, EmptySeq
        <5>2. Plain(keys)
          BY <2>7, <4>2, <5>1 DEF ByNames, Plain, Names, OneDown, Selects, Last, IsA
        <5>3. Kind(stored', q) # Nil
          BY <2>5, <2>6, <2>7, <3>3, <5>2
        <5> QED BY <2>3, <5>3, IsThere
      <4> QED BY <4>1, <4>2
    <3>4. /\ Len(keys) \in 0..Len(keys) /\ \A i \in 1..Len(keys) : Names(keys[i])
          /\ M[Len(keys)] = Named(stored, keys) /\ F[Len(keys)] = Read(stored', keys)
      BY <2>4, <2>7, <3>1, <3>2 DEF ByNames, Reaches, Yields
    <3>5. \A q \in M[Len(keys)] : q \in F[Len(keys)]
      BY <2>2, <2>3, <2>4, <3>1, <3>3, <3>4, NamedIsRead
    <3> QED BY <3>4, <3>5
  <2>8. ASSUME Added(stored, keys), Named(stored, keys) # {}
        PROVE  \E r \in Read(stored', keys) : Kind(stored', r) = v
    <3>1. AsksToAdd(stored, keys, v, M)
      BY <2>2, <2>4, <2>8 DEF AsksToAdd
    <3>2. PICK r \in M[Len(keys) - 1] : Kind(stored, r) \in {Array, Nil}
      BY <2>8, <3>1, AddedToLists
    <3>3. ~Updated(stored, keys, v).raised /\ Holds(Updated(stored, keys, v).tree, r, v)
      BY <3>1, <3>2, UpdatedAdds
    <3>4. Holds(stored', r, v)
      BY <2>1, <3>3
    <3> QED BY <2>3, <3>1, <3>4, AddedIsRead
  <2> QED BY <2>2, <2>6, <2>7, <2>8
<1> QED BY <1>1, MetadataTyped, PTL DEF PathSpec, ReadBack
=============================================================================
