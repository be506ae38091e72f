---------------------------- MODULE ResultImport ----------------------------
(***************************************************************************)
(* The loop of Task#perform_task (task.rb:304-330) over the results that a  *)
(* run returned: each becomes a row of results, tagged with the task's tags *)
(* and linked to the task.  Runs of several tasks, and of one task twice,   *)
(* go through their loops at the same time.                                 *)
(*                                                                          *)
(* Every find, validation and write is a statement of its own; the database *)
(* only has unique indexes on results.url and on task_results(task_id,      *)
(* result_id), none on taggings (db/structure.sql).  A result that save     *)
(* refuses has no id; what the loop hangs on it gets the id Nil.            *)
(***************************************************************************)
EXTENDS Naturals, Sequences, SequencesExt

CONSTANTS Imports,   \* the loops
          Tasks, Tags, Urls,
          Invalid,   \* the URLs that the format validation refuses
          TaskOf,    \* the task of each loop
          TagsOf,    \* the tags of each task
          MaxLength, \* bounds the results of one run
          MaxIds,    \* bounds the rows ever made
          MayDelete, \* whether people delete results meanwhile
          Nil

Ids == 1..MaxIds

ASSUME ImportAssumption ==
  /\ TaskOf \in [Imports -> Tasks] /\ TagsOf \in [Tasks -> SUBSET Tags]
  /\ Invalid \subseteq Urls /\ Nil \notin Nat
  /\ MaxLength \in Nat /\ MaxIds \in Nat /\ MayDelete \in BOOLEAN

VARIABLES
  url,      \* the URL of each row of results
  tagged,   \* the number of taggings of each tag and result
  links,    \* the number of task_results of each task and result
  loop,     \* what each loop does
  made,     \* the number of rows ever made
  imported, \* the loops and URLs that are through (history)
  refused,  \* the loops and URLs whose save was refused (history)
  deleted,  \* the deleted rows: the tasks that were linked to each, and the
            \* loops that were at it (history)
  raced     \* the tags and ids that two loops were about to insert (history)

vars == <<url, tagged, links, loop, made, imported, refused, deleted, raced>>

Rows == DOMAIN url
Holders(u) == {i \in Rows : url[i] = u}
IdOf(u) == IF Holders(u) = {} THEN Nil ELSE CHOOSE i \in Holders(u) : TRUE

Init ==
  /\ url = <<>>
  /\ tagged = [x \in Tags \X ({Nil} \cup Ids) |-> 0]
  /\ links = [x \in Tasks \X ({Nil} \cup Ids) |-> 0]
  /\ loop \in [Imports -> {[pc |-> "next", rest |-> s, id |-> Nil, tags |-> {}, tag |-> Nil] :
                             s \in BoundedSeq(Urls, MaxLength)}]
  /\ made = 0 /\ imported = {} /\ refused = {} /\ deleted = {} /\ raced = {}

At(l, p) == loop[l].pc = p
Url(l) == Head(loop[l].rest)
Id(l) == loop[l].id
Goto(l, p) == loop' = [loop EXCEPT ![l].pc = p]

\* Mutant: only new results are tagged.
TagsOfNew(l) == IF At(l, "update") THEN {} ELSE TagsOf[TaskOf[l]]
TagsToSet(l) == TagsOf[TaskOf[l]]
GoTag(l, id) ==
  loop' = [loop EXCEPT ![l].pc = "tags", ![l].id = id, ![l].tags = TagsToSet(l)]

-----------------------------------------------------------------------------
\* Result.where(url).first_or_initialize.
Find(l) ==
  /\ At(l, "next") /\ loop[l].rest # <<>>
  /\ loop' = [loop EXCEPT ![l].pc = IF Holders(Url(l)) = {} THEN "validate" ELSE "update",
                          ![l].id = IdOf(Url(l))]
  /\ UNCHANGED <<url, tagged, links, made, imported, refused, deleted, raced>>

\* save of a row that was there.
UpdateRow(l) ==
  /\ At(l, "update")
  /\ GoTag(l, Id(l))
  /\ UNCHANGED <<url, tagged, links, made, imported, refused, deleted, raced>>

\* The validations of a new result.  When they fail, save returns false, and
\* the loop goes on with the unsaved result.
Validate(l) ==
  /\ At(l, "validate")
  /\ IF Url(l) \notin Invalid /\ Holders(Url(l)) = {}
       THEN Goto(l, "insert") /\ UNCHANGED refused
       ELSE GoTag(l, Nil) /\ refused' = refused \cup {<<l, Url(l)>>}
  /\ UNCHANGED <<url, tagged, links, made, imported, deleted, raced>>

\* The unique index unique_results.
UrlTaken(u) == Holders(u) # {}

IdRead == made + 1

\* INSERT, or RecordNotUnique, which leaves the loop.
Insert(l) ==
  /\ At(l, "insert")
  /\ IF UrlTaken(Url(l))
       THEN Goto(l, "escaped") /\ UNCHANGED <<url, made>>
       ELSE /\ made < MaxIds
            /\ made' = made + 1
            /\ url' = [i \in Rows \cup {made + 1} |-> IF i \in Rows THEN url[i] ELSE Url(l)]
            /\ GoTag(l, IdRead)
  /\ UNCHANGED <<tagged, links, imported, refused, deleted, raced>>

\* Mutant: nobody looks whether the tag is there.
HasTagUnseen(l, t) == FALSE
\* The find, and the validation of the tagging.
HasTag(l, t) == tagged[<<t, Id(l)>>] > 0

\* The next tag of the task, unless the result has it.
CheckTag(l) ==
  /\ At(l, "tags")
  /\ \E t \in loop[l].tags :
       /\ loop' = [loop EXCEPT ![l].tags = @ \ {t}, ![l].tag = t,
                     ![l].pc = IF HasTag(l, t) THEN "tags" ELSE "insertTag"]
       /\ raced' = IF ~HasTag(l, t) /\ \E m \in Imports \ {l} :
                        At(m, "insertTag") /\ loop[m].tag = t /\ Id(m) = Id(l)
                      THEN raced \cup {<<t, Id(l)>>} ELSE raced
  /\ UNCHANGED <<url, tagged, links, made, imported, refused, deleted>>

InsertTag(l) ==
  /\ At(l, "insertTag")
  /\ tagged' = [tagged EXCEPT ![<<loop[l].tag, Id(l)>>] = @ + 1]
  /\ Goto(l, "tags")
  /\ UNCHANGED <<url, links, made, imported, refused, deleted, raced>>

\* The result is through.
Through(l) ==
  /\ loop' = [loop EXCEPT ![l].pc = "next", ![l].rest = Tail(@), ![l].id = Nil]
  /\ imported' = imported \cup {<<l, Url(l)>>}

\* The link to the task: its find and its validation.
CheckLink(l) ==
  /\ At(l, "tags") /\ loop[l].tags = {}
  /\ IF links[<<TaskOf[l], Id(l)>>] > 0
       THEN Through(l)
       ELSE Goto(l, "insertLink") /\ UNCHANGED imported
  /\ UNCHANGED <<url, tagged, links, made, refused, deleted, raced>>

\* The unique index unique_search_results; NULLs differ from each other.
LinkTaken(k, id) == id # Nil /\ links[<<k, id>>] > 0

InsertLink(l) ==
  /\ At(l, "insertLink")
  /\ IF LinkTaken(TaskOf[l], Id(l))
       THEN Goto(l, "escaped") /\ UNCHANGED <<links, imported>>
       ELSE /\ links' = [links EXCEPT ![<<TaskOf[l], Id(l)>>] = @ + 1]
            /\ Through(l)
  /\ UNCHANGED <<url, tagged, made, refused, deleted, raced>>

\* Any other exception leaves the loop, too: a result without a URL, or a
\* database that does not answer.
Raise(l) ==
  /\ loop[l].pc # "escaped" /\ loop[l].rest # <<>>
  /\ Goto(l, "escaped")
  /\ UNCHANGED <<url, tagged, links, made, imported, refused, deleted, raced>>

\* Mutant: the taggings stay.
StillTagged(i) == tagged
Untagged(i) == [x \in DOMAIN tagged |-> IF x[2] = i THEN 0 ELSE tagged[x]]

Linked(i) == {k \in Tasks : links[<<k, i>>] > 0}
LoopsAt(i) == {l \in Imports : Id(l) = i /\ ~At(l, "escaped")}

\* ResultsController#destroy: the taggings go with the row, the links stay.
Delete(i) ==
  /\ MayDelete /\ i \in Rows
  /\ url' = [j \in Rows \ {i} |-> url[j]]
  /\ tagged' = Untagged(i)
  /\ deleted' = deleted \cup {[id |-> i, url |-> url[i], linked |-> Linked(i), at |-> LoopsAt(i)]}
  /\ UNCHANGED <<links, loop, made, imported, refused, raced>>

Next ==
  \/ \E l \in Imports :
       \/ Find(l) \/ UpdateRow(l) \/ Validate(l) \/ Insert(l) \/ CheckTag(l)
       \/ InsertTag(l) \/ CheckLink(l) \/ InsertLink(l) \/ Raise(l)
  \/ \E i \in Ids : Delete(i)

Spec == Init /\ [][Next]_vars

-----------------------------------------------------------------------------
Places == {"next", "update", "validate", "insert", "tags", "insertTag",
           "insertLink", "escaped"}

\* A URL has one row, and a row has one link to a task, however many loops
\* find at the same time that there is none (the two unique indexes).
TypeOK ==
  /\ Rows \subseteq 1..made /\ made \in 0..MaxIds
  /\ \A i, j \in Rows : url[i] = url[j] => i = j
  /\ \A k \in Tasks, i \in Ids : links[<<k, i>>] <= 1
  /\ \A l \in Imports : loop[l].pc \in Places /\ Id(l) \in {Nil} \cup 1..made

\* A result that a loop is through with has a row, with a link to the task of
\* the loop and all its tags, although other loops import the same results
\* meanwhile: unless its save was refused or people deleted it.
ImportedIsThere ==
  \A x \in imported \ refused :
    LET k == TaskOf[x[1]] IN
    (\A d \in deleted : d.url # x[2]) =>
      /\ IdOf(x[2]) # Nil
      /\ links[<<k, IdOf(x[2])>>] = 1
      /\ \A t \in TagsOf[k] : tagged[<<t, IdOf(x[2])>>] > 0

\* A tag on a result that is not there was set for a loop whose save was
\* refused, or by one that was at the result when people deleted it, and is one
\* of its task's.  The same holds for a link, unless it was there before the
\* result was deleted: nothing takes links away.
OrphansExplained ==
  /\ \A t \in Tags, i \in {Nil} \cup Ids : tagged[<<t, i>>] > 0 =>
       \/ i \in Rows
       \/ i = Nil /\ \E r \in refused : t \in TagsOf[TaskOf[r[1]]]
       \/ \E d \in deleted : d.id = i /\ \E l \in d.at : t \in TagsOf[TaskOf[l]]
  /\ \A k \in Tasks, i \in {Nil} \cup Ids : links[<<k, i>>] > 0 =>
       \/ i \in Rows
       \/ i = Nil /\ \E r \in refused : TaskOf[r[1]] = k
       \/ \E d \in deleted : d.id = i /\ (k \in d.linked \/ \E l \in d.at : TaskOf[l] = k)

\* A result has a tag once ("tagging will be invalid if the result is already
\* tagged with the given id", result.rb:84), unless two loops looked for the tag
\* before either inserted it: there is no unique index on taggings.
TaggedOnceUnlessRaced == \A x \in DOMAIN tagged : tagged[x] > 1 => x \in raced
=============================================================================
