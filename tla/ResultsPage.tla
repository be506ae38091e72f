---------------------------- MODULE ResultsPage -----------------------------
(***************************************************************************)
(* The selection on the page of results: the check boxes of a table, the   *)
(* two headers that tell what is selected, the panel of actions, and the   *)
(* form they post (app/assets/javascripts/application.js:583-661,          *)
(* app/views/results/index.html.erb, results_controller.rb:490-621).       *)
(*                                                                         *)
(* A handler clones the inputs of the table into the form, and leaves them *)
(* there.  A copy is a check box like any other: the handlers that check   *)
(* or uncheck everything reach it, a click on the original does not.       *)
(*                                                                         *)
(* What slides up can be clicked until it is gone.  After an answer to an  *)
(* AJAX request ready() runs again and binds each handler once more.       *)
(***************************************************************************)
EXTENDS Naturals, FiniteSets

CONSTANTS Results,    \* the results that match the search, now or later
          PerPage,    \* how many of them a page shows
          MaxBound,   \* bound: how often ready() runs on a page
          MaxCopies,  \* bound: copies of an input that clicks may leave
          MaxPosts    \* bound: how many forms are posted

ASSUME PageAssumption ==
  /\ IsFiniteSet(Results) /\ PerPage \in Nat \ {0}
  /\ MaxBound \in Nat \ {0} /\ MaxCopies \in Nat /\ MaxPosts \in Nat

\* The parts of the page that slide: #update_all_from_page_header,
\* #update_all_from_query_header and #result_action_panel.
Parts == {"page header", "query header", "panel"}

VARIABLES
  shown,     \* the results whose boxes are on the page
  checked,   \* the boxes that are checked
  disabled,  \* are the boxes disabled?
  checkAll,  \* is #check_all_results checked?
  query,     \* the hidden field update_all_from_query
  open,      \* the parts last told to slide down
  fading,    \* the parts that slide up and are not gone yet
  bound,     \* how often ready() has bound the handlers
  copies,    \* how many copies of each box are in the form
  ticked,    \* how many of them are checked
  row,       \* what has become of each result: "unborn", "there" or "deleted"
  taggings,  \* how often each result has the tag the form adds
  posts,     \* the forms posted so far
  ever,      \* the boxes that were checked at some time (history)
  dismissed, \* a confirmation was dismissed on this page (history)
  late       \* the link was clicked while it slid up (history)

boxes == <<checked, disabled, checkAll, query>>
parts == <<open, fading>>
form == <<copies, ticked>>
database == <<row, taggings>>
page == <<shown, bound>>
history == <<ever, dismissed, late>>
vars == <<boxes, parts, form, database, page, history, posts>>

Exists == {r \in Results : row[r] = "there"}

\* Paginated: no page is empty as long as the search finds something.
IsPage(s) ==
  /\ s \subseteq Exists /\ Cardinality(s) <= PerPage
  /\ s = {} => Exists = {}

\* A page is rendered, with nothing selected.
Init ==
  /\ row \in [Results -> {"unborn", "there"}]
  /\ taggings = [r \in Results |-> 0] /\ posts = 0
  /\ shown \in SUBSET Results /\ IsPage(shown)
  /\ checked = {} /\ disabled = FALSE /\ checkAll = FALSE /\ query = FALSE
  /\ open = {} /\ fading = {} /\ bound = 1
  /\ copies = 0 /\ ticked = [r \in Results |-> 0]
  /\ ever = {} /\ dismissed = FALSE /\ late = FALSE

-----------------------------------------------------------------------------
(* What the page shows. *)

Visible(p) == p \in open \cup fading

\* The results the page says are selected.
Said == IF "query header" \in open THEN Exists ELSE checked

\* $(".result_checkbox:checked"): the boxes and their copies.
SomeChecked(boxesChecked, copiesTicked) ==
  boxesChecked # {} \/ \E r \in Results : copiesTicked[r] > 0

Slide(down, up) ==
  /\ open' = (open \cup down) \ up
  /\ fading' = (fading \cup (open \cap up)) \ down

\* slideDown or slideUp of the panel, with the headers.
SlideWithPanel(panel, down, up) ==
  IF panel THEN Slide(down \cup {"panel"}, up)
           ELSE Slide(down, up \cup {"panel"})

\* An animation ends.
Settle ==
  /\ fading # {}
  /\ fading' = {}
  /\ UNCHANGED <<boxes, open, form, database, page, history, posts>>

-----------------------------------------------------------------------------
(* The handlers. *)

\* prop('checked', b) of every box, which changes the copies as well.
CheckEvery(b) ==
  /\ checked' = IF b THEN shown ELSE {}
  /\ ticked' = [r \in Results |-> IF b /\ r \in shown THEN copies ELSE 0]
  /\ ever' = ever \cup checked'
  /\ disabled' = FALSE
  /\ UNCHANGED copies

\* #check_all_results is checked.
CheckAllOn ==
  /\ ~checkAll
  /\ checkAll' = TRUE
  /\ CheckEvery(TRUE)
  /\ query' = FALSE
  /\ SlideWithPanel(SomeChecked(checked', ticked'), {"page header"}, {})
  /\ UNCHANGED <<database, page, dismissed, late, posts>>

\* Mutant: the header of the query stays.
CheckAllOffKeepsHeader ==
  /\ checkAll
  /\ checkAll' = FALSE
  /\ CheckEvery(FALSE)
  /\ query' = FALSE
  /\ SlideWithPanel(SomeChecked(checked', ticked'), {}, {"page header"})
  /\ late' = FALSE
  /\ UNCHANGED <<database, page, dismissed, posts>>
\* #check_all_results is unchecked.
CheckAllOff ==
  /\ checkAll
  /\ checkAll' = FALSE
  /\ CheckEvery(FALSE)
  /\ query' = FALSE
  /\ SlideWithPanel(SomeChecked(checked', ticked'), {}, {"page header", "query header"})
  /\ late' = FALSE
  /\ UNCHANGED <<database, page, dismissed, posts>>

\* Mutant: the hidden field is not set.
SelectQueryKeepsField ==
  /\ Visible("page header")
  /\ disabled' = TRUE
  /\ SlideWithPanel(SomeChecked(checked, ticked), {"query header"}, {"page header"})
  /\ late' = (late \/ "page header" \notin open)
  /\ UNCHANGED <<checked, checkAll, query, form, database, page, ever, dismissed, posts>>
\* #update_all_from_query_link, which is in the page's header.
SelectQuery ==
  /\ Visible("page header")
  /\ query' = TRUE
  /\ disabled' = TRUE
  /\ SlideWithPanel(SomeChecked(checked, ticked), {"query header"}, {"page header"})
  /\ late' = (late \/ "page header" \notin open)
  /\ UNCHANGED <<checked, checkAll, form, database, page, ever, dismissed, posts>>

\* #clear_selection, which is in the query's header.
ClearSelection ==
  /\ Visible("query header")
  /\ checkAll' = FALSE
  /\ CheckEvery(FALSE)
  /\ query' = FALSE
  /\ Slide({}, Parts)
  /\ late' = FALSE
  /\ UNCHANGED <<database, page, dismissed, posts>>

Toggled(r) == IF r \in checked THEN checked \ {r} ELSE checked \cup {r}

\* A click on the box of a result.  A disabled box takes none.
Toggle(r) ==
  /\ ~disabled
  /\ checked' = Toggled(r)
  /\ ever' = ever \cup checked'
  /\ checkAll' = FALSE /\ query' = FALSE
  /\ SlideWithPanel(SomeChecked(checked', ticked), {}, {"page header", "query header"})
  /\ late' = FALSE
  /\ UNCHANGED <<disabled, form, database, page, dismissed, posts>>

\* ready() runs again after an AJAX answer (render_metadata_partial.js.erb).
BindAgain ==
  /\ bound < MaxBound
  /\ bound' = bound + 1
  /\ UNCHANGED <<boxes, parts, form, database, shown, history, posts>>

-----------------------------------------------------------------------------
(* The buttons with the class update_multiple_button. *)

\* The copies in the form once the handlers have run, each of which appends
\* one of every input of #selection_table.
TickedThen(r) == ticked[r] + IF r \in checked THEN bound ELSE 0

\* "Delete Results" asks for a confirmation.  The handler that appends is bound
\* to the button and runs before the one that asks, which is jquery_ujs's and
\* bound to the document: isDefaultPrevented() is not true yet.
Dismiss ==
  /\ Visible("panel")
  /\ copies + bound <= MaxCopies
  /\ copies' = copies + bound
  /\ ticked' = [r \in Results |-> TickedThen(r)]
  /\ dismissed' = TRUE
  /\ UNCHANGED <<boxes, parts, database, page, ever, late, posts>>

\* result_ids as update_multiple takes them: how often each result is named.
\* A disabled input is not posted; the query names everything it finds, once.
Named == [r \in Results |->
            IF query THEN IF r \in Exists THEN 1 ELSE 0
                     ELSE IF disabled THEN 0 ELSE TickedThen(r)]

\* Mutant: the import does not validate.
TaggedUnseen(r) == taggings[r] + Named[r]
\* Tagging.import: a tagging that is there already fails its validation; those
\* of one import are validated before any of them is inserted.
Tagged(r) == IF taggings[r] > 0 THEN taggings[r] ELSE Named[r]

\* A form is posted, and the answer redirects to a new page of results.
Post ==
  /\ posts < MaxPosts
  /\ Visible("panel")
  /\ posts' = posts + 1
  /\ shown' \in SUBSET Results /\ IsPage(shown)'
  /\ checked' = {} /\ disabled' = FALSE /\ checkAll' = FALSE /\ query' = FALSE
  /\ open' = {} /\ fading' = {} /\ bound' = 1
  /\ copies' = 0 /\ ticked' = [r \in Results |-> 0]
  /\ ever' = {} /\ dismissed' = FALSE /\ late' = FALSE

\* "Update" with a tag.
PostTag ==
  /\ taggings' = [r \in Results |-> Tagged(r)]
  /\ UNCHANGED row
  /\ Post

\* "Update" with a tag and remove_tags.
PostUntag ==
  /\ taggings' = [r \in Results |-> IF Named[r] > 0 THEN 0 ELSE taggings[r]]
  /\ UNCHANGED row
  /\ Post

\* "Delete Results", confirmed.
PostDelete ==
  /\ row' = [r \in Results |-> IF Named[r] > 0 /\ row[r] = "there" THEN "deleted" ELSE row[r]]
  /\ UNCHANGED taggings
  /\ Post

\* Somebody, or a task, adds a result that the search finds.
Arrive(r) ==
  /\ row[r] = "unborn"
  /\ row' = [row EXCEPT ![r] = "there"]
  /\ UNCHANGED <<boxes, parts, form, taggings, page, history, posts>>

Next ==
  \/ Settle \/ CheckAllOn \/ CheckAllOff \/ SelectQuery \/ ClearSelection
  \/ BindAgain \/ Dismiss \/ PostTag \/ PostUntag \/ PostDelete
  \/ \E r \in shown : Toggle(r)
  \/ \E r \in Results : Arrive(r)

Spec == Init /\ [][Next]_vars

-----------------------------------------------------------------------------
TypeOK ==
  /\ shown \subseteq Results /\ checked \subseteq shown /\ ever \subseteq shown
  /\ disabled \in BOOLEAN /\ checkAll \in BOOLEAN /\ query \in BOOLEAN
  /\ open \subseteq Parts /\ fading \subseteq Parts \ open
  /\ bound \in 1..MaxBound /\ copies \in 0..MaxCopies
  /\ ticked \in [Results -> 0..copies]
  /\ row \in [Results -> {"unborn", "there", "deleted"}]
  /\ taggings \in [Results -> Nat] /\ posts \in 0..MaxPosts
  /\ dismissed \in BOOLEAN /\ late \in BOOLEAN

\* The headers tell the truth: the one of the page is there only when exactly
\* its boxes are checked and will be posted, the one of the query when and only
\* when the query will be posted.  Only a click on the link while it slides up
\* can make them disagree with the form (application.js:583-654).
HeadersTellTruth ==
  /\ disabled = query
  /\ ~late => ("query header" \in open <=> query)
  /\ ~late /\ "page header" \in open => ~query /\ checkAll /\ checked = shown

\* The panel with the actions is open when, and only when, some box or copy is
\* checked; so, on a page of results where no confirmation was dismissed, when and only
\* when the page says that something is selected (application.js:603-610,
\* 619-626, 636, 646-653).
PanelFollowsSelection ==
  /\ "panel" \in open <=> SomeChecked(checked, ticked)
  /\ ~dismissed /\ ~late /\ shown # {} => ("panel" \in open <=> Said # {})

Changed(r) == row'[r] # row[r] \/ taggings'[r] # taggings[r]

\* What is posted is what the page says: every result said to be selected is
\* deleted, tagged or untagged, and no other.  Without the two exceptions, a
\* dismissed confirmation and a late click, nothing else is ever touched
\* (application.js:583-661, results_controller.rb:491-497).
PostIsWhatPageSays ==
  [][posts' # posts /\ ~dismissed /\ ~late =>
       /\ \A r \in Results \ Said : ~Changed(r)
       /\ \/ \A r \in Said : row'[r] = "deleted"
          \/ \A r \in Said : taggings'[r] > 0
          \/ \A r \in Said : taggings'[r] = 0]_vars

\* Even with the copies that dismissed confirmations leave in the form, a form
\* changes only results that were checked at some time since the page was
\* rendered, or those the query finds (application.js:656-661).
OnlyOnceSelected ==
  [][posts' # posts =>
       \A r \in Results : Changed(r) => r \in ever \/ (query /\ r \in Exists)]_vars

\* A form tags no result twice, unless its ids were posted twice: by copies of
\* a dismissed confirmation, or by handlers that ready() bound once more
\* (results_controller.rb:541-546).
TagsOnceFromFreshPage ==
  [][\A r \in Results :
       taggings'[r] > 1 /\ taggings'[r] # taggings[r] => (dismissed \/ bound > 1) /\ ~query]_vars
=============================================================================
