------------------------- MODULE ResultsPage_proofs -------------------------
(***************************************************************************)
(* For every set of results and every size of a page: the headers, the     *)
(* panel and the form agree, and a form does what the page said.           *)
(*                                                                         *)
(* HeadersTellTruth and the panel's state are kept by each handler on its  *)
(* own, but only together with three facts about the form: copies come     *)
(* from dismissed confirmations (NoCopies), they and the checked boxes     *)
(* were checked on this page (OnlyEverChecked), and as long as the query   *)
(* is selected the whole page is (QueryOnWholePage).                       *)
(***************************************************************************)
EXTENDS ResultsPage, TLAPS

NoCopies == ~dismissed => copies = 0
OnlyEverChecked ==
  /\ checked \subseteq ever
  /\ \A r \in Results : ticked[r] > 0 => r \in ever
QueryOnWholePage == query /\ ~late => checkAll /\ checked = shown
ShownExist == shown \subseteq Exists
PanelIsOpen == "panel" \in open <=> SomeChecked(checked, ticked)

IInv ==
  /\ TypeOK /\ HeadersTellTruth /\ PanelIsOpen
  /\ NoCopies /\ OnlyEverChecked /\ QueryOnWholePage /\ ShownExist

USE PageAssumption

-----------------------------------------------------------------------------
LEMMA InitHolds == Init => IInv
<1> SUFFICES ASSUME Init PROVE IInv
  OBVIOUS
<1>1. shown \subseteq Exists
  BY DEF Init, IsPage
<1>2. TypeOK
  <2>1. ticked \in [Results -> 0..copies] /\ taggings \in [Results -> Nat]
    BY DEF Init
  <2>2. row \in [Results -> {"unborn", "there", "deleted"}]
    BY DEF Init
  <2>3. /\ bound \in 1..MaxBound /\ copies \in 0..MaxCopies /\ posts \in 0..MaxPosts
        /\ shown \subseteq Results /\ checked \subseteq shown /\ ever \subseteq shown
        /\ open \subseteq Parts /\ fading \subseteq Parts \ open
    BY DEF Init
  <2>4. /\ disabled \in BOOLEAN /\ checkAll \in BOOLEAN /\ query \in BOOLEAN
        /\ dismissed \in BOOLEAN /\ late \in BOOLEAN
    BY Zenon DEF Init
  <2> QED BY <2>1, <2>2, <2>3, <2>4, Zenon DEF TypeOK
<1>3. HeadersTellTruth
  BY Zenon DEF Init, HeadersTellTruth
<1>4. PanelIsOpen
  <2>1. open = {} /\ checked = {} /\ \A r \in Results : ticked[r] = 0
    BY DEF Init
  <2> QED BY <2>1 DEF PanelIsOpen, SomeChecked
<1> QED BY <1>1, <1>2, <1>3, <1>4 DEF Init, IInv, NoCopies, OnlyEverChecked, QueryOnWholePage,
          ShownExist

\* prop('checked', b) checks or unchecks the copies like the boxes.
LEMMA CheckEveryDoes ==
  ASSUME IInv, NEW b \in BOOLEAN, CheckEvery(b)
  PROVE  /\ checked' \subseteq shown /\ ever' \subseteq shown /\ checked' \subseteq ever'
         /\ ~disabled' /\ disabled' \in BOOLEAN /\ copies' = copies
         /\ ticked' \in [Results -> 0..copies']
         /\ \A r \in Results : ticked'[r] > 0 => r \in ever'
         /\ b => checked' = shown
         /\ ~b => checked' = {} /\ ~SomeChecked(checked', ticked')
<1>1. copies \in Nat /\ checked' = (IF b THEN shown ELSE {}) /\ ever' = ever \cup checked'
  BY DEF CheckEvery, IInv, TypeOK
<1>2. \A r \in Results : ticked'[r] = IF b /\ r \in shown THEN copies ELSE 0
  BY DEF CheckEvery
<1>3. ticked' \in [Results -> 0..copies']
  BY <1>1 DEF CheckEvery
<1>4. ever' \subseteq shown
  BY <1>1 DEF IInv, TypeOK
<1>5. ~disabled' /\ disabled' \in BOOLEAN
  BY Zenon DEF CheckEvery
<1>6. copies' = copies
  BY DEF CheckEvery
<1>7. (\A r \in Results : ticked'[r] > 0 => r \in ever') /\ (b => checked' = shown)
  BY <1>1, <1>2
<1>8. ~b => checked' = {} /\ ~SomeChecked(checked', ticked')
  BY <1>1, <1>2 DEF SomeChecked
<1> QED BY <1>1, <1>3, <1>4, <1>5, <1>6, <1>7, <1>8

\* Every handler leaves its variables in their types.
LEMMA HandlersKeepTypes ==
  ASSUME IInv,
         \/ Settle \/ CheckAllOn \/ CheckAllOff \/ SelectQuery \/ ClearSelection
         \/ BindAgain \/ \E r \in shown : Toggle(r)
  PROVE  TypeOK'
<1> USE DEF IInv, TypeOK, Slide, SlideWithPanel, page, history, form, database, parts, boxes
<1>1. CASE Settle
  BY <1>1 DEF Settle
<1>2. CASE CheckAllOn
  BY <1>2, CheckEveryDoes DEF CheckAllOn, Parts
<1>3. CASE CheckAllOff
  BY <1>3, CheckEveryDoes DEF CheckAllOff, Parts
<1>4. CASE SelectQuery
  BY <1>4 DEF SelectQuery, Parts
<1>5. CASE ClearSelection
  BY <1>5, CheckEveryDoes DEF ClearSelection, Parts
<1>6. CASE BindAgain
  BY <1>6 DEF BindAgain
<1>7. ASSUME NEW r \in shown, Toggle(r) PROVE TypeOK'
  BY <1>7, ZenonT(30) DEF Toggle, Toggled, Parts
<1> QED BY <1>1, <1>2, <1>3, <1>4, <1>5, <1>6, <1>7

\* Every handler leaves headers, panel and form in agreement.
LEMMA HandlersAgree ==
  ASSUME IInv,
         \/ Settle \/ CheckAllOn \/ CheckAllOff \/ SelectQuery \/ ClearSelection
         \/ BindAgain \/ \E r \in shown : Toggle(r)
  PROVE  /\ HeadersTellTruth' /\ PanelIsOpen' /\ NoCopies'
         /\ OnlyEverChecked' /\ QueryOnWholePage' /\ ShownExist'
<1> USE DEF IInv, TypeOK, HeadersTellTruth, PanelIsOpen, SomeChecked, NoCopies,
            OnlyEverChecked, QueryOnWholePage, ShownExist, Exists, Slide, SlideWithPanel,
            page, history, form, database, parts, boxes
<1>1. CASE Settle
  BY <1>1 DEF Settle
<1>2. CASE CheckAllOn
  <2>1. CheckEvery(TRUE) /\ ~checkAll /\ UNCHANGED <<database, page, dismissed, late>>
    BY <1>2 DEF CheckAllOn
  <2>2. checkAll' /\ disabled' = query' /\ ~query'
    BY <1>2, Zenon DEF CheckAllOn, CheckEvery
  <2>3. ~late => "query header" \notin open
    BY <2>1
  <2>4. /\ "query header" \in open' => "query header" \in open
        /\ "panel" \in open' <=> SomeChecked(checked', ticked')
    <3> HIDE DEF SomeChecked
    <3>1. open' = IF SomeChecked(checked', ticked')
                    THEN (open \cup ({"page header"} \cup {"panel"})) \ {}
                    ELSE (open \cup {"page header"}) \ ({} \cup {"panel"})
      BY <1>2, Zenon DEF CheckAllOn
    <3> QED BY <3>1
  <2>5. HeadersTellTruth'
    BY <2>1, <2>2, <2>3, <2>4, CheckEveryDoes
  <2> QED BY <2>1, <2>2, <2>4, <2>5, CheckEveryDoes
<1>3. CASE CheckAllOff
  BY <1>3, CheckEveryDoes DEF CheckAllOff
<1>4. CASE SelectQuery
  BY <1>4 DEF SelectQuery
<1>5. CASE ClearSelection
  BY <1>5, CheckEveryDoes DEF ClearSelection, Parts
<1>6. CASE BindAgain
  BY <1>6 DEF BindAgain
<1>7. ASSUME NEW r \in shown, Toggle(r)
      PROVE  /\ HeadersTellTruth' /\ PanelIsOpen' /\ NoCopies'
             /\ OnlyEverChecked' /\ QueryOnWholePage' /\ ShownExist'
  BY <1>7 DEF Toggle, Toggled
<1> QED BY <1>1, <1>2, <1>3, <1>4, <1>5, <1>6, <1>7

\* The copies that a dismissed confirmation leaves are of checked boxes.
LEMMA DismissKeeps == ASSUME IInv, Dismiss PROVE IInv'
<1>1. /\ UNCHANGED <<boxes, parts, database, page, ever, late, posts>> /\ dismissed' = TRUE
      /\ copies' = copies + bound /\ copies + bound <= MaxCopies
      /\ ticked' = [r \in Results |-> TickedThen(r)] /\ Visible("panel")
  BY DEF Dismiss
<1>2. \A r \in Results :
        /\ TickedThen(r) \in 0..(copies + bound)
        /\ TickedThen(r) > 0 <=> (ticked[r] > 0 \/ r \in checked)
  BY DEF IInv, TypeOK, TickedThen
<1>3. ticked' \in [Results -> 0..copies'] /\ \A r \in Results : ticked'[r] = TickedThen(r)
  BY <1>1, <1>2
<1>4. TypeOK'
  BY <1>1, <1>3 DEF IInv, TypeOK, boxes, parts, database, page
<1>5. SomeChecked(checked, ticked)' <=> SomeChecked(checked, ticked)
  BY <1>1, <1>2, <1>3 DEF SomeChecked, IInv, TypeOK, boxes
<1>6. OnlyEverChecked'
  BY <1>1, <1>2, <1>3 DEF OnlyEverChecked, IInv, boxes
<1> QED BY <1>1, <1>4, <1>5, <1>6 DEF IInv, HeadersTellTruth, PanelIsOpen, NoCopies,
          QueryOnWholePage, ShownExist, Exists, boxes, parts, database, page

\* A new page has nothing selected, whatever was posted.
LEMMA PostKeeps == ASSUME IInv, PostTag \/ PostUntag \/ PostDelete PROVE IInv'
<1>1. Post
  BY DEF PostTag, PostUntag, PostDelete
<1>2. Named \in [Results -> Nat]
  BY DEF Named, TickedThen, IInv, TypeOK
<1>3. taggings' \in [Results -> Nat]
  BY <1>2 DEF PostTag, PostUntag, PostDelete, Tagged, IInv, TypeOK
<1>4. row' \in [Results -> {"unborn", "there", "deleted"}]
  BY DEF PostTag, PostUntag, PostDelete, IInv, TypeOK
<1>5. shown' \subseteq Exists' /\ Exists' \subseteq Results
  BY <1>1 DEF Post, IsPage, Exists
<1>6. TypeOK'
  <2>1. ticked' \in [Results -> 0..copies'] /\ shown' \subseteq Results
    BY <1>1, <1>5 DEF Post
  <2>2. /\ bound' \in 1..MaxBound /\ copies' \in 0..MaxCopies /\ posts' \in 0..MaxPosts
        /\ checked' \subseteq shown' /\ ever' \subseteq shown'
        /\ open' \subseteq Parts /\ fading' \subseteq Parts \ open'
    BY <1>1 DEF Post, IInv, TypeOK
  <2>3. /\ disabled' \in BOOLEAN /\ checkAll' \in BOOLEAN /\ query' \in BOOLEAN
        /\ dismissed' \in BOOLEAN /\ late' \in BOOLEAN
    BY <1>1, Zenon DEF Post
  <2> QED BY <1>3, <1>4, <2>1, <2>2, <2>3, Zenon DEF TypeOK
<1>7. HeadersTellTruth' /\ QueryOnWholePage'
  BY <1>1, Zenon DEF Post, HeadersTellTruth, QueryOnWholePage
<1>8. PanelIsOpen'
  <2>1. open' = {} /\ checked' = {} /\ \A r \in Results : ticked'[r] = 0
    BY <1>1 DEF Post
  <2> QED BY <2>1 DEF PanelIsOpen, SomeChecked
<1> QED BY <1>1, <1>5, <1>6, <1>7, <1>8 DEF Post, IInv, NoCopies, OnlyEverChecked, ShownExist

\* The invariant that carries the properties of the page of results
\* (application.js:583-661).
THEOREM Invariance == Spec => []IInv
<1>1. IInv /\ [Next]_vars => IInv'
  <2> SUFFICES ASSUME IInv, [Next]_vars PROVE IInv'
    OBVIOUS
  <2>1. CASE \/ Settle \/ CheckAllOn \/ CheckAllOff \/ SelectQuery \/ ClearSelection
             \/ BindAgain \/ \E r \in shown : Toggle(r)
    BY <2>1, HandlersKeepTypes, HandlersAgree DEF IInv
  <2>2. ASSUME NEW r \in Results, Arrive(r) PROVE IInv'
    BY <2>2 DEF Arrive, IInv, TypeOK, HeadersTellTruth, PanelIsOpen, SomeChecked, NoCopies,
                OnlyEverChecked, QueryOnWholePage, ShownExist, Exists,
                page, history, form, database, parts, boxes
  <2>3. CASE UNCHANGED vars
    BY <2>3 DEF vars, IInv, TypeOK, HeadersTellTruth, PanelIsOpen, SomeChecked, NoCopies,
                OnlyEverChecked, QueryOnWholePage, ShownExist, Exists,
                page, history, form, database, parts, boxes
  <2> QED BY <2>1, <2>2, <2>3, DismissKeeps, PostKeeps DEF Next
<1> QED BY InitHolds, <1>1, PTL DEF Spec

\* The variables of the page stay in their types; in particular no box of
\* another page is ever checked.
THEOREM TypeCorrect == Spec => []TypeOK
<1>1. IInv => TypeOK
  BY DEF IInv
<1> QED BY <1>1, Invariance, PTL

\* The header of the page is there only while exactly its boxes are checked,
\* the header of the query when and only when the query will be posted.
THEOREM HeadersAreTrue == Spec => []HeadersTellTruth
<1>1. IInv => HeadersTellTruth
  BY DEF IInv
<1> QED BY <1>1, Invariance, PTL

\* The panel of actions is open when and only when something is selected.
THEOREM PanelIsTrue == Spec => []PanelFollowsSelection
<1>1. IInv => PanelFollowsSelection
  <2> SUFFICES ASSUME IInv PROVE PanelFollowsSelection
    OBVIOUS
  <2>1. "panel" \in open <=> SomeChecked(checked, ticked)
    BY DEF IInv, PanelIsOpen
  <2>2. ASSUME ~dismissed, ~late, shown # {}
        PROVE  "panel" \in open <=> Said # {}
    <3>1. SomeChecked(checked, ticked) <=> checked # {}
      BY <2>2 DEF IInv, TypeOK, NoCopies, SomeChecked
    <3>2. CASE "query header" \in open
      <4>1. query
        BY <2>2, <3>2, Zenon DEF IInv, HeadersTellTruth
      <4>2. checked = shown /\ shown \subseteq Exists
        BY <2>2, <4>1 DEF IInv, QueryOnWholePage, ShownExist
      <4> QED BY <2>1, <2>2, <3>1, <3>2, <4>2 DEF Said
    <3>3. CASE "query header" \notin open
      BY <2>1, <3>1, <3>3 DEF Said
    <3> QED BY <3>2, <3>3
  <2> QED BY <2>1, <2>2 DEF PanelFollowsSelection
<1> QED BY <1>1, Invariance, PTL

-----------------------------------------------------------------------------
\* Without copies, the form names what the page says, and each result of the
\* query or, with one binding, each checked one is named once.
LEMMA NamedIsSaid ==
  ASSUME IInv, ~dismissed, ~late
  PROVE  \A r \in Results : Named[r] > 0 <=> r \in Said
<1>1. \A r \in Results : ticked[r] = 0
  BY DEF IInv, TypeOK, NoCopies
<1>2. CASE query
  <2>1. Said = Exists
    BY <1>2, Zenon DEF Said, IInv, HeadersTellTruth
  <2>2. \A r \in Results : Named[r] = IF r \in Exists THEN 1 ELSE 0
    BY <1>2 DEF Named
  <2> QED BY <2>1, <2>2
<1>3. CASE ~query
  <2>1. ~disabled /\ Said = checked
    BY <1>3 DEF IInv, TypeOK, HeadersTellTruth, Said
  <2>2. \A r \in Results : TickedThen(r) > 0 <=> r \in checked
    BY <1>1 DEF TickedThen, IInv, TypeOK
  <2> QED BY <1>3, <2>1, <2>2 DEF Named
<1> QED BY <1>2, <1>3

\* Forms are posted by their buttons only.
LEMMA OnlyPostsChange ==
  ASSUME IInv, [Next]_vars, posts' # posts
  PROVE  PostTag \/ PostUntag \/ PostDelete
BY DEF Next, Settle, CheckAllOn, CheckAllOff, SelectQuery, ClearSelection, BindAgain,
       Dismiss, Toggle, Arrive, vars

\* A form deletes, tags or untags all that the page says is selected, and
\* nothing else, unless a confirmation was dismissed or a click came late.
THEOREM FormsDoWhatPageSays == Spec => PostIsWhatPageSays
<1>1. IInv /\ [Next]_vars =>
        (posts' # posts /\ ~dismissed /\ ~late =>
           /\ \A r \in Results \ Said : ~Changed(r)
           /\ \/ \A r \in Said : row'[r] = "deleted"
              \/ \A r \in Said : taggings'[r] > 0
              \/ \A r \in Said : taggings'[r] = 0)
  <2> SUFFICES ASSUME IInv, [Next]_vars, posts' # posts, ~dismissed, ~late
               PROVE  /\ \A r \in Results \ Said : ~Changed(r)
                      /\ \/ \A r \in Said : row'[r] = "deleted"
                         \/ \A r \in Said : taggings'[r] > 0
                         \/ \A r \in Said : taggings'[r] = 0
    OBVIOUS
  <2>1. Said \subseteq Exists /\ Exists \subseteq Results
    BY DEF Said, IInv, TypeOK, ShownExist, Exists
  <2>2. \A r \in Results : Named[r] \in Nat /\ (Named[r] > 0 <=> r \in Said)
    BY NamedIsSaid DEF Named, TickedThen, IInv, TypeOK
  <2>3. row \in [Results -> {"unborn", "there", "deleted"}] /\ taggings \in [Results -> Nat]
    BY DEF IInv, TypeOK
  <2>4. CASE PostTag
    BY <2>1, <2>2, <2>3, <2>4 DEF PostTag, Tagged, Changed
  <2>5. CASE PostUntag
    BY <2>1, <2>2, <2>3, <2>5 DEF PostUntag, Changed
  <2>6. CASE PostDelete
    BY <2>1, <2>2, <2>3, <2>6 DEF PostDelete, Changed, Exists
  <2> QED BY <2>4, <2>5, <2>6, OnlyPostsChange
<1> QED BY <1>1, Invariance, PTL DEF Spec, PostIsWhatPageSays

\* However many confirmations were dismissed, a form changes only what was
\* checked on this page at some time, or what the query finds.
THEOREM FormsTouchOnlySelected == Spec => OnlyOnceSelected
<1>1. IInv /\ [Next]_vars =>
        (posts' # posts =>
           \A r \in Results : Changed(r) => r \in ever \/ (query /\ r \in Exists))
  <2> SUFFICES ASSUME IInv, [Next]_vars, posts' # posts, NEW r \in Results, Changed(r)
               PROVE  r \in ever \/ (query /\ r \in Exists)
    OBVIOUS
  <2>1. Named[r] \in Nat /\ row[r] \in {"unborn", "there", "deleted"} /\ taggings[r] \in Nat
    BY DEF Named, TickedThen, IInv, TypeOK
  <2>2. Named[r] > 0
    BY <2>1, OnlyPostsChange DEF PostTag, PostUntag, PostDelete, Tagged, Changed, IInv, TypeOK
  <2>3. ticked[r] \in Nat /\ bound \in Nat
    BY DEF IInv, TypeOK
  <2> QED BY <2>2, <2>3 DEF Named, TickedThen, IInv, OnlyEverChecked
<1> QED BY <1>1, Invariance, PTL DEF Spec, OnlyOnceSelected

\* A form tags a result twice only when its boxes were copied twice, by a
\* dismissed confirmation or by handlers bound again.
THEOREM TaggedOnce == Spec => TagsOnceFromFreshPage
<1>1. IInv /\ [Next]_vars =>
        \A r \in Results : taggings'[r] > 1 /\ taggings'[r] # taggings[r] =>
                             (dismissed \/ bound > 1) /\ ~query
  <2> SUFFICES ASSUME IInv, [Next]_vars, NEW r \in Results,
                      taggings'[r] > 1, taggings'[r] # taggings[r]
               PROVE  (dismissed \/ bound > 1) /\ ~query
    OBVIOUS
  <2>1. PostTag \/ PostUntag
    BY DEF Next, Settle, CheckAllOn, CheckAllOff, SelectQuery, ClearSelection, BindAgain,
           Dismiss, Toggle, Arrive, PostDelete, vars, database
  <2>2. taggings \in [Results -> Nat] /\ Named[r] \in Nat
    BY DEF Named, TickedThen, IInv, TypeOK
  <2>3. Named[r] > 1
    BY <2>1, <2>2 DEF PostTag, PostUntag, Tagged
  <2>4. ~query /\ TickedThen(r) > 1
    BY <2>3 DEF Named
  <2>5. ~dismissed => ticked[r] = 0
    BY DEF IInv, TypeOK, NoCopies
  <2> QED BY <2>4, <2>5 DEF TickedThen, IInv, TypeOK
<1> QED BY <1>1, Invariance, PTL DEF Spec, TagsOnceFromFreshPage
=============================================================================
