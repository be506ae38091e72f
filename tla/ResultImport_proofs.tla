------------------------ MODULE ResultImport_proofs ------------------------
(***************************************************************************)
(* However many loops import however many results: one row for each URL,   *)
(* one link for each task and row, and what a loop is through with is      *)
(* there, with its link and its tags.                                      *)
(*                                                                         *)
(* The unique indexes keep URLs and links unique (OneRow, OneLink).  A     *)
(* loop between two statements knows the row it works on, unless it was    *)
(* refused or deleted (IdsKnown, WorksOnRow), and which tags it still has  *)
(* to check (TagsBehind); that carries over to what it leaves behind.      *)
(* Nothing but the loops themselves keeps a tag from being inserted twice: *)
(* of the loops about to insert one tag of one result, all but the first   *)
(* are in raced (OneInserter).                                             *)
(***************************************************************************)
EXTENDS ResultImport, TLAPS

AllIds == {Nil} \cup Ids

LoopStates ==
  [Imports -> [pc : Places, rest : Seq(Urls), id : AllIds,
               tags : SUBSET Tags, tag : Tags \cup {Nil}]]

Types ==
  /\ made \in 0..MaxIds
  /\ Rows \subseteq 1..made /\ \A i \in Rows : url[i] \in Urls
  /\ tagged \in [Tags \X AllIds -> Nat] /\ links \in [Tasks \X AllIds -> Nat]
  /\ loop \in LoopStates
  /\ \A l \in Imports :
       /\ Id(l) \in {Nil} \cup 1..made
       /\ loop[l].tags \subseteq TagsOf[TaskOf[l]]
       /\ At(l, "insertTag") => loop[l].tag \in TagsOf[TaskOf[l]]
       /\ loop[l].pc \notin {"next", "escaped"} => loop[l].rest # <<>>

OneRow == \A i, j \in Rows : url[i] = url[j] => i = j
OneLink == \A k \in Tasks, i \in Ids : links[<<k, i>>] <= 1

Working(l) == loop[l].pc \in {"update", "tags", "insertTag", "insertLink"}
\* The row that a loop works on is there, or the loop's save was refused, or
\* the loop was at the row when people deleted it.
Known(l, i) ==
  \/ i \in Rows
  \/ i = Nil /\ \E r \in refused : r[1] = l
  \/ \E d \in deleted : d.id = i /\ l \in d.at
IdsKnown == \A l \in Imports : Working(l) => Known(l, Id(l))

\* People did not delete the URL, and the loop's save was not refused.
WasDeleted(u) == \E d \in deleted : d.url = u
Undisturbed(l, u) == <<l, u>> \notin refused /\ ~WasDeleted(u)
WorksOnRow ==
  \A l \in Imports : Working(l) =>
    (Undisturbed(l, Url(l)) => Id(l) \in Rows /\ url[Id(l)] = Url(l))

\* The tags that a loop need not look at any more.
Behind(l) ==
  IF loop[l].pc \in {"tags", "insertTag", "insertLink"}
    THEN TagsOf[TaskOf[l]] \ (loop[l].tags \cup (IF At(l, "insertTag") THEN {loop[l].tag} ELSE {}))
    ELSE {}
TagsBehind ==
  /\ \A l \in Imports : \A t \in Behind(l) :
       Undisturbed(l, Url(l)) => tagged[<<t, Id(l)>>] > 0
  /\ \A l \in Imports : At(l, "insertLink") => loop[l].tags = {}

\* What a loop leaves behind.
Complete(k, u) ==
  \E i \in Rows : url[i] = u /\ links[<<k, i>>] = 1 /\ \A t \in TagsOf[k] : tagged[<<t, i>>] > 0
AllComplete ==
  \A l \in Imports, u \in Urls :
    <<l, u>> \in imported /\ Undisturbed(l, u) => Complete(TaskOf[l], u)

AboutToTag(l, t, i) == At(l, "insertTag") /\ loop[l].tag = t /\ Id(l) = i
OneInserter ==
  \A t \in Tags, i \in AllIds : <<t, i>> \notin raced =>
    /\ tagged[<<t, i>>] <= 1
    /\ \A l \in Imports : AboutToTag(l, t, i) =>
         /\ tagged[<<t, i>>] = 0
         /\ \A m \in Imports : AboutToTag(m, t, i) => m = l

\* Why a tag or a link is on something that is not a row.
TagExcused(t, i) ==
  \/ i \in Rows
  \/ i = Nil /\ \E r \in refused : t \in TagsOf[TaskOf[r[1]]]
  \/ \E d \in deleted : d.id = i /\ \E l \in d.at : t \in TagsOf[TaskOf[l]]
LinkExcused(k, i) ==
  \/ i \in Rows
  \/ i = Nil /\ \E r \in refused : TaskOf[r[1]] = k
  \/ \E d \in deleted : d.id = i /\ (k \in d.linked \/ \E l \in d.at : TaskOf[l] = k)

HistoryTypes ==
  /\ imported \subseteq Imports \X Urls
  /\ deleted \subseteq [id : Ids, url : Urls, linked : SUBSET Tasks, at : SUBSET Imports]

IInv ==
  /\ Types /\ OneRow /\ OneLink /\ IdsKnown /\ OrphansExplained
  /\ WorksOnRow /\ TagsBehind /\ AllComplete /\ OneInserter /\ HistoryTypes

USE ImportAssumption

-----------------------------------------------------------------------------
(* Types                                                                   *)

Step(l) ==
  \/ Find(l) \/ UpdateRow(l) \/ Validate(l) \/ Insert(l) \/ CheckTag(l)
  \/ InsertTag(l) \/ CheckLink(l) \/ InsertLink(l) \/ Raise(l)

\* What IdOf finds.
LEMMA HeldId ==
  ASSUME NEW u
  PROVE  /\ Holders(u) = {} => IdOf(u) = Nil
         /\ Holders(u) # {} => IdOf(u) \in Rows /\ url[IdOf(u)] = u
<1>1. ASSUME Holders(u) # {}
      PROVE  IdOf(u) \in Holders(u)
  <2> DEFINE c == CHOOSE i \in Holders(u) : TRUE
  <2>1. c \in Holders(u)
    BY <1>1, Zenon
  <2> QED
    BY <1>1, <2>1 DEF IdOf
<1> QED
  BY <1>1 DEF Holders, IdOf

\* A loop's state after one of its statements.
LEMMA LoopTyped ==
  ASSUME Types, NEW l \in Imports, Step(l)
  PROVE  /\ loop' \in LoopStates
         /\ \A m \in Imports \ {l} : loop'[m] = loop[m]
<1>r. loop[l] \in [pc : Places, rest : Seq(Urls), id : AllIds,
                   tags : SUBSET Tags, tag : Tags \cup {Nil}]
  BY DEF Types, LoopStates
<1>t. TagsOf[TaskOf[l]] \in SUBSET Tags
  OBVIOUS
<1>i. \A u \in Urls : IdOf(u) \in AllIds
  <2>1. Rows \subseteq Ids
    BY DEF Types, Ids
  <2> QED
    BY <2>1, HeldId DEF AllIds
<1>m. made + 1 \in AllIds \/ ~ made < MaxIds
  BY DEF Types, AllIds, Ids
<1>1. CASE Find(l)
  <2>1. Url(l) \in Urls
    BY <1>1, <1>r DEF Find, Url
  <2>2. loop' = [loop EXCEPT ![l].pc = IF Holders(Url(l)) = {} THEN "validate" ELSE "update",
                             ![l].id = IdOf(Url(l))]
    BY <1>1 DEF Find
  <2> QED
    BY <2>1, <2>2, <1>i, <1>r DEF LoopStates, Types, Places
<1>2. CASE UpdateRow(l)
  BY <1>2, <1>r, <1>t DEF UpdateRow, GoTag, TagsToSet, Id, LoopStates, Types, Places
<1>3. CASE Validate(l)
  <2>1. \/ loop' = [loop EXCEPT ![l].pc = "insert"]
        \/ loop' = [loop EXCEPT ![l].pc = "tags", ![l].id = Nil, ![l].tags = TagsOf[TaskOf[l]]]
    BY <1>3 DEF Validate, Goto, GoTag, TagsToSet
  <2>2. Nil \in AllIds /\ {"insert", "tags"} \subseteq Places /\ loop \in LoopStates
    BY DEF AllIds, Places, Types
  <2>a. CASE loop' = [loop EXCEPT ![l].pc = "insert"]
    BY <2>a, <2>2, <1>r DEF LoopStates
  <2>b. CASE loop' = [loop EXCEPT ![l].pc = "tags", ![l].id = Nil, ![l].tags = TagsOf[TaskOf[l]]]
    BY <2>b, <2>2, <1>r, <1>t DEF LoopStates
  <2> QED
    BY <2>1, <2>a, <2>b
<1>4. CASE Insert(l)
  <2>1. \/ loop' = [loop EXCEPT ![l].pc = "escaped"]
        \/ /\ made < MaxIds
           /\ loop' = [loop EXCEPT ![l].pc = "tags", ![l].id = made + 1, ![l].tags = TagsOf[TaskOf[l]]]
    BY <1>4 DEF Insert, Goto, GoTag, TagsToSet, IdRead
  <2>2. {"escaped", "tags"} \subseteq Places /\ loop \in LoopStates
    BY DEF AllIds, Places, Types
  <2>a. CASE loop' = [loop EXCEPT ![l].pc = "escaped"]
    BY <2>a, <2>2, <1>r DEF LoopStates
  <2>b. CASE /\ made + 1 \in AllIds
             /\ loop' = [loop EXCEPT ![l].pc = "tags", ![l].id = made + 1, ![l].tags = TagsOf[TaskOf[l]]]
    BY <2>b, <2>2, <1>r, <1>t DEF LoopStates
  <2> QED
    BY <2>1, <2>a, <2>b, <1>m
<1>5. CASE CheckTag(l)
  <2>1. PICK t \in loop[l].tags, p \in Places :
          loop' = [loop EXCEPT ![l].tags = @ \ {t}, ![l].tag = t, ![l].pc = p]
    <3> DEFINE p(t) == IF HasTag(l, t) THEN "tags" ELSE "insertTag"
    <3>1. \A t : p(t) \in Places
      BY DEF Places
    <3> QED
      BY <1>5, <3>1, Zenon DEF CheckTag
  <2> QED
    BY <2>1, <1>r DEF LoopStates, Types, Places
<1>6. CASE InsertTag(l)
  BY <1>6, <1>r DEF InsertTag, Goto, LoopStates, Types, Places
<1>7. CASE CheckLink(l)
  <2>1. loop[l].rest # <<>>
    BY <1>7 DEF CheckLink, At, Types
  <2>2. Tail(loop[l].rest) \in Seq(Urls)
    BY <2>1, <1>r
  <2>3. \/ loop' = [loop EXCEPT ![l].pc = "next", ![l].rest = Tail(@), ![l].id = Nil]
        \/ \E p \in Places : loop' = [loop EXCEPT ![l].pc = p]
    BY <1>7 DEF CheckLink, Through, Goto, Places
  <2>4. Nil \in AllIds /\ "next" \in Places /\ loop \in LoopStates
    BY DEF AllIds, Places, Types
  <2>a. CASE loop' = [loop EXCEPT ![l].pc = "next", ![l].rest = Tail(@), ![l].id = Nil]
    BY <2>a, <2>2, <2>4, <1>r DEF LoopStates
  <2>b. CASE \E p \in Places : loop' = [loop EXCEPT ![l].pc = p]
    <3> PICK p \in Places : loop' = [loop EXCEPT ![l].pc = p]
      BY <2>b
    <3> QED
      BY <2>4, <1>r DEF LoopStates
  <2> QED
    BY <2>3, <2>a, <2>b
<1>8. CASE InsertLink(l)
  <2>1. loop[l].rest # <<>>
    BY <1>8 DEF InsertLink, At, Types
  <2>2. Tail(loop[l].rest) \in Seq(Urls)
    BY <2>1, <1>r
  <2>3. \/ loop' = [loop EXCEPT ![l].pc = "next", ![l].rest = Tail(@), ![l].id = Nil]
        \/ \E p \in Places : loop' = [loop EXCEPT ![l].pc = p]
    BY <1>8 DEF InsertLink, Through, Goto, Places
  <2>4. Nil \in AllIds /\ "next" \in Places /\ loop \in LoopStates
    BY DEF AllIds, Places, Types
  <2>a. CASE loop' = [loop EXCEPT ![l].pc = "next", ![l].rest = Tail(@), ![l].id = Nil]
    BY <2>a, <2>2, <2>4, <1>r DEF LoopStates
  <2>b. CASE \E p \in Places : loop' = [loop EXCEPT ![l].pc = p]
    <3> PICK p \in Places : loop' = [loop EXCEPT ![l].pc = p]
      BY <2>b
    <3> QED
      BY <2>4, <1>r DEF LoopStates
  <2> QED
    BY <2>3, <2>a, <2>b
<1>9. CASE Raise(l)
  BY <1>9, <1>r DEF Raise, Goto, LoopStates, Types, Places
<1> QED
  BY <1>1, <1>2, <1>3, <1>4, <1>5, <1>6, <1>7, <1>8, <1>9 DEF Step

\* The facts of Types about one loop.
LoopFacts(l) ==
  /\ Id(l) \in {Nil} \cup 1..made
  /\ loop[l].tags \subseteq TagsOf[TaskOf[l]]
  /\ At(l, "insertTag") => loop[l].tag \in TagsOf[TaskOf[l]]
  /\ loop[l].pc \notin {"next", "escaped"} => loop[l].rest # <<>>

\* The database keeps its types, and no id is used again.
LEMMA TablesTyped ==
  ASSUME Types, Next
  PROVE  /\ made' \in 0..MaxIds /\ made' \in made..(made + 1)
         /\ Rows' \subseteq 1..made' /\ \A i \in Rows' : url'[i] \in Urls
         /\ tagged' \in [Tags \X AllIds -> Nat] /\ links' \in [Tasks \X AllIds -> Nat]
<1>1. ASSUME NEW l \in Imports, Step(l)
      PROVE  /\ made' \in 0..MaxIds /\ made' \in made..(made + 1)
             /\ Rows' \subseteq 1..made' /\ \A i \in Rows' : url'[i] \in Urls
             /\ tagged' \in [Tags \X AllIds -> Nat] /\ links' \in [Tasks \X AllIds -> Nat]
  <2>0. loop[l] \in [pc : Places, rest : Seq(Urls), id : AllIds,
                     tags : SUBSET Tags, tag : Tags \cup {Nil}]
    BY DEF Types, LoopStates
  <2>1. CASE Insert(l)
    <3>0. loop[l].rest # <<>> /\ loop[l].rest \in Seq(Urls)
      BY <2>0, <2>1 DEF Insert, Types, At
    <3>1. Url(l) \in Urls
      BY <3>0 DEF Url
    <3>2. UNCHANGED <<url, made>> \/ (/\ made < MaxIds /\ made' = made + 1
                                      /\ url' = [i \in Rows \cup {made + 1} |->
                                                   IF i \in Rows THEN url[i] ELSE Url(l)])
      BY <2>1 DEF Insert
    <3>3. UNCHANGED <<tagged, links>>
      BY <2>1 DEF Insert
    <3> QED
      BY <3>1, <3>2, <3>3 DEF Types, Rows
  <2>2. CASE InsertTag(l)
    <3>1. loop[l].tag \in Tags /\ Id(l) \in AllIds
      BY <2>2, <2>0 DEF InsertTag, Types, At, Id
    <3>2. tagged' = [tagged EXCEPT ![<<loop[l].tag, Id(l)>>] = @ + 1] /\ UNCHANGED <<url, made, links>>
      BY <2>2 DEF InsertTag
    <3> QED
      BY <3>1, <3>2 DEF Types, Rows
  <2>3. CASE InsertLink(l)
    <3>1. TaskOf[l] \in Tasks /\ Id(l) \in AllIds
      BY <2>0 DEF Id
    <3>2. \/ links' = [links EXCEPT ![<<TaskOf[l], Id(l)>>] = @ + 1]
          \/ links' = links
      BY <2>3 DEF InsertLink
    <3>3. UNCHANGED <<url, made, tagged>>
      BY <2>3 DEF InsertLink
    <3>4. links' \in [Tasks \X AllIds -> Nat]
      <4>1. links \in [Tasks \X AllIds -> Nat]
        BY DEF Types
      <4>a. CASE links' = [links EXCEPT ![<<TaskOf[l], Id(l)>>] = @ + 1]
        BY <3>1, <4>a, <4>1
      <4>b. CASE links' = links
        BY <4>b, <4>1
      <4> QED
        BY <3>2, <4>a, <4>b
    <3> QED
      BY <3>3, <3>4 DEF Types, Rows
  <2>4. CASE UNCHANGED <<url, made, tagged, links>>
    BY <2>4 DEF Types, Rows
  <2>5. Insert(l) \/ InsertTag(l) \/ InsertLink(l) \/ UNCHANGED <<url, made, tagged, links>>
    <3>1. Find(l) => UNCHANGED <<url, made, tagged, links>>
      BY DEF Find
    <3>2. UpdateRow(l) \/ Raise(l) => UNCHANGED <<url, made, tagged, links>>
      BY DEF UpdateRow, Raise
    <3>3. Validate(l) => UNCHANGED <<url, made, tagged, links>>
      BY DEF Validate
    <3>4. CheckTag(l) => UNCHANGED <<url, made, tagged, links>>
      BY DEF CheckTag
    <3>5. CheckLink(l) => UNCHANGED <<url, made, tagged, links>>
      BY DEF CheckLink
    <3> QED
      BY <1>1, <3>1, <3>2, <3>3, <3>4, <3>5 DEF Step
  <2> QED
    BY <2>1, <2>2, <2>3, <2>4, <2>5
<1>2. ASSUME NEW i \in Ids, Delete(i)
      PROVE  /\ made' \in 0..MaxIds /\ made' \in made..(made + 1)
             /\ Rows' \subseteq 1..made' /\ \A j \in Rows' : url'[j] \in Urls
             /\ tagged' \in [Tags \X AllIds -> Nat] /\ links' \in [Tasks \X AllIds -> Nat]
  BY <1>2 DEF Delete, Untagged, Types, Rows
<1> QED
  BY <1>1, <1>2 DEF Next, Step

\* The step of a loop keeps the facts about it.
LEMMA OwnFacts ==
  ASSUME Types, NEW l \in Imports, Step(l)
  PROVE  LoopFacts(l)'
<1>r. loop[l] \in [pc : Places, rest : Seq(Urls), id : AllIds,
                   tags : SUBSET Tags, tag : Tags \cup {Nil}]
  BY DEF Types, LoopStates
<1>f. LoopFacts(l) /\ loop \in LoopStates /\ made \in Nat
  BY DEF Types, LoopFacts
<1>1. CASE Find(l)
  <2>1. IdOf(Url(l)) \in {Nil} \cup 1..made
    BY HeldId DEF Types
  <2>2. loop'[l].id = IdOf(Url(l)) /\ loop'[l].tags = loop[l].tags /\ loop'[l].rest = loop[l].rest
    BY <1>1, <1>r, <1>f DEF Find, LoopStates
  <2>3. loop'[l].pc # "insertTag" /\ loop[l].rest # <<>> /\ made' = made
    BY <1>1, <1>r, <1>f DEF Find, LoopStates
  <2> QED
    BY <2>1, <2>2, <2>3, <1>f DEF LoopFacts, Id, At
<1>2. CASE UpdateRow(l)
  BY <1>2, <1>r, <1>f DEF UpdateRow, GoTag, TagsToSet, LoopFacts, Id, At, LoopStates
<1>3. CASE Validate(l)
  <2>1. \/ loop' = [loop EXCEPT ![l].pc = "insert"]
        \/ loop' = [loop EXCEPT ![l].pc = "tags", ![l].id = Nil, ![l].tags = TagsOf[TaskOf[l]]]
    BY <1>3 DEF Validate, Goto, GoTag, TagsToSet
  <2>2. At(l, "validate") /\ made' = made
    BY <1>3 DEF Validate
  <2> QED
    BY <2>1, <2>2, <1>r, <1>f DEF LoopFacts, Id, At, LoopStates
<1>4. CASE Insert(l)
  <2>1. \/ /\ loop' = [loop EXCEPT ![l].pc = "escaped"] /\ made' = made
        \/ /\ made' = made + 1
           /\ loop' = [loop EXCEPT ![l].pc = "tags", ![l].id = made + 1, ![l].tags = TagsOf[TaskOf[l]]]
    BY <1>4 DEF Insert, Goto, GoTag, TagsToSet, IdRead
  <2>2. At(l, "insert")
    BY <1>4 DEF Insert
  <2> QED
    BY <2>1, <2>2, <1>r, <1>f DEF LoopFacts, Id, At, LoopStates
<1>5. CASE CheckTag(l)
  <2>1. PICK t \in loop[l].tags, p \in {"tags", "insertTag"} :
          loop' = [loop EXCEPT ![l].tags = @ \ {t}, ![l].tag = t, ![l].pc = p]
    BY <1>5, Zenon DEF CheckTag
  <2>2. At(l, "tags") /\ made' = made
    BY <1>5 DEF CheckTag
  <2>3. /\ loop'[l].id = loop[l].id /\ loop'[l].rest = loop[l].rest
        /\ loop'[l].tags \subseteq loop[l].tags /\ loop'[l].tag \in loop[l].tags
    BY <2>1, <1>r, <1>f DEF LoopStates
  <2> QED
    BY <2>2, <2>3, <1>f DEF LoopFacts, Id, At
<1>6. CASE InsertTag(l)
  BY <1>6, <1>r, <1>f DEF InsertTag, Goto, LoopFacts, Id, At, LoopStates
<1>7. CASE CheckLink(l) \/ InsertLink(l)
  <2>1. \/ loop' = [loop EXCEPT ![l].pc = "next", ![l].rest = Tail(@), ![l].id = Nil]
        \/ loop' = [loop EXCEPT ![l].pc = "insertLink"]
        \/ loop' = [loop EXCEPT ![l].pc = "escaped"]
    BY <1>7 DEF CheckLink, InsertLink, Through, Goto
  <2>2. (At(l, "tags") \/ At(l, "insertLink")) /\ made' = made
    BY <1>7 DEF CheckLink, InsertLink
  <2>3. /\ loop'[l].id \in {Nil, loop[l].id} /\ loop'[l].tags = loop[l].tags
        /\ loop'[l].pc \in {"next", "insertLink", "escaped"}
        /\ loop'[l].pc = "insertLink" => loop'[l].rest = loop[l].rest
    BY <2>1, <1>r, <1>f DEF LoopStates
  <2> QED
    BY <2>2, <2>3, <1>f DEF LoopFacts, Id, At
<1>9. CASE Raise(l)
  BY <1>9, <1>r, <1>f DEF Raise, Goto, LoopFacts, Id, At, LoopStates
<1> QED
  BY <1>1, <1>2, <1>3, <1>4, <1>5, <1>6, <1>7, <1>9 DEF Step

LEMMA TypesStep ==
  ASSUME Types, Next
  PROVE  Types'
<1>1. ASSUME NEW l \in Imports, Step(l)
      PROVE  loop' \in LoopStates /\ \A m \in Imports : LoopFacts(m)'
  <2>1. \A m \in Imports \ {l} : LoopFacts(m)'
    BY <1>1, LoopTyped, TablesTyped DEF Types, LoopFacts, Id, At
  <2> QED
    BY <1>1, <2>1, LoopTyped, OwnFacts
<1>2. ASSUME NEW i \in Ids, Delete(i)
      PROVE  loop' \in LoopStates /\ \A m \in Imports : LoopFacts(m)'
  BY <1>2 DEF Delete, Types, LoopFacts, Id, At, LoopStates
<1>3. loop' \in LoopStates /\ \A m \in Imports : LoopFacts(m)'
  BY <1>1, <1>2 DEF Next, Step
<1> QED
  BY <1>3, TablesTyped DEF Types, LoopFacts

-----------------------------------------------------------------------------
(* What no step takes away                                                 *)

\* A counter that is increased, or set to zero for one id.
LEMMA Increased ==
  ASSUME NEW S, NEW T, NEW f \in [S \X T -> Nat], NEW a, NEW b, NEW s \in S, NEW t \in T
  PROVE  [f EXCEPT ![<<a, b>>] = @ + 1][<<s, t>>] =
           IF s = a /\ t = b THEN f[<<s, t>>] + 1 ELSE f[<<s, t>>]
<1>1. <<s, t>> \in DOMAIN f
  OBVIOUS
<1>2. <<s, t>> = <<a, b>> <=> s = a /\ t = b
  OBVIOUS
<1> QED
  BY <1>1, <1>2

LEMMA Cleared ==
  ASSUME NEW S, NEW T, NEW f \in [S \X T -> Nat], NEW d, NEW s \in S, NEW t \in T
  PROVE  [x \in DOMAIN f |-> IF x[2] = d THEN 0 ELSE f[x]][<<s, t>>] =
           IF t = d THEN 0 ELSE f[<<s, t>>]
<1>1. <<s, t>> \in DOMAIN f
  OBVIOUS
<1> QED
  BY <1>1

\* A row that people leave alone stays, and so do its taggings and its links.
Stays(i) ==
  /\ i \in Rows' /\ url'[i] = url[i]
  /\ \A t \in Tags : tagged[<<t, i>>] > 0 => tagged'[<<t, i>>] > 0
  /\ \A k \in Tasks : links[<<k, i>>] > 0 => links'[<<k, i>>] > 0

LEMMA RowsStay ==
  ASSUME Types, Next
  PROVE  /\ \A i \in Rows : Stays(i) \/ \E gone \in deleted' : gone.url = url[i]
         /\ deleted \subseteq deleted' /\ refused \subseteq refused'
<1>0. Rows \subseteq Ids /\ Ids \subseteq AllIds /\ made + 1 \notin Rows
  BY DEF Types, Ids, AllIds
<1>t. /\ tagged \in [Tags \X AllIds -> Nat] /\ links \in [Tasks \X AllIds -> Nat]
      /\ tagged' \in [Tags \X AllIds -> Nat] /\ links' \in [Tasks \X AllIds -> Nat]
  BY TablesTyped DEF Types
<1>1. ASSUME NEW l \in Imports, Step(l)
      PROVE  /\ \A i \in Rows : Stays(i)
             /\ deleted' = deleted /\ refused \subseteq refused'
  <2>1. UNCHANGED tagged \/ tagged' = [tagged EXCEPT ![<<loop[l].tag, Id(l)>>] = @ + 1]
    BY <1>1 DEF Step, Find, UpdateRow, Validate, Insert, CheckTag, InsertTag, CheckLink,
                InsertLink, Raise
  <2>2. UNCHANGED links \/ links' = [links EXCEPT ![<<TaskOf[l], Id(l)>>] = @ + 1]
    BY <1>1 DEF Step, Find, UpdateRow, Validate, Insert, CheckTag, InsertTag, CheckLink,
                InsertLink, Raise
  <2>3. UNCHANGED url \/ url' = [i \in Rows \cup {made + 1} |-> IF i \in Rows THEN url[i] ELSE Url(l)]
    BY <1>1 DEF Step, Find, UpdateRow, Validate, Insert, CheckTag, InsertTag, CheckLink,
                InsertLink, Raise
  <2>4. deleted' = deleted /\ refused \subseteq refused'
    BY <1>1 DEF Step, Find, UpdateRow, Validate, Insert, CheckTag, InsertTag, CheckLink,
                InsertLink, Raise
  <2>5. \A t \in Tags, i \in AllIds : tagged'[<<t, i>>] >= tagged[<<t, i>>]
    <3> TAKE t \in Tags, i \in AllIds
    <3>1. tagged[<<t, i>>] \in Nat
      BY <1>t
    <3>2. tagged' = [tagged EXCEPT ![<<loop[l].tag, Id(l)>>] = @ + 1] =>
            tagged'[<<t, i>>] \in {tagged[<<t, i>>], tagged[<<t, i>>] + 1}
      BY <1>t, Increased
    <3> QED
      BY <3>1, <3>2, <2>1
  <2>6. \A k \in Tasks, i \in AllIds : links'[<<k, i>>] >= links[<<k, i>>]
    <3> TAKE k \in Tasks, i \in AllIds
    <3>1. links[<<k, i>>] \in Nat
      BY <1>t
    <3>2. links' = [links EXCEPT ![<<TaskOf[l], Id(l)>>] = @ + 1] =>
            links'[<<k, i>>] \in {links[<<k, i>>], links[<<k, i>>] + 1}
      BY <1>t, Increased
    <3> QED
      BY <3>1, <3>2, <2>2
  <2>7. \A i \in Rows : i \in Rows' /\ url'[i] = url[i]
    BY <2>3 DEF Rows
  <2>8. \A i \in Rows, t \in Tags : tagged[<<t, i>>] > 0 => tagged'[<<t, i>>] > 0
    BY <2>5, <1>0, <1>t
  <2>9. \A i \in Rows, k \in Tasks : links[<<k, i>>] > 0 => links'[<<k, i>>] > 0
    BY <2>6, <1>0, <1>t
  <2> QED
    BY <2>4, <2>7, <2>8, <2>9 DEF Stays
<1>2. ASSUME NEW d \in Ids, Delete(d)
      PROVE  /\ \A i \in Rows : Stays(i) \/ \E gone \in deleted' : gone.url = url[i]
             /\ deleted \subseteq deleted' /\ refused' = refused
  <2> DEFINE row == [id |-> d, url |-> url[d], linked |-> Linked(d), at |-> LoopsAt(d)]
  <2>0. deleted' = deleted \cup {row} /\ row.url = url[d] /\ refused' = refused
    BY <1>2 DEF Delete
  <2> HIDE DEF row
  <2>1. (\E gone \in deleted' : gone.url = url[d]) /\ deleted \subseteq deleted' /\ refused' = refused
    BY <2>0
  <2>2. \A i \in Rows \ {d} : i \in Rows' /\ url'[i] = url[i]
    BY <1>2 DEF Delete, Rows
  <2>3. links' = links /\ tagged' = [x \in DOMAIN tagged |-> IF x[2] = d THEN 0 ELSE tagged[x]]
    BY <1>2 DEF Delete, Untagged
  <2>4. \A t \in Tags, i \in AllIds \ {d} : tagged'[<<t, i>>] = tagged[<<t, i>>]
    BY <2>3, <1>t, Cleared
  <2>5. \A i \in Rows \ {d} : Stays(i)
    BY <2>2, <2>3, <2>4, <1>0 DEF Stays
  <2> QED
    BY <2>1, <2>5
<1> QED
  BY <1>1, <1>2 DEF Next, Step

LEMMA DisturbedStays ==
  ASSUME Types, Next
  PROVE  \A l \in Imports, u \in Urls : Undisturbed(l, u)' => Undisturbed(l, u)
BY RowsStay DEF Undisturbed, WasDeleted

\* Next, as the step of a loop, which takes no row away, or a deletion.
LEMMA StepOrDelete ==
  ASSUME Types, Next
  PROVE  \/ \E l \in Imports : Step(l) /\ deleted' = deleted /\ Rows \subseteq Rows' /\ refused \subseteq refused'
         \/ \E i \in Ids : Delete(i)
<1>1. ASSUME NEW l \in Imports, Step(l)
      PROVE  deleted' = deleted /\ refused \subseteq refused' /\ Rows \subseteq Rows'
  <2>1. UNCHANGED url \/ url' = [i \in Rows \cup {made + 1} |-> IF i \in Rows THEN url[i] ELSE Url(l)]
    BY <1>1 DEF Step, Find, UpdateRow, Validate, Insert, CheckTag, InsertTag, CheckLink,
                InsertLink, Raise
  <2>2. deleted' = deleted /\ refused \subseteq refused'
    BY <1>1 DEF Step, Find, UpdateRow, Validate, Insert, CheckTag, InsertTag, CheckLink,
                InsertLink, Raise
  <2> QED
    BY <2>1, <2>2 DEF Rows
<1>2. (\E l \in Imports : Step(l)) \/ \E i \in Ids : Delete(i)
  BY DEF Next, Step
<1> QED
  BY <1>1, <1>2

\* What is known of the row that a loop works on stays known.
LEMMA KnownStays ==
  ASSUME Types, Next, NEW l \in Imports, Working(l), Known(l, Id(l))
  PROVE  Known(l, Id(l))' \/ Id(l)' # Id(l)
<1>1. ASSUME Rows \subseteq Rows', deleted' = deleted, refused \subseteq refused', Id(l)' = Id(l)
      PROVE  Known(l, Id(l))'
  BY <1>1 DEF Known
<1>2. ASSUME NEW i \in Ids, Delete(i), Id(l)' = Id(l)
      PROVE  Known(l, Id(l))'
  <2> DEFINE gone == [id |-> i, url |-> url[i], linked |-> Linked(i), at |-> LoopsAt(i)]
  <2>1. deleted' = deleted \cup {gone} /\ Rows' = Rows \ {i} /\ refused' = refused
    BY <1>2 DEF Delete, Rows
  <2>2. CASE Id(l) = i
    <3>1. l \in LoopsAt(i)
      BY <2>2 DEF LoopsAt, Working, At
    <3>2. gone.id = i /\ l \in gone.at /\ gone \in deleted'
      BY <2>1, <3>1
    <3> QED
      BY <1>2, <2>2, <3>2 DEF Known
  <2>3. CASE Id(l) # i
    BY <1>2, <2>1, <2>3 DEF Known
  <2> QED
    BY <2>2, <2>3
<1> QED
  BY <1>1, <1>2, StepOrDelete

-----------------------------------------------------------------------------
(* The unique indexes                                                      *)

LEMMA OneRowStep ==
  ASSUME Types, OneRow, Next
  PROVE  OneRow'
<1>1. ASSUME NEW l \in Imports, Step(l)
      PROVE  OneRow'
  <2>1. UNCHANGED url \/ (/\ Holders(Url(l)) = {}
                          /\ url' = [i \in Rows \cup {made + 1} |->
                                       IF i \in Rows THEN url[i] ELSE Url(l)])
    BY <1>1 DEF Step, Find, UpdateRow, Validate, Insert, UrlTaken, CheckTag, InsertTag, CheckLink,
                InsertLink, Raise
  <2> QED
    BY <2>1 DEF OneRow, Rows, Holders
<1>2. ASSUME NEW d \in Ids, Delete(d)
      PROVE  OneRow'
  BY <1>2 DEF Delete, OneRow, Rows
<1> QED
  BY <1>1, <1>2 DEF Next, Step

LEMMA OneLinkStep ==
  ASSUME Types, OneLink, Next
  PROVE  OneLink'
<1>0. links \in [Tasks \X AllIds -> Nat] /\ Nil \notin Ids /\ Ids \subseteq AllIds
  BY DEF Types, Ids, AllIds
<1>1. ASSUME NEW l \in Imports, InsertLink(l)
      PROVE  OneLink'
  <2>1. CASE UNCHANGED links
    BY <2>1 DEF OneLink
  <2>2. CASE /\ ~ LinkTaken(TaskOf[l], Id(l))
             /\ links' = [links EXCEPT ![<<TaskOf[l], Id(l)>>] = @ + 1]
    <3> SUFFICES ASSUME NEW k \in Tasks, NEW i \in Ids
                 PROVE  links'[<<k, i>>] <= 1
      BY DEF OneLink
    <3>1. links'[<<k, i>>] = IF k = TaskOf[l] /\ i = Id(l) THEN links[<<k, i>>] + 1 ELSE links[<<k, i>>]
      BY <2>2, <1>0, Increased
    <3>2. links[<<k, i>>] \in Nat /\ links[<<k, i>>] <= 1
      BY <1>0 DEF OneLink
    <3>3. k = TaskOf[l] /\ i = Id(l) => ~ links[<<k, i>>] > 0
      BY <2>2, <1>0 DEF LinkTaken
    <3> QED
      BY <3>1, <3>2, <3>3
  <2> QED
    BY <1>1, <2>1, <2>2 DEF InsertLink
<1>2. CASE UNCHANGED links
  BY <1>2 DEF OneLink
<1>3. (\E l \in Imports : InsertLink(l)) \/ UNCHANGED links
  BY DEF Next, Find, UpdateRow, Validate, Insert, CheckTag, InsertTag, CheckLink, Raise, Delete
<1> QED
  BY <1>1, <1>2, <1>3

-----------------------------------------------------------------------------
(* What a loop works on                                                    *)

\* How a loop comes to work on an id: it did before; Find met the row; the
\* save was refused; Insert made the row.
LEMMA Arrivals ==
  ASSUME Types, NEW l \in Imports, Step(l), Working(l)'
  PROVE  /\ loop'[l].rest = loop[l].rest /\ Url(l) \in Urls
         /\ \/ Working(l) /\ Id(l)' = Id(l)
            \/ Id(l)' \in Rows /\ url[Id(l)'] = Url(l) /\ url' = url
            \/ Id(l)' = Nil /\ <<l, Url(l)>> \in refused'
            \/ Id(l)' \in Rows' /\ url'[Id(l)'] = Url(l)
<1>r. loop[l] \in [pc : Places, rest : Seq(Urls), id : AllIds,
                   tags : SUBSET Tags, tag : Tags \cup {Nil}]
  BY DEF Types, LoopStates
<1>f. loop \in LoopStates /\ made \in Nat /\ made + 1 \notin Rows
  BY DEF Types
<1>u. ASSUME loop[l].rest # <<>>
      PROVE  Url(l) \in Urls
  BY <1>u, <1>r DEF Url
<1>p. loop'[l].pc \in {"update", "tags", "insertTag", "insertLink"}
  BY DEF Working
<1>1. CASE Find(l)
  <2>1. /\ loop'[l].pc = IF Holders(Url(l)) = {} THEN "validate" ELSE "update"
        /\ loop'[l].id = IdOf(Url(l)) /\ loop'[l].rest = loop[l].rest
    BY <1>1, <1>r, <1>f DEF Find, LoopStates
  <2>2. loop[l].rest # <<>> /\ url' = url
    BY <1>1 DEF Find
  <2>3. Holders(Url(l)) # {}
    BY <1>p, <2>1
  <2> QED
    BY <2>1, <2>2, <2>3, <1>u, HeldId DEF Id
<1>2. CASE UpdateRow(l) \/ CheckTag(l) \/ InsertTag(l)
  <2>1. Working(l) /\ loop[l].rest # <<>>
    BY <1>2 DEF UpdateRow, CheckTag, InsertTag, Working, At, Types
  <2>2. CASE UpdateRow(l)
    BY <2>1, <2>2, <1>r, <1>f, <1>u DEF UpdateRow, GoTag, LoopStates, Id
  <2>3. CASE CheckTag(l)
    <3>1. PICK t \in loop[l].tags, p \in {"tags", "insertTag"} :
            loop' = [loop EXCEPT ![l].tags = @ \ {t}, ![l].tag = t, ![l].pc = p]
      BY <2>3, Zenon DEF CheckTag
    <3> QED
      BY <2>1, <3>1, <1>r, <1>f, <1>u DEF LoopStates, Id
  <2>4. CASE InsertTag(l)
    BY <2>1, <2>4, <1>r, <1>f, <1>u DEF InsertTag, Goto, LoopStates, Id
  <2> QED
    BY <1>2, <2>2, <2>3, <2>4
<1>3. CASE Validate(l)
  <2>1. \/ loop' = [loop EXCEPT ![l].pc = "insert"]
        \/ /\ loop' = [loop EXCEPT ![l].pc = "tags", ![l].id = Nil, ![l].tags = TagsOf[TaskOf[l]]]
           /\ <<l, Url(l)>> \in refused'
    BY <1>3 DEF Validate, Goto, GoTag, TagsToSet
  <2>2. loop[l].rest # <<>>
    BY <1>3 DEF Validate, At, Types
  <2> QED
    BY <1>p, <2>1, <2>2, <1>r, <1>f, <1>u DEF LoopStates, Id
<1>4. CASE Insert(l)
  <2>1. \/ /\ loop' = [loop EXCEPT ![l].pc = "escaped"]
        \/ /\ loop' = [loop EXCEPT ![l].pc = "tags", ![l].id = made + 1, ![l].tags = TagsOf[TaskOf[l]]]
           /\ url' = [i \in Rows \cup {made + 1} |-> IF i \in Rows THEN url[i] ELSE Url(l)]
    BY <1>4 DEF Insert, Goto, GoTag, TagsToSet, IdRead
  <2>2. loop[l].rest # <<>>
    BY <1>4 DEF Insert, At, Types
  <2>3. loop'[l].id = made + 1 /\ loop'[l].rest = loop[l].rest
    BY <1>p, <2>1, <1>r, <1>f DEF LoopStates
  <2>4. made + 1 \in Rows' /\ url'[made + 1] = Url(l)
    BY <1>p, <2>1, <1>r, <1>f DEF LoopStates, Rows
  <2> QED
    BY <2>2, <2>3, <2>4, <1>u DEF Id
<1>7. CASE CheckLink(l) \/ InsertLink(l)
  <2>1. \/ loop' = [loop EXCEPT ![l].pc = "next", ![l].rest = Tail(@), ![l].id = Nil]
        \/ loop' = [loop EXCEPT ![l].pc = "insertLink"]
        \/ loop' = [loop EXCEPT ![l].pc = "escaped"]
    BY <1>7 DEF CheckLink, InsertLink, Through, Goto
  <2>2. Working(l) /\ loop[l].rest # <<>>
    BY <1>7 DEF CheckLink, InsertLink, Working, At, Types
  <2>3. loop' = [loop EXCEPT ![l].pc = "insertLink"]
    BY <2>1, <1>p, <1>r, <1>f DEF LoopStates
  <2> QED
    BY <2>2, <2>3, <1>r, <1>f, <1>u DEF LoopStates, Id
<1>9. CASE Raise(l)
  BY <1>9, <1>p, <1>r, <1>f DEF Raise, Goto, LoopStates
<1> QED
  BY <1>1, <1>2, <1>3, <1>4, <1>7, <1>9 DEF Step

\* Whoever moves, it is the loop itself or it stands still.
LEMMA MovesOrNot ==
  ASSUME Types, Next, NEW m \in Imports
  PROVE  Step(m) \/ loop'[m] = loop[m]
<1>1. ASSUME NEW l \in Imports, Step(l), l # m
      PROVE  loop'[m] = loop[m]
  BY <1>1, LoopTyped
<1>2. (\E l \in Imports : Step(l)) \/ loop' = loop
  BY DEF Next, Step, Delete
<1> QED
  BY <1>1, <1>2

LEMMA IdsKnownStep ==
  ASSUME Types, IdsKnown, Next
  PROVE  IdsKnown'
<1> SUFFICES ASSUME NEW m \in Imports, Working(m)'
             PROVE  Known(m, Id(m))'
  BY DEF IdsKnown
<1>1. CASE loop'[m] = loop[m]
  <2>1. Working(m) /\ Id(m)' = Id(m)
    BY <1>1 DEF Working, Id
  <2> QED
    BY <2>1, KnownStays DEF IdsKnown
<1>2. CASE Step(m)
  <2>1. Working(m) /\ Id(m)' = Id(m) => Known(m, Id(m))'
    BY KnownStays DEF IdsKnown
  <2>2. Id(m)' \in Rows' => Known(m, Id(m))'
    BY DEF Known
  <2>3. url' = url => Rows' = Rows
    BY DEF Rows
  <2>4. ASSUME Id(m)' = Nil, <<m, Url(m)>> \in refused'
        PROVE  Known(m, Id(m))'
    <3>1. <<m, Url(m)>>[1] = m
      OBVIOUS
    <3> QED
      BY <2>4, <3>1 DEF Known
  <2> QED
    BY <1>2, <2>1, <2>2, <2>3, <2>4, Arrivals
<1> QED
  BY <1>1, <1>2, MovesOrNot

LEMMA WorksOnRowStep ==
  ASSUME Types, WorksOnRow, Next
  PROVE  WorksOnRow'
<1> SUFFICES ASSUME NEW m \in Imports, Working(m)', Undisturbed(m, Url(m))'
             PROVE  Id(m)' \in Rows' /\ url'[Id(m)'] = Url(m)'
  BY DEF WorksOnRow
<1>0. ASSUME Url(m) \in Urls, Url(m)' = Url(m), Id(m)' \in Rows, url[Id(m)'] = Url(m)
      PROVE  Id(m)' \in Rows' /\ url'[Id(m)'] = Url(m)'
  <2>1. ~ \E gone \in deleted' : gone.url = Url(m)
    BY <1>0 DEF Undisturbed, WasDeleted
  <2>2. Stays(Id(m)')
    BY <1>0, <2>1, RowsStay
  <2> QED
    BY <1>0, <2>2 DEF Stays
<1>1. CASE loop'[m] = loop[m]
  <2>1. Working(m) /\ Id(m)' = Id(m) /\ Url(m)' = Url(m) /\ loop[m].rest # <<>>
    BY <1>1 DEF Working, Id, Url, Types
  <2>2. Url(m) \in Urls
    BY <2>1 DEF Types, LoopStates, Url
  <2>3. Undisturbed(m, Url(m))
    BY <2>1, <2>2, DisturbedStays DEF Undisturbed
  <2> QED
    BY <1>0, <2>1, <2>2, <2>3 DEF WorksOnRow
<1>2. CASE Step(m)
  <2>1. Url(m)' = Url(m) /\ Url(m) \in Urls
    BY <1>2, Arrivals DEF Url
  <2>2. Undisturbed(m, Url(m)) /\ <<m, Url(m)>> \notin refused'
    BY <2>1, DisturbedStays DEF Undisturbed
  <2>3. Working(m) /\ Id(m)' = Id(m) => Id(m)' \in Rows /\ url[Id(m)'] = Url(m)
    BY <2>2 DEF WorksOnRow
  <2> QED
    BY <1>0, <1>2, <2>1, <2>2, <2>3, Arrivals
<1> QED
  BY <1>1, <1>2, MovesOrNot

-----------------------------------------------------------------------------
(* What a loop has done                                                    *)

\* How a tag comes to be behind a loop: it was; the result has it; or the loop
\* inserted it.
LEMMA Behinds ==
  ASSUME Types, NEW l \in Imports, Step(l), NEW t \in Behind(l)'
  PROVE  /\ Working(l) /\ Id(l)' = Id(l)
         /\ t \in Behind(l) \/ tagged'[<<t, Id(l)>>] > 0
<1>r. loop[l] \in [pc : Places, rest : Seq(Urls), id : AllIds,
                   tags : SUBSET Tags, tag : Tags \cup {Nil}]
  BY DEF Types, LoopStates
<1>f. loop \in LoopStates /\ tagged \in [Tags \X AllIds -> Nat]
  BY DEF Types
<1>p. /\ loop'[l].pc \in {"tags", "insertTag", "insertLink"}
      /\ t \in TagsOf[TaskOf[l]] /\ t \notin loop'[l].tags
      /\ loop'[l].pc = "insertTag" => t # loop'[l].tag
  BY DEF Behind, At
<1>b. ASSUME loop[l].pc \in {"tags", "insertTag", "insertLink"}, t \notin loop[l].tags,
             loop[l].pc = "insertTag" => t # loop[l].tag
      PROVE  t \in Behind(l)
  BY <1>b, <1>p DEF Behind, At
<1>1. CASE Find(l)
  <2>1. loop'[l].pc \in {"validate", "update"}
    BY <1>1, <1>r, <1>f DEF Find, LoopStates
  <2> QED
    BY <2>1, <1>p
<1>2. CASE UpdateRow(l) \/ Insert(l) \/ Validate(l)
  <2>1. loop'[l].pc = "tags" => loop'[l].tags = TagsOf[TaskOf[l]]
    <3>1. CASE UpdateRow(l)
      BY <3>1, <1>r, <1>f DEF UpdateRow, GoTag, TagsToSet, LoopStates
    <3>2. CASE Insert(l)
      <4>1. \/ loop' = [loop EXCEPT ![l].pc = "escaped"]
            \/ loop' = [loop EXCEPT ![l].pc = "tags", ![l].id = made + 1, ![l].tags = TagsOf[TaskOf[l]]]
        BY <3>2 DEF Insert, Goto, GoTag, TagsToSet, IdRead
      <4> QED
        BY <4>1, <1>r, <1>f DEF LoopStates
    <3>3. CASE Validate(l)
      <4>1. \/ loop' = [loop EXCEPT ![l].pc = "insert"]
            \/ loop' = [loop EXCEPT ![l].pc = "tags", ![l].id = Nil, ![l].tags = TagsOf[TaskOf[l]]]
        BY <3>3 DEF Validate, Goto, GoTag, TagsToSet
      <4> QED
        BY <4>1, <1>r, <1>f DEF LoopStates
    <3> QED
      BY <1>2, <3>1, <3>2, <3>3
  <2>2. loop'[l].pc \in {"tags", "insert", "escaped"}
    BY <1>2, <1>r, <1>f DEF UpdateRow, Insert, Validate, Goto, GoTag, LoopStates
  <2> QED
    BY <2>1, <2>2, <1>p
<1>5. CASE CheckTag(l)
  <2>1. PICK c \in loop[l].tags :
          /\ loop' = [loop EXCEPT ![l].tags = @ \ {c}, ![l].tag = c,
                        ![l].pc = IF HasTag(l, c) THEN "tags" ELSE "insertTag"]
          /\ tagged' = tagged
    BY <1>5, Zenon DEF CheckTag
  <2>2. /\ loop'[l].tags = loop[l].tags \ {c} /\ loop'[l].tag = c /\ loop'[l].id = loop[l].id
        /\ loop'[l].pc = IF HasTag(l, c) THEN "tags" ELSE "insertTag"
    BY <2>1, <1>r, <1>f DEF LoopStates
  <2>3. loop[l].pc = "tags"
    BY <1>5 DEF CheckTag, At
  <2>4. CASE t = c
    BY <2>1, <2>2, <2>3, <2>4, <1>p DEF HasTag, Id, Working
  <2>5. CASE t # c
    BY <2>2, <2>3, <2>5, <1>p, <1>b DEF Id, Working
  <2> QED
    BY <2>4, <2>5
<1>6. CASE InsertTag(l)
  <2>1. /\ loop[l].pc = "insertTag" /\ loop'[l].tags = loop[l].tags /\ loop'[l].id = loop[l].id
        /\ tagged' = [tagged EXCEPT ![<<loop[l].tag, Id(l)>>] = @ + 1]
    BY <1>6, <1>r, <1>f DEF InsertTag, At, Goto, LoopStates
  <2>2. t \in Tags /\ Id(l) \in AllIds
    BY <1>p, <1>r DEF Id
  <2>3. t = loop[l].tag => tagged'[<<t, Id(l)>>] = tagged[<<t, Id(l)>>] + 1
    BY <2>1, <2>2, <1>f, Increased
  <2>4. tagged[<<t, Id(l)>>] \in Nat
    BY <2>2, <1>f
  <2> QED
    BY <2>1, <2>3, <2>4, <1>p, <1>b DEF Id, Working
<1>7. CASE CheckLink(l) \/ InsertLink(l)
  <2>1. \/ loop' = [loop EXCEPT ![l].pc = "next", ![l].rest = Tail(@), ![l].id = Nil]
        \/ loop' = [loop EXCEPT ![l].pc = "insertLink"]
        \/ loop' = [loop EXCEPT ![l].pc = "escaped"]
    BY <1>7 DEF CheckLink, InsertLink, Through, Goto
  <2>2. loop[l].pc \in {"tags", "insertLink"}
    BY <1>7 DEF CheckLink, InsertLink, At
  <2>3. loop' = [loop EXCEPT ![l].pc = "insertLink"]
    BY <2>1, <1>p, <1>r, <1>f DEF LoopStates
  <2>4. loop'[l].tags = loop[l].tags /\ loop'[l].id = loop[l].id
    BY <2>3, <1>r, <1>f DEF LoopStates
  <2> QED
    BY <2>2, <2>4, <1>p, <1>b DEF Id, Working
<1>9. CASE Raise(l)
  BY <1>9, <1>p, <1>r, <1>f DEF Raise, Goto, LoopStates
<1> QED
  BY <1>1, <1>2, <1>5, <1>6, <1>7, <1>9 DEF Step

LEMMA TagsBehindStep ==
  ASSUME Types, TagsBehind, WorksOnRow, Next
  PROVE  TagsBehind'
<1>1. ASSUME NEW m \in Imports, NEW t \in Behind(m)', Undisturbed(m, Url(m))'
      PROVE  tagged'[<<t, Id(m)'>>] > 0
  <2>0. t \in Tags
    BY DEF Behind
  <2>1. ASSUME Working(m), Id(m)' = Id(m), Url(m)' = Url(m), t \in Behind(m)
        PROVE  tagged'[<<t, Id(m)'>>] > 0
    <3>1. Url(m) \in Urls
      <4>1. loop[m].rest \in Seq(Urls) /\ loop[m].rest # <<>>
        BY <2>1 DEF Types, LoopStates, Working
      <4> QED
        BY <4>1 DEF Url
    <3>2. Undisturbed(m, Url(m)) /\ ~ \E gone \in deleted' : gone.url = Url(m)
      BY <1>1, <2>1, <3>1, DisturbedStays DEF Undisturbed, WasDeleted
    <3>3. tagged[<<t, Id(m)>>] > 0 /\ Id(m) \in Rows /\ url[Id(m)] = Url(m)
      BY <2>1, <3>2 DEF TagsBehind, WorksOnRow
    <3> QED
      <4>1. Stays(Id(m))
        BY <3>2, <3>3, RowsStay
      <4> QED
        BY <2>0, <2>1, <3>3, <4>1 DEF Stays
  <2>2. CASE loop'[m] = loop[m]
    BY <1>1, <2>1, <2>2 DEF Behind, At, Working, Id, Url
  <2>3. CASE Step(m)
    <3>1. Working(m)'
      BY <1>1 DEF Behind, At, Working
    <3>2. Url(m)' = Url(m)
      BY <2>3, <3>1, Arrivals DEF Url
    <3> QED
      BY <1>1, <2>1, <2>3, <3>2, Behinds
  <2> QED
    BY <2>2, <2>3, MovesOrNot
<1>2. ASSUME NEW m \in Imports, loop'[m].pc = "insertLink"
      PROVE  loop'[m].tags = {}
  <2>1. CASE loop'[m] = loop[m]
    BY <1>2, <2>1 DEF TagsBehind, At
  <2>2. CASE Step(m)
    <3>1. loop[m] \in [pc : Places, rest : Seq(Urls), id : AllIds,
                       tags : SUBSET Tags, tag : Tags \cup {Nil}] /\ loop \in LoopStates
      BY DEF Types, LoopStates
    <3>2. ~ (Find(m) \/ UpdateRow(m) \/ InsertTag(m) \/ Raise(m))
      BY <1>2, <3>1 DEF Find, UpdateRow, GoTag, InsertTag, Raise, Goto, LoopStates
    <3>3. ~ Validate(m)
      <4>1. Validate(m) => \/ loop' = [loop EXCEPT ![m].pc = "insert"]
                           \/ loop' = [loop EXCEPT ![m].pc = "tags", ![m].id = Nil, ![m].tags = TagsOf[TaskOf[m]]]
        BY DEF Validate, Goto, GoTag, TagsToSet
      <4> QED
        BY <1>2, <3>1, <4>1 DEF LoopStates
    <3>4. ~ Insert(m)
      <4>1. Insert(m) => \/ loop' = [loop EXCEPT ![m].pc = "escaped"]
                         \/ loop' = [loop EXCEPT ![m].pc = "tags", ![m].id = made + 1, ![m].tags = TagsOf[TaskOf[m]]]
        BY DEF Insert, Goto, GoTag, TagsToSet, IdRead
      <4> QED
        BY <1>2, <3>1, <4>1 DEF LoopStates
    <3>5. ~ CheckTag(m)
      <4>1. CheckTag(m) => \E t \in loop[m].tags, q \in {"tags", "insertTag"} :
              loop' = [loop EXCEPT ![m].tags = @ \ {t}, ![m].tag = t, ![m].pc = q]
        BY Zenon DEF CheckTag
      <4> QED
        BY <1>2, <3>1, <4>1, ZenonT(30) DEF LoopStates
    <3>6. ~ InsertLink(m)
      <4>1. InsertLink(m) => \/ loop' = [loop EXCEPT ![m].pc = "next", ![m].rest = Tail(@), ![m].id = Nil]
                             \/ loop' = [loop EXCEPT ![m].pc = "escaped"]
        BY DEF InsertLink, Through, Goto
      <4> QED
        BY <1>2, <3>1, <4>1 DEF LoopStates
    <3>7. CheckLink(m)
      BY <2>2, <3>2, <3>3, <3>4, <3>5, <3>6 DEF Step
    <3>8. loop[m].tags = {} /\ (\/ loop' = [loop EXCEPT ![m].pc = "next", ![m].rest = Tail(@), ![m].id = Nil]
                               \/ loop' = [loop EXCEPT ![m].pc = "insertLink"])
      BY <3>7 DEF CheckLink, Through, Goto
    <3> QED
      BY <1>2, <3>1, <3>8 DEF LoopStates
  <2> QED
    BY <2>1, <2>2, MovesOrNot
<1> QED
  BY <1>1, <1>2 DEF TagsBehind, At

\* The result that a loop is through with at this step is complete.
LEMMA ThroughIsComplete ==
  ASSUME Types, OneLink, WorksOnRow, TagsBehind, NEW l \in Imports, CheckLink(l) \/ InsertLink(l),
         Through(l), NEW u, u = Url(l), Undisturbed(l, u)
  PROVE  Complete(TaskOf[l], u)'
<1>1. Working(l) /\ Id(l) \in Rows /\ url[Id(l)] = Url(l)
  BY DEF CheckLink, InsertLink, Working, At, WorksOnRow
<1>2. loop[l].tags = {} /\ loop[l].pc \in {"tags", "insertLink"}
  BY DEF CheckLink, InsertLink, TagsBehind, At
<1>3. \A t \in TagsOf[TaskOf[l]] : tagged[<<t, Id(l)>>] > 0
  BY <1>2 DEF TagsBehind, Behind, At
<1>4. Id(l) \in Ids /\ Id(l) # Nil /\ Id(l) \in AllIds /\ links \in [Tasks \X AllIds -> Nat]
  <2>1. Id(l) \in 1..MaxIds
    <3>1. Id(l) \in 1..made /\ made \in 0..MaxIds
      BY <1>1 DEF Types
    <3> QED
      BY <3>1
  <2> QED
    BY <2>1 DEF Types, Ids, AllIds
<1>5. links[<<TaskOf[l], Id(l)>>] \in Nat /\ links[<<TaskOf[l], Id(l)>>] <= 1
  BY <1>4 DEF OneLink
<1>6. links'[<<TaskOf[l], Id(l)>>] = 1
  <2>1. CASE CheckLink(l)
    <3>1. links[<<TaskOf[l], Id(l)>>] > 0 /\ links' = links
      <4>1. loop' # [loop EXCEPT ![l].pc = "insertLink"]
        BY DEF Types, LoopStates, Through
      <4> QED
        BY <2>1, <4>1 DEF CheckLink, Goto
    <3> QED
      BY <3>1, <1>5
  <2>2. CASE InsertLink(l)
    <3>1. /\ ~ LinkTaken(TaskOf[l], Id(l))
          /\ links' = [links EXCEPT ![<<TaskOf[l], Id(l)>>] = @ + 1]
      <4>1. loop' # [loop EXCEPT ![l].pc = "escaped"]
        BY DEF Types, LoopStates, Through
      <4> QED
        BY <2>2, <4>1 DEF InsertLink, Goto
    <3>2. ~ links[<<TaskOf[l], Id(l)>>] > 0
      BY <3>1, <1>4 DEF LinkTaken
    <3>3. links'[<<TaskOf[l], Id(l)>>] = links[<<TaskOf[l], Id(l)>>] + 1
      BY <3>1, <1>4, Increased
    <3> QED
      BY <3>2, <3>3, <1>5
  <2> QED
    BY <2>1, <2>2
<1>7. url' = url /\ tagged' = tagged
  BY DEF CheckLink, InsertLink
<1> QED
  BY <1>1, <1>3, <1>6, <1>7 DEF Complete, Rows

LEMMA AllCompleteStep ==
  ASSUME Types, OneLink, WorksOnRow, TagsBehind, AllComplete, Next
  PROVE  AllComplete'
<1> SUFFICES ASSUME NEW m \in Imports, NEW u \in Urls, <<m, u>> \in imported', Undisturbed(m, u)'
             PROVE  Complete(TaskOf[m], u)'
  BY DEF AllComplete
<1>0. Undisturbed(m, u)
  BY DisturbedStays
<1>1. CASE <<m, u>> \in imported
  <2>1. PICK i \in Rows : /\ url[i] = u /\ links[<<TaskOf[m], i>>] = 1
                          /\ \A t \in TagsOf[TaskOf[m]] : tagged[<<t, i>>] > 0
    BY <1>0, <1>1 DEF AllComplete, Complete
  <2>2. Stays(i)
    <3>1. ~ \E gone \in deleted' : gone.url = u
      BY DEF Undisturbed, WasDeleted
    <3> QED
      BY <2>1, <3>1, RowsStay
  <2>3. i \in Ids /\ i \in AllIds
    BY DEF Types, Ids, AllIds
  <2>4. links'[<<TaskOf[m], i>>] <= 1 /\ links'[<<TaskOf[m], i>>] > 0 /\ links'[<<TaskOf[m], i>>] \in Nat
    BY <2>1, <2>2, <2>3, OneLinkStep, TablesTyped DEF OneLink, Stays
  <2>5. links'[<<TaskOf[m], i>>] = 1
    BY <2>4
  <2> QED
    BY <2>1, <2>2, <2>5 DEF Complete, Stays
<1>2. CASE <<m, u>> \notin imported
  <2>1. PICK l \in Imports : (CheckLink(l) \/ InsertLink(l)) /\ Through(l)
    <3>1. ASSUME NEW l \in Imports, Step(l)
          PROVE  ((CheckLink(l) \/ InsertLink(l)) /\ Through(l)) \/ imported' = imported
      BY <3>1 DEF Step, Find, UpdateRow, Validate, Insert, CheckTag, InsertTag, CheckLink,
                  InsertLink, Raise
    <3>2. (\E l \in Imports : Step(l)) \/ imported' = imported
      BY DEF Next, Step, Delete
    <3> QED
      BY <1>2, <3>1, <3>2
  <2>2. m = l /\ u = Url(l)
    BY <1>2, <2>1 DEF Through
  <2> QED
    BY <2>1, <2>2, <1>0, ThroughIsComplete
<1> QED
  BY <1>1, <1>2

-----------------------------------------------------------------------------
(* Links and tags without a result; tags inserted twice                    *)

\* What is excused stays excused, as long as its row is not deleted.
LEMMA ExcusesStay ==
  ASSUME Types, Next
  PROVE  /\ \A t \in Tags, i \in AllIds : TagExcused(t, i) => TagExcused(t, i)' \/ Delete(i)
         /\ \A k \in Tasks, i \in AllIds : LinkExcused(k, i) => LinkExcused(k, i)' \/ Delete(i)
<1>1. CASE Rows \subseteq Rows' /\ deleted' = deleted /\ refused \subseteq refused'
  BY <1>1 DEF TagExcused, LinkExcused
<1>2. ASSUME NEW j \in Ids, Delete(j)
      PROVE  /\ \A t \in Tags, i \in AllIds : TagExcused(t, i) => TagExcused(t, i)' \/ Delete(i)
             /\ \A k \in Tasks, i \in AllIds : LinkExcused(k, i) => LinkExcused(k, i)' \/ Delete(i)
  <2>1. deleted \subseteq deleted' /\ refused' = refused /\ Rows' = Rows \ {j}
    BY <1>2 DEF Delete, Rows
  <2>2. \A i \in AllIds : i = j \/ i \notin Rows \/ i \in Rows'
    BY <2>1
  <2> QED
    BY <1>2, <2>1, <2>2 DEF TagExcused, LinkExcused
<1> QED
  BY <1>1, <1>2, StepOrDelete

LEMMA OrphansStep ==
  ASSUME Types, IdsKnown, OrphansExplained, Next
  PROVE  OrphansExplained'
<1>0. /\ tagged \in [Tags \X AllIds -> Nat] /\ links \in [Tasks \X AllIds -> Nat]
      /\ tagged' \in [Tags \X AllIds -> Nat] /\ links' \in [Tasks \X AllIds -> Nat]
  BY TablesTyped DEF Types
<1>k. /\ \A t \in Tags, i \in AllIds : tagged[<<t, i>>] > 0 => TagExcused(t, i)
      /\ \A k \in Tasks, i \in AllIds : links[<<k, i>>] > 0 => LinkExcused(k, i)
  BY DEF OrphansExplained, AllIds, TagExcused, LinkExcused
<1>i. \A l \in Imports : Id(l) \in AllIds /\ loop[l].tag \in Tags \cup {Nil}
  BY DEF Types, LoopStates, Id
<1>1. ASSUME NEW t \in Tags, NEW i \in AllIds, tagged'[<<t, i>>] > 0
      PROVE  TagExcused(t, i)'
  <2>1. CASE tagged[<<t, i>>] > 0 /\ ~Delete(i)
    BY <2>1, <1>k, ExcusesStay
  <2>2. CASE Delete(i)
    <3>1. tagged'[<<t, i>>] = 0
      BY <2>2, <1>0, Cleared DEF Delete, Untagged
    <3> QED
      BY <3>1, <1>1
  <2>3. CASE ~(tagged[<<t, i>>] > 0) /\ ~Delete(i)
    <3>1. PICK l \in Imports : InsertTag(l)
      <4>1. tagged' # tagged
        BY <2>3, <1>1
      <4>2. ASSUME NEW j \in Ids, Delete(j)
            PROVE  tagged'[<<t, i>>] \in {0, tagged[<<t, i>>]}
        BY <4>2, <1>0, Cleared DEF Delete, Untagged
      <4>3. ~\E j \in Ids : Delete(j)
        BY <4>2, <2>3, <1>1
      <4> QED
        BY <4>1, <4>3 DEF Next, Find, UpdateRow, Validate, Insert, CheckTag, CheckLink, InsertLink, Raise
    <3>2. /\ tagged' = [tagged EXCEPT ![<<loop[l].tag, Id(l)>>] = @ + 1] /\ At(l, "insertTag")
          /\ Rows' = Rows /\ deleted' = deleted /\ refused' = refused
      BY <3>1 DEF InsertTag, Rows
    <3>3. t = loop[l].tag /\ i = Id(l)
      <4>1. ~(t = loop[l].tag /\ i = Id(l)) => tagged'[<<t, i>>] = tagged[<<t, i>>]
        BY <3>2, <1>0, Increased
      <4> QED
        BY <4>1, <2>3, <1>1
    <3>4. t \in TagsOf[TaskOf[l]] /\ Known(l, i)
      BY <3>2, <3>3 DEF Types, IdsKnown, Working, At
    <3> QED
      BY <3>2, <3>4 DEF Known, TagExcused
  <2> QED
    BY <2>1, <2>2, <2>3
<1>2. ASSUME NEW k \in Tasks, NEW i \in AllIds, links'[<<k, i>>] > 0
      PROVE  LinkExcused(k, i)'
  <2>1. CASE links[<<k, i>>] > 0 /\ ~Delete(i)
    BY <2>1, <1>k, ExcusesStay
  <2>2. CASE Delete(i)
    <3> DEFINE gone == [id |-> i, url |-> url[i], linked |-> Linked(i), at |-> LoopsAt(i)]
    <3>1. gone \in deleted' /\ links' = links
      BY <2>2 DEF Delete
    <3>2. gone.id = i /\ k \in gone.linked
      BY <3>1, <1>2 DEF Linked
    <3> QED
      BY <3>1, <3>2 DEF LinkExcused
  <2>3. CASE ~(links[<<k, i>>] > 0) /\ ~Delete(i)
    <3>1. PICK l \in Imports : InsertLink(l)
      <4>1. links' # links
        BY <2>3, <1>2
      <4> QED
        BY <4>1 DEF Next, Find, UpdateRow, Validate, Insert, CheckTag, InsertTag, CheckLink, Raise, Delete
    <3>2. /\ links' = [links EXCEPT ![<<TaskOf[l], Id(l)>>] = @ + 1] \/ links' = links
          /\ At(l, "insertLink") /\ Rows' = Rows /\ deleted' = deleted /\ refused' = refused
      BY <3>1 DEF InsertLink, Rows
    <3>3. k = TaskOf[l] /\ i = Id(l)
      <4>1. ~(k = TaskOf[l] /\ i = Id(l)) => links'[<<k, i>>] = links[<<k, i>>]
        BY <3>2, <1>0, Increased
      <4> QED
        BY <4>1, <2>3, <1>2
    <3>4. Known(l, i)
      BY <3>2, <3>3 DEF IdsKnown, Working, At
    <3> QED
      BY <3>2, <3>3, <3>4 DEF Known, LinkExcused
  <2> QED
    BY <2>1, <2>2, <2>3
<1> QED
  BY <1>1, <1>2 DEF OrphansExplained, AllIds, TagExcused, LinkExcused

\* How a loop comes to be about to insert a tag.
LEMMA AboutBefore ==
  ASSUME Types, Next, NEW m \in Imports, NEW t, NEW i, AboutToTag(m, t, i)'
  PROVE  \/ AboutToTag(m, t, i) /\ loop'[m] = loop[m]
         \/ CheckTag(m) /\ Id(m) = i /\ ~ HasTag(m, t)
<1>r. loop[m] \in [pc : Places, rest : Seq(Urls), id : AllIds,
                   tags : SUBSET Tags, tag : Tags \cup {Nil}] /\ loop \in LoopStates
  BY DEF Types, LoopStates
<1>p. loop'[m].pc = "insertTag" /\ loop'[m].tag = t /\ loop'[m].id = i
  BY DEF AboutToTag, At, Id
<1>1. CASE loop'[m] = loop[m]
  BY <1>1, <1>p DEF AboutToTag, At, Id
<1>2. CASE Step(m)
  <2>1. ~ (Find(m) \/ UpdateRow(m) \/ InsertTag(m) \/ Raise(m))
    BY <1>p, <1>r DEF Find, UpdateRow, GoTag, InsertTag, Raise, Goto, LoopStates
  <2>2. ~ Validate(m)
    <3>1. Validate(m) => \/ loop' = [loop EXCEPT ![m].pc = "insert"]
                         \/ loop' = [loop EXCEPT ![m].pc = "tags", ![m].id = Nil, ![m].tags = TagsOf[TaskOf[m]]]
      BY DEF Validate, Goto, GoTag, TagsToSet
    <3> QED
      BY <1>p, <1>r, <3>1 DEF LoopStates
  <2>3. ~ Insert(m)
    <3>1. Insert(m) => \/ loop' = [loop EXCEPT ![m].pc = "escaped"]
                       \/ loop' = [loop EXCEPT ![m].pc = "tags", ![m].id = made + 1, ![m].tags = TagsOf[TaskOf[m]]]
      BY DEF Insert, Goto, GoTag, TagsToSet, IdRead
    <3> QED
      BY <1>p, <1>r, <3>1 DEF LoopStates
  <2>4. ~ (CheckLink(m) \/ InsertLink(m))
    <3>1. CheckLink(m) \/ InsertLink(m) =>
            \/ loop' = [loop EXCEPT ![m].pc = "next", ![m].rest = Tail(@), ![m].id = Nil]
            \/ loop' = [loop EXCEPT ![m].pc = "insertLink"]
            \/ loop' = [loop EXCEPT ![m].pc = "escaped"]
      BY DEF CheckLink, InsertLink, Through, Goto
    <3> QED
      BY <1>p, <1>r, <3>1 DEF LoopStates
  <2>5. CheckTag(m)
    BY <1>2, <2>1, <2>2, <2>3, <2>4 DEF Step
  <2>6. PICK c \in loop[m].tags :
          loop' = [loop EXCEPT ![m].tags = @ \ {c}, ![m].tag = c,
                     ![m].pc = IF HasTag(m, c) THEN "tags" ELSE "insertTag"]
    BY <2>5, Zenon DEF CheckTag
  <2>7. /\ loop'[m].tag = c /\ loop'[m].id = loop[m].id
        /\ loop'[m].pc = IF HasTag(m, c) THEN "tags" ELSE "insertTag"
    BY <2>6, <1>r DEF LoopStates
  <2> QED
    BY <2>5, <2>7, <1>p DEF Id
<1> QED
  BY <1>1, <1>2, MovesOrNot

LEMMA OneInserterStep ==
  ASSUME Types, OneInserter, Next
  PROVE  OneInserter'
<1> SUFFICES ASSUME NEW t \in Tags, NEW i \in AllIds, <<t, i>> \notin raced'
             PROVE  /\ tagged'[<<t, i>>] <= 1
                    /\ \A m \in Imports : AboutToTag(m, t, i)' =>
                         /\ tagged'[<<t, i>>] = 0
                         /\ \A n \in Imports : AboutToTag(n, t, i)' => n = m
  BY DEF OneInserter
<1>n. tagged[<<t, i>>] \in Nat /\ tagged \in [Tags \X AllIds -> Nat] /\ loop \in LoopStates
  BY DEF Types
<1>1. CASE \E l \in Imports : CheckTag(l)
  <2>1. PICK l \in Imports : CheckTag(l)
    BY <1>1
  <2>2. tagged' = tagged
    BY <2>1 DEF CheckTag
  <2>3. PICK c \in loop[l].tags :
          /\ loop' = [loop EXCEPT ![l].tags = @ \ {c}, ![l].tag = c,
                        ![l].pc = IF HasTag(l, c) THEN "tags" ELSE "insertTag"]
          /\ raced' = IF ~HasTag(l, c) /\ \E m \in Imports \ {l} :
                           At(m, "insertTag") /\ loop[m].tag = c /\ Id(m) = Id(l)
                         THEN raced \cup {<<c, Id(l)>>} ELSE raced
    BY <2>1, Zenon DEF CheckTag
  <2>4. <<t, i>> \notin raced
    BY <2>3
  <2>5. \A m \in Imports \ {l} : loop'[m] = loop[m]
    BY <2>1, LoopTyped DEF Step
  <2>6. \A m \in Imports \ {l} : AboutToTag(m, t, i)' => AboutToTag(m, t, i)
    BY <2>5 DEF AboutToTag, At, Id
  <2>7. ASSUME AboutToTag(l, t, i)'
        PROVE  tagged[<<t, i>>] = 0 /\ \A m \in Imports \ {l} : ~ AboutToTag(m, t, i)
    <3>1. loop'[l].tag = c /\ loop'[l].id = loop[l].id
          /\ loop'[l].pc = IF HasTag(l, c) THEN "tags" ELSE "insertTag"
      BY <2>3, <1>n DEF LoopStates
    <3>2. c = t /\ Id(l) = i /\ ~ HasTag(l, t)
      BY <2>7, <3>1 DEF AboutToTag, At, Id
    <3>3. ~ \E m \in Imports \ {l} : At(m, "insertTag") /\ loop[m].tag = t /\ Id(m) = i
      BY <2>3, <3>2
    <3> QED
      BY <3>2, <3>3, <1>n DEF AboutToTag, HasTag
  <2> QED
    BY <2>2, <2>4, <2>6, <2>7 DEF OneInserter
<1>2. CASE ~ \E l \in Imports : CheckTag(l)
  <2>1. \A m \in Imports : AboutToTag(m, t, i)' => AboutToTag(m, t, i) /\ loop'[m] = loop[m]
    BY <1>2, AboutBefore
  <2>2. <<t, i>> \notin raced
    <3>1. raced' = raced
      BY <1>2 DEF Next, Find, UpdateRow, Validate, Insert, InsertTag, CheckLink, InsertLink,
                  Raise, Delete
    <3> QED
      BY <3>1
  <2>3. CASE \E l \in Imports : InsertTag(l)
    <3>1. PICK l \in Imports : InsertTag(l)
      BY <2>3
    <3>2. At(l, "insertTag") /\ tagged' = [tagged EXCEPT ![<<loop[l].tag, Id(l)>>] = @ + 1]
          /\ loop' = [loop EXCEPT ![l].pc = "tags"]
      BY <3>1 DEF InsertTag, Goto
    <3>3. loop'[l] # loop[l]
      BY <3>2, <1>n DEF At, LoopStates
    <3>4. CASE AboutToTag(l, t, i)
      <4>1. tagged[<<t, i>>] = 0 /\ \A m \in Imports : AboutToTag(m, t, i) => m = l
        BY <2>2, <3>4 DEF OneInserter
      <4>2. tagged'[<<t, i>>] = tagged[<<t, i>>] + 1
        BY <3>2, <3>4, <1>n, Increased DEF AboutToTag
      <4> QED
        BY <4>1, <4>2, <2>1, <3>3
    <3>5. CASE ~ AboutToTag(l, t, i)
      <4>1. tagged'[<<t, i>>] = tagged[<<t, i>>]
        BY <3>2, <3>5, <1>n, Increased DEF AboutToTag
      <4> QED
        BY <4>1, <2>1, <2>2 DEF OneInserter
    <3> QED
      BY <3>4, <3>5
  <2>4. CASE \E d \in Ids : Delete(d)
    <3>1. PICK d \in Ids : Delete(d)
      BY <2>4
    <3>2. tagged' = [x \in DOMAIN tagged |-> IF x[2] = d THEN 0 ELSE tagged[x]]
      BY <3>1 DEF Delete, Untagged
    <3>3. tagged'[<<t, i>>] = IF i = d THEN 0 ELSE tagged[<<t, i>>]
      BY <3>2, <1>n, Cleared
    <3> QED
      BY <3>3, <2>1, <2>2 DEF OneInserter
  <2>5. CASE tagged' = tagged
    BY <2>1, <2>2, <2>5 DEF OneInserter
  <2>6. (\E l \in Imports : InsertTag(l)) \/ (\E d \in Ids : Delete(d)) \/ tagged' = tagged
    BY DEF Next, Find, UpdateRow, Validate, Insert, CheckTag, CheckLink, InsertLink, Raise
  <2> QED
    BY <2>3, <2>4, <2>5, <2>6
<1> QED
  BY <1>1, <1>2

LEMMA HistoryTypesStep ==
  ASSUME Types, HistoryTypes, Next
  PROVE  HistoryTypes'
<1>1. ASSUME NEW l \in Imports, Step(l)
      PROVE  HistoryTypes'
  <2>1. deleted' = deleted
    BY <1>1 DEF Step, Find, UpdateRow, Validate, Insert, CheckTag, InsertTag, CheckLink,
                InsertLink, Raise
  <2>2. imported' = imported \/ (Through(l) /\ (At(l, "tags") \/ At(l, "insertLink")))
    BY <1>1 DEF Step, Find, UpdateRow, Validate, Insert, CheckTag, InsertTag, CheckLink,
                InsertLink, Raise
  <2>3. ASSUME At(l, "tags") \/ At(l, "insertLink")
        PROVE  Url(l) \in Urls
    <3>1. loop[l].rest \in Seq(Urls) /\ loop[l].rest # <<>>
      BY <2>3 DEF Types, LoopStates, At
    <3> QED
      BY <3>1 DEF Url
  <2> QED
    BY <2>1, <2>2, <2>3 DEF HistoryTypes, Through
<1>2. ASSUME NEW d \in Ids, Delete(d)
      PROVE  HistoryTypes'
  <2> DEFINE row == [id |-> d, url |-> url[d], linked |-> Linked(d), at |-> LoopsAt(d)]
  <2>1. deleted' = deleted \cup {row} /\ imported' = imported /\ url[d] \in Urls
    BY <1>2 DEF Delete, Types
  <2>2. row \in [id : Ids, url : Urls, linked : SUBSET Tasks, at : SUBSET Imports]
    BY <2>1 DEF Linked, LoopsAt
  <2> QED
    BY <2>1, <2>2 DEF HistoryTypes
<1> QED
  BY <1>1, <1>2 DEF Next, Step

-----------------------------------------------------------------------------
(* The theorems                                                            *)

LEMMA InitInv == Init => IInv
<1> SUFFICES ASSUME Init
             PROVE  IInv
  OBVIOUS
<1>0. \A l \in Imports : \E r \in BoundedSeq(Urls, MaxLength) :
        loop[l] = [pc |-> "next", rest |-> r, id |-> Nil, tags |-> {}, tag |-> Nil]
  BY DEF Init
<1>r. BoundedSeq(Urls, MaxLength) \subseteq Seq(Urls)
  BY DEF BoundedSeq, SeqOf
<1>1. loop \in LoopStates
  <2>1. \A l \in Imports : loop[l] \in [pc : Places, rest : Seq(Urls), id : AllIds,
                                        tags : SUBSET Tags, tag : Tags \cup {Nil}]
    <3> TAKE l \in Imports
    <3>1. PICK r \in Seq(Urls) :
            loop[l] = [pc |-> "next", rest |-> r, id |-> Nil, tags |-> {}, tag |-> Nil]
      BY <1>0, <1>r
    <3> QED
      BY <3>1 DEF Places, AllIds
  <2>2. loop = [l \in Imports |-> loop[l]]
    BY DEF Init
  <2> QED
    BY <2>1, <2>2 DEF LoopStates
<1>2. \A l \in Imports : loop[l].pc = "next" /\ Id(l) = Nil /\ loop[l].tags = {}
  <2> TAKE l \in Imports
  <2>1. PICK r : loop[l] = [pc |-> "next", rest |-> r, id |-> Nil, tags |-> {}, tag |-> Nil]
    BY <1>0
  <2> QED
    BY <2>1 DEF Id
<1>3. Rows = {} /\ made = 0
  BY DEF Init, Rows
<1>4. tagged \in [Tags \X AllIds -> {0}] /\ links \in [Tasks \X AllIds -> {0}]
  BY DEF Init, AllIds
<1>5. Types
  BY <1>1, <1>2, <1>3, <1>4 DEF Types, At
<1>6. OneRow /\ OneLink
  BY <1>3, <1>4 DEF OneRow, OneLink, AllIds
<1>7. IdsKnown /\ WorksOnRow /\ TagsBehind
  BY <1>2 DEF IdsKnown, WorksOnRow, TagsBehind, Working, Behind, At
<1>8. OrphansExplained
  <2>1. /\ \A t \in Tags, i \in AllIds : tagged[<<t, i>>] = 0
        /\ \A k \in Tasks, i \in AllIds : links[<<k, i>>] = 0
    BY <1>4
  <2> QED
    BY <2>1 DEF OrphansExplained, AllIds
<1>9. AllComplete /\ HistoryTypes
  BY DEF Init, AllComplete, HistoryTypes
<1>10. OneInserter
  BY <1>2, <1>4 DEF OneInserter, AboutToTag, At
<1> QED
  BY <1>5, <1>6, <1>7, <1>8, <1>9, <1>10 DEF IInv

LEMMA StepInv == IInv /\ [Next]_vars => IInv'
<1>1. IInv /\ Next => IInv'
  BY TypesStep, OneRowStep, OneLinkStep, IdsKnownStep, OrphansStep, WorksOnRowStep,
     TagsBehindStep, AllCompleteStep, OneInserterStep, HistoryTypesStep DEF IInv
<1>2. IInv /\ UNCHANGED vars => IInv'
  <2> SUFFICES ASSUME IInv, UNCHANGED vars
               PROVE  IInv'
    OBVIOUS
  <2>0. /\ url' = url /\ tagged' = tagged /\ links' = links /\ loop' = loop /\ made' = made
        /\ imported' = imported /\ refused' = refused /\ deleted' = deleted /\ raced' = raced
    BY DEF vars
  <2>1. Types' /\ OneRow' /\ OneLink' /\ HistoryTypes'
    BY <2>0 DEF IInv, Types, OneRow, OneLink, HistoryTypes, Rows, Id, At
  <2>2. IdsKnown' /\ OrphansExplained'
    BY <2>0 DEF IInv, IdsKnown, OrphansExplained, Known, Working, Rows, Id
  <2>3. WorksOnRow'
    BY <2>0 DEF IInv, WorksOnRow, Undisturbed, WasDeleted, Working, Rows, Id, Url
  <2>4. TagsBehind'
    BY <2>0 DEF IInv, TagsBehind, Behind, Undisturbed, WasDeleted, Id, Url, At
  <2>5. AllComplete'
    BY <2>0, ZenonT(30) DEF IInv, AllComplete, Complete, Undisturbed, WasDeleted, Rows
  <2>6. OneInserter'
    <3>1. \A l \in Imports, t \in Tags, i \in AllIds :
            AboutToTag(l, t, i)' <=> AboutToTag(l, t, i)
      BY <2>0 DEF AboutToTag, At, Id
    <3> QED
      BY <2>0, <3>1, ZenonT(30) DEF IInv, OneInserter
  <2> QED
    BY <2>1, <2>2, <2>3, <2>4, <2>5, <2>6 DEF IInv
<1> QED
  BY <1>1, <1>2

\* The inductive invariant, over every number of loops, URLs, tags and rows.
THEOREM Invariance == Spec => []IInv
  BY InitInv, StepInv, PTL DEF Spec

\* A URL has one row and a row one link to a task, however many loops find at
\* the same time that there is none (task.rb:305-321 and the two indexes).
THEOREM TypeCorrect == Spec => []TypeOK
<1>1. IInv => TypeOK
  BY DEF IInv, Types, LoopStates, OneRow, OneLink, TypeOK
<1> QED
  BY <1>1, Invariance, PTL

\* Taggings without a result come only from a refused save or from a loop that
\* was at the result when people deleted it; so do links, unless they were there
\* before (task.rb:312-329, result.rb:19-22, results_controller.rb destroy).
THEOREM OrphansAreExplained == Spec => []OrphansExplained
<1>1. IInv => OrphansExplained
  BY DEF IInv
<1> QED
  BY <1>1, Invariance, PTL

\* What a loop is through with is there, with its link and its tags
\* (task.rb:304-330).
THEOREM ImportedStays == Spec => []ImportedIsThere
<1>1. IInv => ImportedIsThere
  <2> SUFFICES ASSUME IInv, NEW x \in imported \ refused, \A d \in deleted : d.url # x[2]
               PROVE  /\ IdOf(x[2]) # Nil
                      /\ links[<<TaskOf[x[1]], IdOf(x[2])>>] = 1
                      /\ \A t \in TagsOf[TaskOf[x[1]]] : tagged[<<t, IdOf(x[2])>>] > 0
    BY DEF ImportedIsThere
  <2>1. x[1] \in Imports /\ x[2] \in Urls /\ x = <<x[1], x[2]>>
    BY DEF IInv, HistoryTypes
  <2>u. Undisturbed(x[1], x[2])
    BY <2>1 DEF Undisturbed, WasDeleted
  <2>2. PICK i \in Rows : /\ url[i] = x[2] /\ links[<<TaskOf[x[1]], i>>] = 1
                          /\ \A t \in TagsOf[TaskOf[x[1]]] : tagged[<<t, i>>] > 0
    <3>1. AllComplete
      BY DEF IInv
    <3>2. <<x[1], x[2]>> \in imported
      BY <2>1
    <3>3. Complete(TaskOf[x[1]], x[2])
      BY <2>1, <2>u, <3>1, <3>2 DEF AllComplete
    <3> QED BY <3>3 DEF Complete
  <2>3. IdOf(x[2]) = i
    BY <2>2, HeldId DEF Holders, IInv, OneRow
  <2>4. i \in Nat
    BY DEF IInv, Types
  <2> QED
    BY <2>2, <2>3, <2>4
<1> QED
  BY <1>1, Invariance, PTL

\* A result has a tag twice only if two loops were about to insert it at the
\* same time (task.rb:318, result.rb:84).
THEOREM TaggedTwiceOnlyByRace == Spec => []TaggedOnceUnlessRaced
<1>1. IInv => TaggedOnceUnlessRaced
  BY DEF IInv, OneInserter, TaggedOnceUnlessRaced, Types
<1> QED
  BY <1>1, Invariance, PTL
=============================================================================
