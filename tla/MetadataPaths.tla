---------------------------- MODULE MetadataPaths ----------------------------
(***************************************************************************)
(* How the page of a result reads and changes the metadata of the result   *)
(* by a path of keys (Result#traverse_metadata,                            *)
(* Result#traverse_and_update_metadata, result.rb:463-469, 546-758).       *)
(*                                                                         *)
(* The metadata is a tree: a set of nodes, each with its position and what *)
(* is there: a hash, a list (its elements are at the indices 0, 1, ...), a *)
(* number, true, false or a text.  A text is a sequence of letters, and a   *)
(* letter is a key that names one thing: that key, and no other, is a part  *)
(* of each text that it occurs in.  Nulls are left out, and so is what a    *)
(* number's digits could be compared with.                                  *)
(*                                                                         *)
(* The parts of a path are taken for one of these keys:                    *)
(*    name    any other string         index   digits                      *)
(*    colon   begins with ":"          all     "[]"                        *)
(*    list    "[a,b]"                  where   "[field:value,value]"       *)
(* Ruby's exceptions: "raised" is what leaves the call.                    *)
(***************************************************************************)
EXTENDS Naturals, FiniteSets, SequencesExt

CONSTANTS Trees,    \* the metadata to begin with
          Paths,    \* the key paths that are asked for
          Values,   \* the values that are set: texts, booleans, or Hash for "{}"
          MaxRequests   \* bounds the requests

Name(k)  == <<"name", k>>
Index(i) == <<"index", i>>
Colon(k) == <<"colon", k>>
All      == <<"all">>
Several(ks)  == <<"list", ks>>
Where(f, vs) == <<"where", f, vs>>

\* A key that names one thing is also how a position is written.
Parts == ({"name", "colon"} \X STRING) \cup ({"index"} \X Nat)
IsA(key, k) == key[1] = k

Text(l) == <<"text", l>>
Letters(s) == s[2]
Texts == {"text"} \X Seq(Parts)
Hash   == <<"hash">>
Array   == <<"list">>
Number == <<"number">>
True   == <<"true">>
False  == <<"false">>
Nil    == <<"nil">>
Leaves == Texts \cup {Number, True, False}

Keys  == Parts \cup {All} \cup ({"list"} \X Seq({k \in Parts : ~IsA(k, "colon")}))
               \cup ({"where"} \X ({"name"} \X STRING) \X SUBSET Texts)
Selects(key) == IsA(key, "list") \/ IsA(key, "where")

Positions == Seq(Parts)
Nodes == [at : Positions, is : {Hash, Array} \cup Leaves]
\* What is read from a text or a number is a piece, which is in no tree.
Missing == <<All>>   \* where nil is read
Piece(s) == <<All, s>>
Pieces  == {All} \X Leaves

Taken(t) == {n.at : n \in t}
There(t, p) == \E n \in t : n.at = p
Kind(t, p) == IF There(t, p) THEN (CHOOSE n \in t : n.at = p).is ELSE Nil
\* p becomes k, and what was below it is gone.
Put(t, p, k) == {n \in t : ~IsPrefix(p, n.at)} \cup {[at |-> p, is |-> k]}
Below(t, p) == {q \in Taken(t) \ {<<>>} : Front(q) = p}
Size(t, p) == Cardinality(Below(t, p))
Element(p, i) == Append(p, Index(i))

\* The metadata is a hash; only hashes and lists contain anything, and lists
\* have no gaps.
WellFormed(t) ==
  /\ IsFiniteSet(t) /\ Kind(t, <<>>) = Hash
  /\ \A n \in t : Kind(t, n.at) = n.is
  /\ \A n \in t : n.at # <<>> => Kind(t, Front(n.at)) \in {Hash, Array}
  /\ \A n \in t : n.is = Array =>
       \A i \in 1..Size(t, n.at) : There(t, Element(n.at, i - 1))
AllTrees == {t \in SUBSET Nodes : WellFormed(t)}

ASSUME MetadataPathsAssumption ==
  /\ Trees \subseteq AllTrees /\ Paths \subseteq Seq(Keys)
  /\ Values \subseteq Texts \cup {Hash, True, False} /\ MaxRequests \in Nat

-----------------------------------------------------------------------------
\* What a text contains: a letter as a part, and the letter at an index.
Part(s, k) == IF k \in Range(Letters(s)) THEN Text(<<k>>) ELSE Nil
Letter(s, i) == IF i < Len(Letters(s)) THEN Text(<<Letters(s)[i + 1]>>) ELSE Nil

\* What "[]" with a key yields for a text or a number (its bits), else nil.
Bracket(s, key) ==
  CASE s \in Texts -> IF IsA(key, "index") THEN Letter(s, key[2]) ELSE Part(s, key)
    [] s = Number -> IF IsA(key, "index") THEN Number ELSE Nil
    [] OTHER -> Nil

\* The field of an element that a where-key asks for; a list and a number have
\* no fields, and raise.
Field(t, e, f) == IF Kind(t, e) \in Texts THEN Part(Kind(t, e), f) ELSE Kind(t, Append(e, f))
Askable(t, p) == Kind(t, p) = Array /\ \A i \in 1..Size(t, p) : Kind(t, Element(p, i - 1)) \notin {Array, Number}
Fits(t, p, key, i) == Field(t, Element(p, i), key[2]) \in key[3]
\* Mutant: numbered after the selection.
SelectedFirst(t, p, key) ==
  LET n == Cardinality({i \in 1..Size(t, p) : Fits(t, p, key, i - 1)}) IN [j \in 1..n |-> Index(j - 1)]
\* The elements of the list at p that a where-key selects, in order.
Selected(t, p, key) ==
  LET chosen[n \in 0..Size(t, p)] ==
        IF n = 0 THEN <<>>
        ELSE IF Fits(t, p, key, n - 1) THEN Append(chosen[n - 1], Index(n - 1))
        ELSE chosen[n - 1]
  IN chosen[Size(t, p)]
\* The keys that a key stands for, one after the other.
Alternatives(t, p, key) ==
  IF IsA(key, "list") THEN key[2]
  ELSE IF IsA(key, "where") THEN IF Askable(t, p) THEN Selected(t, p, key) ELSE <<>>
  ELSE <<key>>

Done(t) == [tree |-> t, raised |-> FALSE]
Raised(t) == [tree |-> t, raised |-> TRUE]

\* parent << value, unless it is there.
AppendTo(t, p, v) ==
  LET there == \E i \in 1..Size(t, p) : LET e == Element(p, i - 1) IN
                 Kind(t, e) = v /\ (v = Hash => Size(t, e) = 0)
      isKey == v \in Texts /\ Len(Letters(v)) = 1 /\ There(t, p \o Letters(v))
  IN CASE Kind(t, p) = Array -> IF there THEN Done(t) ELSE Done(Put(t, Element(p, Size(t, p)), v))
       [] Kind(t, p) = Hash -> IF isKey THEN Done(t) ELSE Raised(t)
       [] OTHER -> Done(t)

\* Mutant: a missing key becomes a list whatever comes below it.
FreshList(rest) == IF rest = <<>> THEN Hash ELSE Array
\* What a missing key of a hash becomes on the way.
Fresh(rest) == IF rest = <<All>> THEN Array ELSE Hash

\* Calls of _traverse_and_update_metadata, and what leaves them.
Calls    == [tree : AllTrees, at : Seq(Parts \cup {All}) \cup Pieces]
Outcomes == [tree : AllTrees, raised : BOOLEAN]

\* The text or number at p, which may be a piece, and what becomes of a text
\* that is changed in place.
Leaf(t, p) == IF p \in Pieces THEN p[2] ELSE Kind(t, p)
Rewritten(t, p, l) == IF p \in Pieces THEN t ELSE Put(t, p, Text(l))

\* parent[k] = value: the first k in the text becomes the value.
Replaced(l, k, m) ==
  LET i == CHOOSE i \in DOMAIN l : l[i] = k /\ \A j \in DOMAIN l : l[j] = k => i <= j
  IN SubSeq(l, 1, i - 1) \o m \o SubSeq(l, i + 1, Len(l))
Includes(l, m) == \E i \in 1..Len(l) + 1 : IsPrefix(m, SubSeq(l, i, Len(l)))

\* The last key, at a text or a number.
SetLeaf(t, p, key, v) ==
  LET l == Letters(Leaf(t, p)) m == Letters(v) IN
  IF Leaf(t, p) \notin Texts \/ v \notin Texts THEN Raised(t)
  ELSE IF key = All THEN Done(IF Includes(l, m) THEN t ELSE Rewritten(t, p, l \o m))
  ELSE IF key \in Range(l) THEN Done(Rewritten(t, p, Replaced(l, key, m)))
  ELSE Raised(t)

\* One key that names one thing at a text, a number, true or false.
FollowLeaf(t, p, key, rest, v, below) ==
  LET got == Bracket(Leaf(t, p), key)
      On(r) == below[[tree |-> t, at |-> r]]
  IN
  IF key # All /\ ~IsA(key, "index") /\ got = Nil THEN Done(t)
  ELSE IF rest = <<>> THEN SetLeaf(t, p, key, v)
  ELSE IF key = All THEN On(p)
  ELSE On(IF got = Nil THEN Missing ELSE Piece(got))

\* The same at a hash, a list or nil.
FollowNode(t, p, key, rest, v, below) ==
  LET q == Append(p, key)
      On(u, r) == below[[tree |-> u, at |-> r]]
  IN
  CASE IsA(key, "name") ->
         IF Kind(t, p) # Hash THEN Done(t)
         ELSE IF rest = <<>> THEN Done(Put(t, q, v))
         ELSE On(IF There(t, q) THEN t ELSE Put(t, q, Fresh(rest)), q)
    [] IsA(key, "colon") ->
         IF Kind(t, p) # Hash THEN Done(t)
         ELSE IF ~There(t, q) THEN Done(Put(t, q, Hash))
         ELSE IF rest = <<>> THEN Done(Put(t, q, v)) ELSE On(t, q)
    [] IsA(key, "index") ->
         IF rest # <<>> THEN On(t, IF Kind(t, p) = Array /\ There(t, q) THEN q ELSE Missing)
         ELSE IF Kind(t, p) = Hash THEN Done(Put(t, q, v)) ELSE Raised(t)
    [] OTHER -> IF rest = <<>> THEN AppendTo(t, p, v) ELSE On(t, p)

\* below is what the rest of the keys does.
Follow(t, p, key, rest, v, below) ==
  IF Leaf(t, p) \in Leaves THEN FollowLeaf(t, p, key, rest, v, below)
                            ELSE FollowNode(t, p, key, rest, v, below)

\* The keys ks at p, one after the other.  What one raises leaves the loop.
Each(t, p, ks, rest, v, below) ==
  LET after[i \in 0..Len(ks)] ==
        IF i = 0 THEN Done(t)
        ELSE LET done == after[i - 1] IN
             IF done.raised THEN done ELSE Follow(done.tree, p, ks[i], rest, v, below)
  IN after[Len(ks)]

\* _traverse_and_update_metadata with one key and the rest: what the loop over
\* a list- or where-key raises is rescued.
Traverse(t, p, key, rest, v, below) ==
  LET done == Each(t, p, Alternatives(t, p, key), rest, v, below) IN
  IF Selects(key) THEN Done(done.tree) ELSE done

\* traverse_and_update_metadata; below[n] is what the last n keys do.
Updated(t, keys, v) ==
  LET N == Len(keys)
      below[n \in 0..N] ==
        [c \in Calls |->
           IF n = 0 THEN Done(c.tree)
           ELSE Traverse(c.tree, c.at, keys[N - n + 1], SubSeq(keys, N - n + 2, N), v, below[n - 1])]
  IN below[N][[tree |-> t, at |-> <<>>]]

-----------------------------------------------------------------------------
(* _traverse_metadata: the positions that the keys read, Missing for nil.    *)

Child(t, p, k) == IF There(t, Append(p, k)) THEN Append(p, k) ELSE Missing
ReadOne(t, p, key) ==
  IF Leaf(t, p) \in Leaves
    THEN IF Bracket(Leaf(t, p), key) = Nil THEN Missing ELSE Piece(Bracket(Leaf(t, p), key))
  ELSE IF Kind(t, p) = (IF IsA(key, "index") THEN Array ELSE Hash) THEN Child(t, p, key)
  ELSE Missing
\* A where-key reads the names that its text is split into, which are not there.
ReadKey(t, p, key) ==
  CASE IsA(key, "list") -> {ReadOne(t, p, k) : k \in Range(key[2])}
    [] IsA(key, "where") -> {Missing}
    [] key = All ->
         CASE Leaf(t, p) \in Texts -> {ReadOne(t, p, Index(i - 1)) : i \in DOMAIN Letters(Leaf(t, p))}
           [] Kind(t, p) \in {Hash, Array} -> {ReadOne(t, p, Index(i - 1)) : i \in 1..Size(t, p)}
           [] OTHER -> {Missing}
    [] OTHER -> {ReadOne(t, p, key)}
Read(t, keys) ==
  LET found[n \in 0..Len(keys)] ==
        IF n = 0 THEN {<<>>} ELSE UNION {ReadKey(t, p, keys[n]) : p \in found[n - 1]}
  IN found[Len(keys)]

-----------------------------------------------------------------------------
VARIABLES stored,    \* the metadata in the row
          asked      \* the requests so far, the last one, and whether it raised

pathVars == <<stored, asked>>

PathInit == stored \in Trees /\ asked = [n |-> 0, keys |-> <<>>, value |-> Nil, raised |-> FALSE]

\* ResultsController#update_metadata: an exception leaves the row as it is.
UpdateMetadata ==
  \E keys \in Paths, v \in Values :
    LET done == Updated(stored, keys, v) IN
    /\ asked.n < MaxRequests
    /\ stored' = IF done.raised THEN stored ELSE done.tree
    /\ asked' = [n |-> asked.n + 1, keys |-> keys, value |-> v, raised |-> done.raised]

PathNext == UpdateMetadata
PathSpec == PathInit /\ [][PathNext]_pathVars

-----------------------------------------------------------------------------
\* The reference.  The keys that a key stands for:
Chosen(t, p, key) ==
  CASE IsA(key, "list") -> Range(key[2])
    [] IsA(key, "where") ->
         {Last(q) : q \in {q \in Below(t, p) : Askable(t, p) /\ Field(t, q, key[2]) \in key[3]}}
    [] OTHER -> {key}

\* The positions that a path of keys names, whether or not they are there:
\* hashes that are missing on the way count as empty.
NamedOne(t, p, key, last) ==
  CASE IsA(key, "index") ->
         {q \in {Append(p, key)} : \/ Kind(t, p) = Array /\ There(t, q)
                                   \/ Kind(t, p) = Hash /\ last}
    [] key = All ->
         IF ~last THEN {p}
         ELSE IF Kind(t, p) \in {Array, Nil} THEN {Element(p, Size(t, p))}
         ELSE {q \in {p} : Kind(t, p) \in Texts}
    [] OTHER -> {q \in {Append(p, key)} : Kind(t, p) \in {Hash, Nil}}
Named(t, keys) ==
  LET named[n \in 0..Len(keys)] ==
        IF n = 0 THEN {<<>>}
        ELSE UNION {UNION {NamedOne(t, p, k, n = Len(keys)) : k \in Chosen(t, p, keys[n])} :
                      p \in named[n - 1]}
  IN named[Len(keys)]

\* The metadata is a tree.
PathTypeOK == stored \in AllTrees

\* Where a path of keys leads, whatever is there; nowhere below p if it selects
\* no element of p.
Onward(t, p, key, last) ==
  IF key = All
    THEN {IF last /\ Kind(t, p) \notin Texts THEN Element(p, Size(t, p)) ELSE p}
    ELSE {Append(p, k) : k \in IF Chosen(t, p, key) = {} THEN {All} ELSE Chosen(t, p, key)}
Ways(t, keys) ==
  LET way[n \in 0..Len(keys)] ==
        IF n = 0 THEN {<<>>}
        ELSE UNION {Onward(t, p, keys[n], n = Len(keys)) : p \in way[n - 1]}
  IN way[Len(keys)]

\* A request changes nothing but where its keys lead, what is missing on the
\* way, and a text that the last key is looked for in (String#[]=), whatever mix
\* of keys it has and wherever it breaks off.
NothingElseChanges ==
  [][\A q \in Taken(stored) \cup Taken(stored') :
       Kind(stored, q) # Kind(stored', q) =>
         \E w \in Ways(stored, asked'.keys) :
           \/ IsPrefix(w, q)
           \/ IsPrefix(q, w) /\ Kind(stored, q) = Nil
           \/ q = Front(w) /\ {Kind(stored, q), Kind(stored', q)} \subseteq Texts]_pathVars

\* A name, or a list of names.
Names(key) == \/ IsA(key, "name")
              \/ IsA(key, "list") /\ \A i \in DOMAIN key[2] : IsA(key[2][i], "name")
\* A key that leads one level down; "colon" may make a hash and stop there.
OneDown(key) == IsA(key, "name") \/ Selects(key)
\* Names at the end, after names and selections of elements.
Plain(keys) == /\ keys # <<>> /\ Names(Last(keys))
               /\ \A i \in DOMAIN keys : OneDown(keys[i])

ByNames(keys) == \A i \in DOMAIN keys : Names(keys[i])

\* A value added to what is, or would be, a list that names lead to.
Added(t, keys) ==
  /\ keys # <<>> /\ Last(keys) = All /\ \A i \in DOMAIN Front(keys) : IsA(keys[i], "name")
  /\ \A q \in Named(t, keys) : Kind(t, Front(q)) \in {Array, Nil}

\* No text is on the way: there "[]=" raises if the value is no text, and what
\* would have come after it is not done.
NoTextBefore(t, keys) ==
  \A w \in Ways(t, keys), q \in Taken(t) : IsPrefix(q, w) /\ Kind(t, q) \in Texts => q = w

\* With plain keys every position that is named has the new value; what was
\* set by names is what the same keys read afterwards; and a value that was
\* added to a list, which may have been missing, is among what they read.
ReadBack ==
  [][LET keys  == asked'.keys
         named == Named(stored, keys)
         found == Read(stored', keys)
         sets  == asked'.value \in Texts \/ NoTextBefore(stored, keys)
     IN /\ Plain(keys) /\ sets => \A q \in named : Kind(stored', q) = asked'.value
        /\ ByNames(keys) /\ sets => named \subseteq found
        /\ Added(stored, keys) /\ named # {} =>
             \E r \in found : Kind(stored', r) = asked'.value]_pathVars
=============================================================================
