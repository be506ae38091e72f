--------------------------- MODULE MCMetadataPaths ---------------------------
(* A result with a list of two vulnerabilities, one of them with a number,   *)
(* one with a list of a vulnerability and something else, and one with a     *)
(* text where paths expect a hash; keys of every kind in every place.        *)
EXTENDS MetadataPaths

X == Text(<<Name("x")>>)
Y == Text(<<Name("y")>>)
X0 == Text(<<Name("x"), Index(0)>>)

At(p, k) == [at |-> p, is |-> k]
V == <<Name("v")>>
Vuln(i) == <<Name("v"), Index(i)>>
Vulnerable ==
  {At(<<>>, Hash), At(V, Array),
   At(Vuln(0), Hash), At(Vuln(0) \o <<Name("id")>>, X), At(Vuln(0) \o <<Name("s")>>, X),
   At(Vuln(1), Hash), At(Vuln(1) \o <<Name("id")>>, Y), At(Vuln(1) \o <<Name("s")>>, Number)}
Mixed(k) ==
  {At(<<>>, Hash), At(V, Array), At(Vuln(0), Hash), At(Vuln(0) \o <<Name("id")>>, Y), At(Vuln(1), k)}
Plainly == {At(<<>>, Hash), At(<<Name("a")>>, X0), At(<<Name("x")>>, False)}
MCTrees == {Vulnerable, Plainly} \cup {Mixed(k) : k \in {X0, Array, Number, True}}

MCValues == {Y, Hash, True}

First  == {Name("v"), Name("a"), Colon(":c"), Several(<<Name("a"), Name("v")>>)}
Middle == {Name("s"), Index(0), All, Where(Name("id"), {Y}), Where(Name("id"), {X, Y}),
           Where(Name("x"), {X}), Several(<<Index(0), Index(1)>>), Colon(":c")}
LastKeys == {Name("s"), Name("x"), Index(0), Index(1), All, Several(<<Name("s"), Name("id")>>)}
MCPaths ==
  {<<a>> : a \in First} \cup {<<a, c>> : a \in First, c \in LastKeys \cup Middle}
    \cup {<<a, b, c>> : a \in First, b \in Middle, c \in LastKeys}

\* A request reads the tree, and nothing of the one before it.
Tree == <<stored, asked.n>>
=============================================================================
