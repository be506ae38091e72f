--------------------------- MODULE MCResultsPage ----------------------------
(* Three results that match, two on a page; they are interchangeable.       *)
EXTENDS ResultsPage, TLC

CONSTANTS x, y, z

Symmetry == Permutations(Results)
=============================================================================
